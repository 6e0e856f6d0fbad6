-------------------------------- MODULE Lobby --------------------------------
(***************************************************************************)
(* The lobby: the lists of rooms and of planned events that                *)
(* src/frontend/src/App.tsx polls; attendance, deletion and creation of    *)
(* events (components/EventPlanner.tsx); the password dialog               *)
(* (components/RoomList.tsx); and the targets of invitation links.  Own    *)
(* changes are shown at once, polled lists arrive late and in any order.   *)
(* The server is src/backend/room/events.go and access.go.                 *)
(***************************************************************************)
EXTENDS Integers, FiniteSets, Sequences, SequencesExt

CONSTANTS
    Events, Rooms,
    Protected,            \* rooms with a password
    None,
    MaxCalls,             \* bound: async calls under way at one time
    MaxCount              \* bound: an attendance is not set beyond this count

ASSUME LobbyAssumption ==
    /\ Protected \subseteq Rooms /\ None \notin Events \cup Rooms
    /\ MaxCalls \in Nat

VARIABLES
    event,                \* the server: "new", "listed" or "gone"
    attending,            \* the events this user attends
    open,                 \* rooms
    events, rooms,                         \* App: the lists shown
    pendingId, selectedEvent,  \* EventPlanner
    joinTarget,                            \* RoomList
    requestedEvent, requestedRoom,         \* invitation links
    activeRoom,
    calls                                  \* the calls under way, oldest first

tables == <<event, attending, open>>
lists == <<events, rooms>>
planner == <<pendingId, selectedEvent>>
links == <<requestedEvent, requestedRoom>>
lobbyVars == <<tables, lists, planner, joinTarget, links, activeRoom, calls>>

Listed == {e \in Events : event[e] = "listed"}
\* What ListMeditationEvents returns.
Listing == [e \in Listed |-> [isAttending |-> e \in attending,
                              count |-> IF e \in attending THEN 1 ELSE 0]]
With(S, m, on) == IF on THEN S \cup {m} ELSE S \ {m}
inLobby == activeRoom = None

\* A call names its target; `fresh` while the screen that made it is mounted.
Starts(kind, of, on) ==
    /\ Len(calls) < MaxCalls
    /\ calls' = Append(calls, [kind |-> kind, of |-> of, on |-> on, at |-> "asked", value |-> {},
                               fresh |-> kind \in {"attend", "create", "access"}])
Ends(i) == calls' = RemoveAt(calls, i)
isSubmitting == \E i \in DOMAIN calls : calls[i].kind = "access" /\ calls[i].fresh

LobbyInit ==
    /\ event \in [Events -> {"new", "listed"}] /\ attending = {} /\ open = {}
    /\ events = <<>> /\ rooms = {}
    /\ pendingId = None /\ selectedEvent = None
    /\ joinTarget = None
    /\ requestedEvent \in Events \cup {None} /\ requestedRoom \in Rooms \cup {None}
    /\ activeRoom = None
    /\ calls = <<>>

-----------------------------------------------------------------------------
(* Polling, while the lobby is shown: fetchEvents and fetchRooms, from the   *)
(* interval and when a hidden tab comes back.                                *)

fetchEvents ==
    /\ inLobby
    /\ Starts("events", None, FALSE)
    /\ UNCHANGED <<tables, lists, planner, joinTarget, links, activeRoom>>

fetchRooms ==
    /\ inLobby
    /\ Starts("rooms", None, FALSE)
    /\ UNCHANGED <<tables, lists, planner, joinTarget, links, activeRoom>>

-----------------------------------------------------------------------------
(* EventPlanner *)

\* The card of a listed event, and its details, offer what may be done with it;
\* who is its host, and whether its time has come, is left open.
Carded(e) == inLobby /\ e \in DOMAIN events

\* The details of an event are on screen while it is listed, over the cards.
Detailed == inLobby /\ selectedEvent \in DOMAIN events

\* toggleAttendance; the button of the event that is pending is disabled.
toggleAttendance(e) ==
    /\ Carded(e) /\ pendingId # e
    /\ events[e].count < MaxCount
    /\ pendingId' = e
    /\ Starts("attend", e, ~events[e].isAttending)
    /\ UNCHANGED <<tables, lists, selectedEvent, joinTarget, links, activeRoom>>

\* handleDeleteEvent, from the card of an own event.
deleteEvent(e) ==
    /\ Carded(e)
    /\ Starts("delete", e, FALSE)
    /\ UNCHANGED <<tables, lists, planner, joinTarget, links, activeRoom>>

\* submit, in the dialog of a new event; its button is disabled while it runs.
submit ==
    /\ inLobby /\ pendingId # "create"
    /\ pendingId' = "create"
    /\ Starts("create", None, FALSE)
    /\ UNCHANGED <<tables, lists, selectedEvent, joinTarget, links, activeRoom>>

\* openEvent, closeEvent.
selectEvent(e) ==
    /\ IF e = None THEN Detailed ELSE ~Detailed /\ Carded(e)
    /\ selectedEvent' = e
    /\ UNCHANGED <<tables, lists, pendingId, joinTarget, links, activeRoom, calls>>

-----------------------------------------------------------------------------
(* RoomList, and entering a room *)

\* setActiveRoom: the lobby's components are unmounted, their calls go on.
Enters(r, pending) ==
    /\ activeRoom' = r
    /\ pendingId' = None /\ selectedEvent' = None
    /\ joinTarget' = None
    /\ calls' = [i \in DOMAIN pending |-> [pending[i] EXCEPT !.fresh = FALSE]]

\* handleJoin without a password: a protected room asks for it in a dialog.
Joins(r) ==
    IF r \in Protected
    THEN joinTarget' = r /\ UNCHANGED <<activeRoom, planner, calls>>
    ELSE Enters(r, calls)

handleJoin(r) ==
    /\ inLobby /\ r \in rooms
    /\ Joins(r)
    /\ UNCHANGED <<tables, lists, links>>

\* onEnter of EventPlanner: the event's room, which may be protected or not yet
\* open, is entered without a ticket.
enterEvent(r) ==
    /\ inLobby /\ events # <<>>
    /\ Enters(r, calls)
    /\ UNCHANGED <<tables, lists, links>>

\* The dialog is closed; the ticket under way is used all the same.
closeJoin ==
    /\ joinTarget # None
    /\ joinTarget' = None
    /\ UNCHANGED <<tables, lists, planner, links, activeRoom, calls>>

\* handleJoin with the password, and requestRoomAccess.
unlock ==
    /\ joinTarget # None /\ ~isSubmitting
    /\ Starts("access", joinTarget, FALSE)
    /\ UNCHANGED <<tables, lists, planner, joinTarget, links, activeRoom>>

handleLeaveRoom ==
    /\ ~inLobby
    /\ activeRoom' = None
    /\ UNCHANGED <<tables, lists, planner, joinTarget, links, calls>>

\* An invitation link is followed once the list has its target.
eventLink ==
    /\ inLobby /\ requestedEvent \in DOMAIN events
    /\ selectedEvent' = requestedEvent /\ requestedEvent' = None
    /\ UNCHANGED <<tables, lists, pendingId, joinTarget, requestedRoom, activeRoom,
                   calls>>

roomLink ==
    /\ inLobby /\ requestedRoom \in rooms
    /\ requestedRoom' = None
    /\ Joins(requestedRoom)
    /\ UNCHANGED <<tables, lists, requestedEvent>>

-----------------------------------------------------------------------------
(* The server.  Who attends an event is removed with it; a row for an event   *)
(* that is gone is refused by its foreign key.                               *)

Reply(i, value) == calls' = [calls EXCEPT ![i].at = "answered", ![i].value = value]

ListEvents(i) ==
    /\ calls[i].kind \in {"events", "created"}
    /\ Reply(i, Listing)
    /\ UNCHANGED tables

ListRooms(i) ==
    /\ calls[i].kind = "rooms"
    /\ Reply(i, open)
    /\ UNCHANGED tables

\* To withdraw from an event that is gone succeeds.
SetAttendance(i) ==
    /\ calls[i].kind = "attend" /\ (calls[i].on => calls[i].of \in Listed)
    /\ attending' = With(attending, calls[i].of, calls[i].on)
    /\ Reply(i, {})
    /\ UNCHANGED <<event, open>>

DeleteEvent(i) ==
    /\ calls[i].kind = "delete" /\ calls[i].of \in Listed
    /\ event' = [event EXCEPT ![calls[i].of] = "gone"]
    /\ attending' = attending \ {calls[i].of}
    /\ Reply(i, {})
    /\ UNCHANGED open

\* The handler of a new event inserts it ...
CreateEvent(i) ==
    /\ calls[i].kind = "create"
    /\ \E e \in Events :
          /\ event[e] = "new" /\ event' = [event EXCEPT ![e] = "listed"]
          /\ calls' = [calls EXCEPT ![i].at = "inserted", ![i].of = e]
    /\ UNCHANGED <<attending, open>>

\* ... and then has its host attend it; an error of this second statement, as
\* when the event is gone by now, is ignored.
AttendCreated(i) ==
    /\ calls[i].at = "inserted"
    /\ \/ UNCHANGED attending
       \/ calls[i].of \in Listed /\ attending' = attending \cup {calls[i].of}
    /\ Reply(i, {})
    /\ UNCHANGED <<event, open>>

\* IssueRoomAccess: the password may be wrong (Fails), the room gone.
CheckPassword(i) ==
    /\ calls[i].kind = "access" /\ calls[i].of \in open
    /\ Reply(i, {})
    /\ UNCHANGED tables

Serves(i) ==
    /\ \/ /\ calls[i].at = "asked"
          /\ \/ ListEvents(i) \/ ListRooms(i) \/ SetAttendance(i)
             \/ DeleteEvent(i) \/ CreateEvent(i) \/ CheckPassword(i)
       \/ AttendCreated(i)
    /\ UNCHANGED <<lists, planner, joinTarget, links, activeRoom>>

\* What everybody else does, and this user in another tab.
Elsewhere ==
    /\ \/ \E e \in Events : event[e] = "new" /\ UNCHANGED <<attending, open>>
              /\ event' = [event EXCEPT ![e] = "listed"]
       \/ \E e \in Listed : UNCHANGED open
              /\ event' = [event EXCEPT ![e] = "gone"] /\ attending' = attending \ {e}
       \/ \E e \in Listed : attending' = With(attending, e, e \notin attending)
              /\ UNCHANGED <<event, open>>
       \/ \E r \in Rooms : open' = With(open, r, r \notin open)
              /\ UNCHANGED <<event, attending>>
    /\ UNCHANGED <<lists, planner, joinTarget, links, activeRoom, calls>>

-----------------------------------------------------------------------------
(* Calls: what their answers do.  App's lists change whatever is shown by    *)
(* now; setters of unmounted screens do nothing.                             *)

\* finally { setPendingId(null) }: whatever is pending by now.
PendingEnds(q) == pendingId' = IF q.fresh THEN None ELSE pendingId

\* Mutant of EventsListed: an empty list is taken for a failure.
EventsListedSome(i) ==
    /\ calls[i].kind = "events"
    /\ events' = IF DOMAIN calls[i].value = {} THEN events ELSE calls[i].value
    /\ Ends(i)
    /\ UNCHANGED <<rooms, pendingId>>

EventsListed(i) ==
    /\ calls[i].kind = "events"
    /\ events' = calls[i].value
    /\ Ends(i)
    /\ UNCHANGED <<rooms, pendingId>>

\* ... the one that handleCreateEvent goes on with.
CreatedListed(i) ==
    /\ calls[i].kind = "created"
    /\ events' = calls[i].value
    /\ PendingEnds(calls[i])
    /\ Ends(i)
    /\ UNCHANGED <<rooms>>

RoomsListed(i) ==
    /\ calls[i].kind = "rooms"
    /\ rooms' = calls[i].value
    /\ Ends(i)
    /\ UNCHANGED <<events, pendingId>>

\* handleEventAttendance counts on from what is shown by now.
max0Missing(n) == n                                      \* mutant of max0
max0(n) == IF n < 0 THEN 0 ELSE n
CountedLeavingOnly(shown, on) ==                         \* mutant of Counted
    [isAttending |-> on, count |-> max0(IF on THEN shown.count ELSE shown.count - 1)]
Counted(shown, on) == [isAttending |-> on, count |-> max0(shown.count + (IF on THEN 1 ELSE -1))]
AttendanceSet(i) ==
    /\ calls[i].kind = "attend"
    /\ events' = [e \in DOMAIN events |->
           IF e = calls[i].of THEN Counted(events[e], calls[i].on) ELSE events[e]]
    /\ PendingEnds(calls[i])
    /\ Ends(i)
    /\ UNCHANGED <<rooms>>

Deleted(i) ==
    /\ calls[i].kind = "delete"
    /\ events' = [e \in DOMAIN events \ {calls[i].of} |-> events[e]]
    /\ Ends(i)
    /\ UNCHANGED <<rooms, pendingId>>

\* await fetchEvents(): the server is asked anew.
Created(i) ==
    /\ calls[i].kind = "create"
    /\ calls' = [calls EXCEPT ![i].kind = "created", ![i].of = None, ![i].at = "asked"]
    /\ UNCHANGED <<lists, pendingId>>

\* handleJoinRoom goes on with the ticket, wherever the user is by now.
AccessGranted(i) ==
    /\ calls[i].kind = "access"
    /\ Enters(calls[i].of, RemoveAt(calls, i))
    /\ UNCHANGED lists

Answers(i) ==
    /\ calls[i].at = "answered"
    /\ \/ /\ \/ EventsListed(i) \/ CreatedListed(i) \/ RoomsListed(i) \/ AttendanceSet(i)
             \/ Deleted(i) \/ Created(i)
          /\ UNCHANGED <<selectedEvent, joinTarget, activeRoom>>
       \/ AccessGranted(i)
    /\ UNCHANGED <<tables, links>>

\* No answer, or an error: the list stays, an action's finally runs.
Fails(i) ==
    /\ IF calls[i].kind \in {"attend", "create", "created"} THEN PendingEnds(calls[i])
                                                           ELSE UNCHANGED pendingId
    /\ Ends(i)
    /\ UNCHANGED <<tables, lists, selectedEvent, joinTarget, links, activeRoom>>

\* What the server refuses; a failure may hit any call.
Refused(i) ==
    /\ calls[i].at = "asked"
    /\ \/ calls[i].kind = "attend" /\ calls[i].on /\ calls[i].of \notin Listed
       \/ calls[i].kind = "delete" /\ calls[i].of \notin Listed
       \/ calls[i].kind = "access" /\ calls[i].of \notin open
       \/ calls[i].kind = "create" /\ \A e \in Events : event[e] # "new"
    /\ Fails(i)

-----------------------------------------------------------------------------
Acts ==
    \/ submit \/ closeJoin \/ unlock \/ handleLeaveRoom
    \/ \E e \in Events : toggleAttendance(e) \/ deleteEvent(e)
    \/ \E e \in Events \cup {None} : selectEvent(e)
    \/ \E r \in Rooms : handleJoin(r) \/ enterEvent(r)
    \/ \E i \in DOMAIN calls : Fails(i)
    \/ Elsewhere
Polls ==
    \/ fetchEvents \/ fetchRooms
    \/ \E i \in DOMAIN calls : Serves(i) \/ Answers(i) \/ Refused(i)
Links == eventLink \/ roomLink

LobbyNext == Acts \/ Polls \/ Links
LobbySpec == LobbyInit /\ [][LobbyNext]_lobbyVars

\* The interval keeps firing, calls are answered, effects run.
LobbyFairness ==
    /\ WF_lobbyVars(calls # <<>> /\ (Serves(1) \/ Answers(1) \/ Refused(1)))
    /\ SF_lobbyVars(fetchEvents) /\ SF_lobbyVars(fetchRooms)
    /\ WF_lobbyVars(Links)
FairLobbySpec == LobbySpec /\ LobbyFairness

-----------------------------------------------------------------------------
IsListing(list) ==
    /\ DOMAIN list \subseteq Events
    /\ \A e \in DOMAIN list : list[e].isAttending \in BOOLEAN /\ list[e].count \in Nat

\* What a call is about; an answered one carries what its setter will show.
CallTyped(c) ==
    /\ c.at \in {"asked", "inserted", "answered"} /\ c.on \in BOOLEAN /\ c.fresh \in BOOLEAN
    /\ \/ c.kind \in {"attend", "delete"} /\ c.of \in Events
       \/ c.kind = "access" /\ c.of \in Protected
       \/ c.kind \in {"events", "rooms", "created"} /\ c.of = None
       \/ c.kind = "create" /\ c.of \in Events \cup {None}
    /\ c.at = "inserted" => c.kind = "create" /\ c.of \in Events
    /\ c.at = "answered" /\ c.kind \in {"events", "created"} => IsListing(c.value)
    /\ c.at = "answered" /\ c.kind = "rooms" => c.value \subseteq Rooms

\* Types of the tables, the lists, the screens and the calls under way.
LobbyTypeOK ==
    /\ event \in [Events -> {"new", "listed", "gone"}]
    /\ attending \subseteq Events /\ open \subseteq Rooms
    /\ IsListing(events) /\ rooms \subseteq Rooms
    /\ pendingId \in Events \cup {None, "create"}
    /\ selectedEvent \in Events \cup {None} /\ joinTarget \in Protected \cup {None}
    /\ requestedEvent \in Events \cup {None} /\ requestedRoom \in Rooms \cup {None}
    /\ activeRoom \in Rooms \cup {None}
    /\ Len(calls) <= MaxCalls /\ \A i \in DOMAIN calls : CallTyped(calls[i])

\* Own changes are counted on whatever list is shown by then: one from before, one
\* that counts them already, one in which another tab has taken them back.  None of
\* them ever shows this user among no attendees (handleEventAttendance).  That too
\* many are shown does happen; LobbySettles says that it heals.
AttendeesCounted ==
    \A e \in DOMAIN events : events[e].count >= (IF events[e].isAttending THEN 1 ELSE 0)

\* Attendance counted twice, a deleted event that comes back with a late list,
\* a list older than the one on screen: all of it heals.  If from some time on
\* only polls run and the lobby stays visible, both lists come to agree with
\* the server and stay so, and an invitation link to something listed has been
\* followed, however many polls failed or came late before.
LobbySettles ==
    <>[][Polls \/ Links]_lobbyVars =>
        <>[](inLobby =>
                /\ events = Listing /\ rooms = open
                /\ requestedEvent \notin Listed /\ requestedRoom \notin open)

=============================================================================
