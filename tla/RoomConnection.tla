--------------------------- MODULE RoomConnection ---------------------------
(***************************************************************************)
(* A page's connection to a room, src/frontend/src/App.tsx: the effect     *)
(* that opens a websocket for the active room and redials it, the ways     *)
(* into a room and out of it, the session it depends on, reloads of the    *)
(* page, and which room's state and chat are on screen.                    *)
(*                                                                         *)
(* A handler, the render it causes and the effects of that render are one  *)
(* step.  A socket closed by the page delivers no more messages, but its   *)
(* close event comes later.  How long a redial waits is left out.          *)
(***************************************************************************)
EXTENDS Integers, FiniteSets

CONSTANTS
    Rooms, NoRoom,
    Sockets, NoSocket,   \* bound: sockets that exist at one time
    MaxPending           \* bound: requests of one kind under way

ASSUME RoomsAssumption == NoRoom \notin Rooms
ASSUME SocketsAssumption == NoSocket \notin Sockets
ASSUME PendingAssumption == MaxPending \in Nat

VARIABLES
    token,           \* of the page: none, a guest's or an account's
    checking,        \* isCheckingToken: the stored token being verified
    loggingOut,      \* calls of handleLogout that await the server
    guestStarting,   \* calls of startGuestSession that await the server
    activeRoom,      \* kept in sessionStorage across reloads
    socket,          \* every socket: its state, room and token
    wsRef,
    timer,           \* reconnectTimer of the current effect is armed
    leavingRoom,     \* leavingRoomRef
    tickets,         \* rooms whose access ticket is awaited
    roomState,       \* the room whose room_state is on screen
    chat,            \* the rooms whose chatMessages are on screen
    moved            \* history: a late ticket took the page from room to room

session == <<token, checking, loggingOut, guestStarting>>
link == <<socket, wsRef, timer>>
screen == <<roomState, chat>>
vars == <<session, activeRoom, link, leavingRoom, tickets, screen, moved>>

Accounts == {"guest", "user"}
Free == [state |-> "free"]
Dialed(r, tk) == [state |-> "connecting", room |-> r, token |-> tk]

InState(s, state) == [socket EXCEPT ![s].state = state]
Live(s) == socket[s].state \in {"connecting", "open"}
InRoom == activeRoom # NoRoom /\ token # "none"

\* A page is opened, with or without a stored session.
Init ==
    /\ token = "none" /\ loggingOut = 0
    /\ checking \in {"none", "guest", "user"}
    /\ guestStarting = IF checking = "none" THEN 1 ELSE 0
    /\ activeRoom = NoRoom
    /\ socket = [s \in Sockets |-> Free] /\ wsRef = NoSocket
    /\ timer = FALSE /\ leavingRoom = FALSE
    /\ tickets = {}
    /\ roomState = NoRoom /\ chat = {}
    /\ moved = FALSE

-----------------------------------------------------------------------------
(* The connection effect *)

ClosedLater(s) == socket                                 \* mutant of Closed
\* The page closes a socket; the close event is still to come.
Closed(s) ==
    IF s # NoSocket /\ Live(s) THEN InState(s, "closing") ELSE socket

\* connect: a new socket for room r and token tk.
connect(sockets, r, tk) ==
    \E s \in Sockets :
        /\ sockets[s] = Free
        /\ socket' = [sockets EXCEPT ![s] = Dialed(r, tk)]
        /\ wsRef' = s

\* The effect's cleanup and its next run, for room r and token tk.
RunEffect(r, tk) ==
    /\ timer' = FALSE
    /\ IF r # NoRoom /\ tk # "none"
       THEN /\ connect(Closed(wsRef), r, tk)
            /\ leavingRoom' = FALSE
            /\ UNCHANGED screen
       ELSE /\ socket' = Closed(wsRef)
            /\ wsRef' = NoSocket
            /\ roomState' = NoRoom /\ chat' = {}
            /\ UNCHANGED leavingRoom

\* The timer of the current effect redials.
TimerFires ==
    /\ timer
    /\ timer' = FALSE
    /\ connect(socket, activeRoom, token)
    /\ UNCHANGED <<session, activeRoom, leavingRoom, tickets, screen, moved>>

\* onopen
Opens(s) ==
    /\ socket[s].state = "connecting"
    /\ socket' = InState(s, "open")
    /\ UNCHANGED <<session, activeRoom, wsRef, timer, leavingRoom, tickets, screen, moved>>

\* Mutants of RoomStateArrives: closed sockets still deliver, or only the first
\* state is taken.
RoomStateArrivesLate(s) ==
    /\ socket[s].state \in {"open", "closing"}
    /\ roomState' = socket[s].room
    /\ UNCHANGED <<session, activeRoom, link, leavingRoom, tickets, chat, moved>>
RoomStateArrivesOnce(s) ==
    /\ socket[s].state = "open"
    /\ roomState' = IF roomState = NoRoom THEN socket[s].room ELSE roomState
    /\ UNCHANGED <<session, activeRoom, link, leavingRoom, tickets, chat, moved>>

\* onmessage, room_state
RoomStateArrives(s) ==
    /\ socket[s].state = "open"
    /\ roomState' = socket[s].room
    /\ UNCHANGED <<session, activeRoom, link, leavingRoom, tickets, chat, moved>>

\* onmessage, chat and chat_history: one adds to the list, one replaces it.
\* A room without history sends none.
ChatArrives(s) ==
    /\ socket[s].state = "open"
    /\ chat' \in {chat \cup {socket[s].room}, {socket[s].room}}
    /\ UNCHANGED <<session, activeRoom, link, leavingRoom, tickets, roomState, moved>>

\* The network or the server ends a connection, or refuses it.
Breaks(s) ==
    /\ Live(s)
    /\ socket' = InState(s, "broken")
    /\ UNCHANGED <<session, activeRoom, wsRef, timer, leavingRoom, tickets, screen, moved>>

\* Mutant of scheduleReconnect: called with wsRef already cleared.
scheduleReconnectCleared(s) ==
    timer' = (timer \/ (wsRef' = s /\ InRoom /\ ~leavingRoom))

\* scheduleReconnect: only the effect that is current has shouldReconnect.
scheduleReconnect(s) ==
    timer' = (timer \/ (wsRef = s /\ InRoom /\ ~leavingRoom))

\* onclose, of the current effect's socket or of an earlier one's.
CloseEvent(s) ==
    /\ socket[s].state \in {"closing", "broken"}
    /\ socket' = [socket EXCEPT ![s] = Free]
    /\ wsRef' = IF wsRef = s THEN NoSocket ELSE wsRef
    /\ scheduleReconnect(s)
    /\ UNCHANGED <<session, activeRoom, leavingRoom, tickets, screen, moved>>

-----------------------------------------------------------------------------
(* Into a room and out of it *)

InLobby == activeRoom = NoRoom /\ token # "none"

\* handleJoinRoom and handleCreateRoom without a password.
Enter(r) ==
    /\ InLobby
    /\ activeRoom' = r
    /\ RunEffect(r, token)
    /\ UNCHANGED <<session, tickets, moved>>

\* ... and with one: requestRoomAccess comes first.
requestRoomAccess(r) ==
    /\ InLobby
    /\ r \notin tickets /\ Cardinality(tickets) < MaxPending
    /\ tickets' = tickets \cup {r}
    /\ UNCHANGED <<session, activeRoom, link, leavingRoom, screen, moved>>

\* The ticket arrives, wherever the user is by now.
TicketArrives(r) ==
    /\ r \in tickets
    /\ tickets' = tickets \ {r}
    /\ activeRoom' = r
    /\ RunEffect(r, token)
    /\ moved' = (moved \/ activeRoom \in Rooms \ {r})
    /\ UNCHANGED session

TicketRefused(r) ==
    /\ r \in tickets
    /\ tickets' = tickets \ {r}
    /\ UNCHANGED <<session, activeRoom, link, leavingRoom, screen, moved>>

\* The room's button and Back, and the brand in the header, in the lobby too.
LeaveOffered == activeRoom # NoRoom \/ InLobby

handleLeaveRoom ==
    /\ LeaveOffered
    /\ activeRoom' = NoRoom
    /\ socket' = Closed(wsRef) /\ wsRef' = NoSocket
    /\ timer' = FALSE
    /\ leavingRoom' = TRUE
    /\ roomState' = NoRoom /\ chat' = {} /\ moved' = FALSE
    /\ UNCHANGED <<session, tickets>>

\* A new language runs the connection effect again.
handleSetLang ==
    /\ checking = "no"
    /\ RunEffect(activeRoom, token)
    /\ UNCHANGED <<session, activeRoom, tickets, moved>>

-----------------------------------------------------------------------------
(* The session, as far as the connection depends on it *)

\* The page is loaded anew: sockets, timers and requests are gone, the token
\* and the room are restored from the browser's storage.
Reload ==
    /\ checking = "no"
    /\ token' = "none" /\ checking' = token
    /\ loggingOut' = 0
    /\ guestStarting' = IF token = "none" THEN 1 ELSE 0
    /\ socket' = [s \in Sockets |-> Free] /\ wsRef' = NoSocket
    /\ timer' = FALSE /\ leavingRoom' = FALSE
    /\ tickets' = {} /\ roomState' = NoRoom /\ chat' = {} /\ moved' = FALSE
    /\ UNCHANGED activeRoom

\* verifyToken: the token is taken if the server knows it or cannot be
\* reached, else a guest session is started.
verifyToken ==
    /\ checking \in Accounts /\ guestStarting = 0
    /\ \/ /\ checking' = "no" /\ token' = checking
          /\ RunEffect(activeRoom, checking)
          /\ UNCHANGED guestStarting
       \/ /\ guestStarting' = 1
          /\ UNCHANGED <<token, checking, link, leavingRoom, screen>>
    /\ UNCHANGED <<loggingOut, activeRoom, tickets, moved>>

\* Without a session there is only the form that asks for one; a guest finds
\* the form in a dialog, in the lobby and in rooms.
SignInPage == token = "none" /\ checking = "no"
SignInDialog == token = "guest" /\ checking = "no"

\* startGuestSession, called again by the button of the form ...
startGuestSession ==
    /\ SignInPage
    /\ guestStarting < MaxPending
    /\ guestStarting' = guestStarting + 1
    /\ UNCHANGED <<token, checking, loggingOut, activeRoom, link, leavingRoom, tickets, screen, moved>>

\* ... and its answer: whoever the page is by then, it becomes a guest.
GuestStarts ==
    /\ guestStarting > 0
    /\ guestStarting' = guestStarting - 1
    /\ checking' = "no"
    /\ \/ token' = "guest" /\ RunEffect(activeRoom, "guest")
       \/ UNCHANGED <<token, link, leavingRoom, screen>>
    /\ UNCHANGED <<loggingOut, activeRoom, tickets, moved>>

\* handleAuthSubmit succeeds.
handleAuthSubmit ==
    /\ SignInPage \/ SignInDialog
    /\ token' = "user"
    /\ RunEffect(activeRoom, "user")
    /\ UNCHANGED <<checking, loggingOut, guestStarting, activeRoom, tickets, moved>>

\* The user's badge offers to log out, in the lobby only.
LogoutOffered == InLobby /\ token = "user"

\* handleLogout up to its await.
handleLogout ==
    /\ LogoutOffered
    /\ loggingOut < MaxPending
    /\ loggingOut' = loggingOut + 1
    /\ leavingRoom' = TRUE
    /\ UNCHANGED <<token, checking, guestStarting, activeRoom, link, tickets, screen, moved>>

\* ... and after it: the session goes, and the room entered meanwhile.
LogsOut ==
    /\ loggingOut > 0 /\ guestStarting < MaxPending
    /\ loggingOut' = loggingOut - 1
    /\ guestStarting' = guestStarting + 1
    /\ token' = "none" /\ activeRoom' = NoRoom
    /\ RunEffect(NoRoom, "none")
    /\ moved' = FALSE
    /\ UNCHANGED <<checking, tickets>>

Session ==
    \/ Reload \/ verifyToken \/ startGuestSession \/ GuestStarts
    \/ handleAuthSubmit \/ handleLogout \/ LogsOut
Moves ==
    \/ handleLeaveRoom \/ handleSetLang
    \/ \E r \in Rooms : Enter(r) \/ requestRoomAccess(r) \/ TicketArrives(r) \/ TicketRefused(r)
Network ==
    \/ TimerFires
    \/ \E s \in Sockets : Opens(s) \/ RoomStateArrives(s) \/ ChatArrives(s)
                          \/ Breaks(s) \/ CloseEvent(s)

Next == Session \/ Moves \/ Network
Spec == Init /\ [][Next]_vars

\* Timers fire, sockets that ended say so, the check of the session ends, and
\* a server that is dialed again and again is reached at last.
Fairness ==
    /\ WF_vars(TimerFires) /\ WF_vars(verifyToken) /\ WF_vars(GuestStarts)
    /\ \A s \in Sockets : /\ WF_vars(CloseEvent(s))
                          /\ SF_vars(Opens(s)) /\ SF_vars(RoomStateArrives(s))
FairSpec == Spec /\ Fairness

-----------------------------------------------------------------------------
Socket == {Free} \cup [state : {"connecting", "open", "closing", "broken"},
                       room : Rooms, token : Accounts]
TypeOK ==
    /\ token \in Accounts \cup {"none"}
    /\ checking \in Accounts \cup {"none", "no"}
    /\ loggingOut \in Nat /\ guestStarting \in Nat
    /\ activeRoom \in Rooms \cup {NoRoom}
    /\ socket \in [Sockets -> Socket]
    /\ wsRef \in Sockets \cup {NoSocket}
    /\ timer \in BOOLEAN /\ leavingRoom \in BOOLEAN
    /\ tickets \subseteq Rooms
    /\ roomState \in Rooms \cup {NoRoom} /\ chat \subseteq Rooms
    /\ moved \in BOOLEAN

\* However room, session and language change, and connections break and are
\* redialed: a socket that is connecting or open is the one wsRef holds, and
\* it belongs to the room and the session the page has now.
LiveSocketIsCurrent ==
    \A s \in Sockets : Live(s) =>
        /\ s = wsRef
        /\ InRoom
        /\ socket[s].room = activeRoom /\ socket[s].token = token

\* State and chat on screen are of the room the page is in, unless a late
\* ticket took the page straight from one room to another.
ShownRoomIsActive ==
    moved \/ (roomState \in {NoRoom, activeRoom} /\ chat \subseteq {activeRoom})

\* A page in a room is never without a connection, a redial, or a close event
\* that leads to one, and never taken for a page that is leaving: nobody has
\* to reload it.
RoomIsBeingDialed ==
    InRoom => /\ timer \/ wsRef # NoSocket
              /\ ~leavingRoom

\* A page that stays in a room gets to see it, after a reload too: broken
\* connections, changes of language or session and stale close events do not
\* stop the redialing.
RoomAppears ==
    \A r \in Rooms :
        [](activeRoom = r => <>(\/ roomState = r \/ activeRoom # r
                                \/ token = "none" /\ checking = "no"))

=============================================================================
