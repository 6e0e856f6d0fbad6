----------------------------- MODULE Page_proofs ----------------------------
(* TLAPS proofs about a page: RoomConnection, for every set of rooms and   *)
(* sockets, then SocialHub, for every set of members and any number of     *)
(* messages; with any number of calls under way.                           *)
EXTENDS RoomConnection, SocialHub, FiniteSetTheorems, FunctionTheorems, SequenceTheorems,
        WellFoundedInduction, TLAPS

(***************************************************************************)
(* Types.                                                                  *)
(***************************************************************************)
Linked == [state : {"connecting", "open", "closing", "broken"},
           room : Rooms, token : Accounts]
SocketsTyped == socket \in [Sockets -> Socket]

LEMMA LinkedUnlessFree ==
    ASSUME SocketsTyped, NEW s \in Sockets, socket[s].state # "free"
    PROVE  socket[s] \in Linked
<1>1. socket[s] \in {Free} \cup Linked
  BY DEF SocketsTyped, Socket, Linked
<1>2. socket[s] # Free
  BY DEF Free
<1>3. QED
  BY <1>1, <1>2

(* A socket keeps its room and token when its state changes.               *)
LEMMA StateChanged ==
    ASSUME SocketsTyped, NEW s \in Sockets, socket[s].state # "free",
           NEW state \in {"connecting", "open", "closing", "broken"}
    PROVE  /\ InState(s, state) \in [Sockets -> Socket]
           /\ InState(s, state)[s].state = state
           /\ InState(s, state)[s].room = socket[s].room
           /\ InState(s, state)[s].token = socket[s].token
           /\ \A q \in Sockets \ {s} : InState(s, state)[q] = socket[q]
<1>1. socket[s] \in Linked
  BY LinkedUnlessFree
<1>2. [socket[s] EXCEPT !.state = state] \in Linked
  BY <1>1 DEF Linked
<1>3. Linked \subseteq Socket
  BY DEF Linked, Socket
<1>4. InState(s, state) = [socket EXCEPT ![s] = [socket[s] EXCEPT !.state = state]]
  BY DEF SocketsTyped, InState
<1>5. QED
  BY <1>1, <1>2, <1>3, <1>4 DEF SocketsTyped, Linked

(***************************************************************************)
(* The invariant.  A timer is armed only while the page is in a room and   *)
(* has no socket, so a redial adds no second live one.                     *)
(***************************************************************************)
LinkTyped ==
    /\ SocketsTyped
    /\ wsRef \in Sockets \cup {NoSocket}
    /\ timer \in BOOLEAN /\ leavingRoom \in BOOLEAN
SessionTyped ==
    /\ token \in Accounts \cup {"none"}
    /\ checking \in Accounts \cup {"none", "no"}
    /\ loggingOut \in Nat /\ guestStarting \in Nat
ScreenTyped ==
    /\ activeRoom \in Rooms \cup {NoRoom}
    /\ tickets \subseteq Rooms
    /\ roomState \in Rooms \cup {NoRoom} /\ chat \subseteq Rooms
    /\ moved \in BOOLEAN

LEMMA TypeParts == TypeOK <=> LinkTyped /\ SessionTyped /\ ScreenTyped
BY DEF TypeOK, LinkTyped, SessionTyped, ScreenTyped, SocketsTyped

TimerIsOwed == timer => InRoom /\ wsRef = NoSocket
LinkInv == LiveSocketIsCurrent /\ TimerIsOwed /\ RoomIsBeingDialed
ConnectionInv == TypeOK /\ LinkInv /\ ShownRoomIsActive

(***************************************************************************)
(* The connection effect.                                                  *)
(***************************************************************************)
NoneLive(sockets) == \A s \in Sockets : sockets[s].state \notin {"connecting", "open"}

LEMMA ClosedTyped ==
    ASSUME LinkTyped, LiveSocketIsCurrent
    PROVE  Closed(wsRef) \in [Sockets -> Socket] /\ NoneLive(Closed(wsRef))
<1>1. CASE wsRef # NoSocket /\ Live(wsRef)
  <2>1. PICK s \in Sockets : s = wsRef
    BY <1>1 DEF LinkTyped
  <2>2. socket[s].state # "free" /\ SocketsTyped
    BY <1>1, <2>1 DEF Live, LinkTyped
  <2>3. Closed(s) = InState(s, "closing")
    BY <1>1, <2>1 DEF Closed
  <2>4. /\ Closed(s) \in [Sockets -> Socket]
        /\ Closed(s)[s].state = "closing"
        /\ \A q \in Sockets \ {s} : Closed(s)[q] = socket[q]
    BY <2>2, <2>3, StateChanged
  <2>5. \A q \in Sockets \ {s} : ~Live(q)
    BY <2>1 DEF LiveSocketIsCurrent
  <2>6. QED
    BY <2>1, <2>4, <2>5 DEF NoneLive, Live
<1>2. CASE ~(wsRef # NoSocket /\ Live(wsRef))
  BY <1>2, SocketsAssumption DEF Closed, LinkTyped, SocketsTyped, LiveSocketIsCurrent, NoneLive, Live
<1>3. QED
  BY <1>1, <1>2

LEMMA ConnectTyped ==
    ASSUME NEW sockets \in [Sockets -> Socket], NoneLive(sockets),
           NEW r \in Rooms, NEW tk \in Accounts, connect(sockets, r, tk)
    PROVE  /\ SocketsTyped'
           /\ wsRef' \in Sockets /\ wsRef' # NoSocket
           /\ \A s \in Sockets : Live(s)' =>
                 s = wsRef' /\ socket'[s].room = r /\ socket'[s].token = tk
<1>1. PICK s \in Sockets : socket' = [sockets EXCEPT ![s] = Dialed(r, tk)] /\ wsRef' = s
  BY DEF connect
<1>2. Dialed(r, tk) \in Socket
  BY DEF Dialed, Socket
<1>3. Dialed(r, tk).room = r /\ Dialed(r, tk).token = tk
  BY DEF Dialed
<1>4. QED
  BY <1>1, <1>2, <1>3, SocketsAssumption DEF SocketsTyped, NoneLive, Live

(* What a run of the effect leaves, for the room and token it runs for.    *)
LEMMA EffectRuns ==
    ASSUME LinkTyped, LiveSocketIsCurrent,
           NEW r \in Rooms \cup {NoRoom}, NEW tk \in Accounts \cup {"none"}, RunEffect(r, tk)
    PROVE  /\ LinkTyped'
           /\ ~timer'
           /\ \A s \in Sockets : Live(s)' =>
                 /\ s = wsRef' /\ r # NoRoom /\ tk # "none"
                 /\ socket'[s].room = r /\ socket'[s].token = tk
           /\ (r # NoRoom /\ tk # "none") => /\ wsRef' # NoSocket /\ ~leavingRoom'
                                             /\ UNCHANGED screen
           /\ ~(r # NoRoom /\ tk # "none") => roomState' = NoRoom /\ chat' = {}
<1>1. Closed(wsRef) \in [Sockets -> Socket] /\ NoneLive(Closed(wsRef))
  BY ClosedTyped
<1>2. timer' = FALSE
  BY DEF RunEffect
<1>3. CASE r # NoRoom /\ tk # "none"
  <2>1. connect(Closed(wsRef), r, tk) /\ leavingRoom' = FALSE /\ UNCHANGED screen
    BY <1>3 DEF RunEffect
  <2>2. r \in Rooms /\ tk \in Accounts
    BY <1>3
  <2>3. /\ SocketsTyped'
        /\ wsRef' \in Sockets /\ wsRef' # NoSocket
        /\ \A s \in Sockets : Live(s)' =>
              s = wsRef' /\ socket'[s].room = r /\ socket'[s].token = tk
    BY <1>1, <2>1, <2>2, ConnectTyped
  <2>4. QED
    BY <1>2, <1>3, <2>1, <2>3 DEF LinkTyped
<1>4. CASE ~(r # NoRoom /\ tk # "none")
  <2>1. /\ socket' = Closed(wsRef) /\ wsRef' = NoSocket
        /\ roomState' = NoRoom /\ chat' = {}
        /\ UNCHANGED leavingRoom
    BY <1>4 DEF RunEffect
  <2>2. QED
    BY <1>1, <1>2, <1>4, <2>1 DEF LinkTyped, SocketsTyped, NoneLive, Live
<1>5. QED
  BY <1>3, <1>4

LEMMA EffectLinks ==
    ASSUME LinkTyped, LiveSocketIsCurrent,
           NEW r \in Rooms \cup {NoRoom}, NEW tk \in Accounts \cup {"none"}, RunEffect(r, tk),
           activeRoom' = r, token' = tk
    PROVE  LinkTyped' /\ LinkInv'
BY EffectRuns DEF LinkInv, LiveSocketIsCurrent, TimerIsOwed, RoomIsBeingDialed, InRoom

(* Every step that runs the effect keeps the invariant: the screen stays   *)
(* only where the page stays in its room or comes from the lobby.          *)
LEMMA EffectKeeps ==
    ASSUME ConnectionInv,
           NEW r \in Rooms \cup {NoRoom}, NEW tk \in Accounts \cup {"none"}, RunEffect(r, tk),
           activeRoom' = r, token' = tk, SessionTyped', tickets' \subseteq Rooms,
           moved' \in BOOLEAN,
           moved' \/ r = NoRoom \/ tk = "none" \/ (~moved /\ activeRoom \in {r, NoRoom})
    PROVE  ConnectionInv'
<1>1. LinkTyped /\ LiveSocketIsCurrent /\ ScreenTyped
  BY TypeParts DEF ConnectionInv, LinkInv
<1>2. LinkTyped' /\ LinkInv'
  BY <1>1, EffectLinks
<1>3. \/ UNCHANGED screen
      \/ roomState' = NoRoom /\ chat' = {}
  BY <1>1, EffectRuns
<1>4. ScreenTyped'
  BY <1>1, <1>3 DEF ScreenTyped, screen
<1>5. TypeOK'
  BY <1>2, <1>4, TypeParts DEF TypeOK, LinkTyped, SessionTyped, ScreenTyped, SocketsTyped
<1>6. ShownRoomIsActive'
  <2>1. CASE moved' \/ (roomState' = NoRoom /\ chat' = {})
    BY <2>1 DEF ShownRoomIsActive
  <2>2. CASE /\ ~moved'
             /\ ~(roomState' = NoRoom /\ chat' = {})
    <3>1. r # NoRoom /\ tk # "none"
      BY <1>1, <2>2, EffectRuns
    <3>2. ~moved /\ activeRoom \in {r, NoRoom} /\ UNCHANGED screen
      BY <1>3, <2>2, <3>1
    <3>3. roomState \in {NoRoom, activeRoom} /\ chat \subseteq {activeRoom} /\ chat \subseteq Rooms
      BY <1>1, <3>2 DEF ConnectionInv, ShownRoomIsActive, ScreenTyped
    <3>4. roomState \in {NoRoom, r} /\ chat \subseteq {r}
      BY <3>2, <3>3, RoomsAssumption
    <3>5. QED
      BY <3>2, <3>4 DEF ShownRoomIsActive, screen
  <2>3. QED
    BY <2>1, <2>2
<1>7. QED
  BY <1>2, <1>5, <1>6 DEF ConnectionInv

LEMMA EffectSteps ==
    ASSUME ConnectionInv,
           \/ \E r \in Rooms : Enter(r) \/ TicketArrives(r)
           \/ handleSetLang \/ handleAuthSubmit \/ LogsOut
    PROVE  ConnectionInv'
<1>1. SessionTyped /\ ScreenTyped
  BY TypeParts DEF ConnectionInv
<1>2. CASE \E r \in Rooms : Enter(r)
  <2>1. PICK r \in Rooms : Enter(r)
    BY <1>2
  <2>2. /\ activeRoom = NoRoom /\ activeRoom' = r /\ RunEffect(r, token)
        /\ UNCHANGED <<session, tickets, moved>>
    BY <2>1 DEF Enter, InLobby
  <2>3. token' = token /\ SessionTyped' /\ tickets' \subseteq Rooms /\ moved' \in BOOLEAN
        /\ token \in Accounts \cup {"none"}
    BY <1>1, <2>2 DEF session, SessionTyped, ScreenTyped
  <2>4. moved' \/ (~moved /\ activeRoom \in {r, NoRoom})
    BY <1>1, <2>2 DEF ScreenTyped
  <2>5. QED
    BY <2>2, <2>3, <2>4, EffectKeeps
<1>3. CASE \E r \in Rooms : TicketArrives(r)
  <2>1. PICK r \in Rooms : TicketArrives(r)
    BY <1>3
  <2>2. /\ tickets' = tickets \ {r} /\ activeRoom' = r /\ RunEffect(r, token)
        /\ moved' = (moved \/ activeRoom \in Rooms \ {r})
        /\ UNCHANGED session
    BY <2>1 DEF TicketArrives
  <2>3. token' = token /\ SessionTyped' /\ tickets' \subseteq Rooms
        /\ token \in Accounts \cup {"none"}
    BY <1>1, <2>2 DEF session, SessionTyped, ScreenTyped
  <2>4. moved' \/ (~moved /\ activeRoom \in {r, NoRoom})
    BY <1>1, <2>2, Zenon DEF ScreenTyped
  <2>5. moved' \in BOOLEAN
    BY <2>2, Zenon
  <2>6. QED
    BY <2>2, <2>3, <2>4, <2>5, EffectKeeps
<1>4. CASE handleSetLang
  <2>1. RunEffect(activeRoom, token) /\ UNCHANGED <<session, activeRoom, tickets, moved>>
    BY <1>4 DEF handleSetLang
  <2>2. activeRoom' = activeRoom /\ token' = token /\ SessionTyped'
        /\ tickets' \subseteq Rooms /\ moved' \in BOOLEAN
    BY <1>1, <2>1 DEF session, SessionTyped, ScreenTyped
  <2>3. token \in Accounts \cup {"none"} /\ activeRoom \in Rooms \cup {NoRoom}
    BY <1>1 DEF SessionTyped, ScreenTyped
  <2>4. moved' \/ (~moved /\ activeRoom \in {activeRoom, NoRoom})
    BY <1>1, <2>1 DEF ScreenTyped
  <2>5. QED
    BY <2>1, <2>2, <2>3, <2>4, EffectKeeps
<1>5. CASE handleAuthSubmit
  <2>1. token' = "user" /\ RunEffect(activeRoom, "user")
        /\ UNCHANGED <<checking, loggingOut, guestStarting, activeRoom, tickets, moved>>
    BY <1>5 DEF handleAuthSubmit
  <2>2. "user" \in Accounts \cup {"none"} /\ activeRoom \in Rooms \cup {NoRoom}
    BY <1>1 DEF Accounts, ScreenTyped
  <2>3. activeRoom' = activeRoom /\ SessionTyped' /\ tickets' \subseteq Rooms /\ moved' \in BOOLEAN
    BY <1>1, <2>1, <2>2 DEF SessionTyped, ScreenTyped
  <2>4. moved' \/ (~moved /\ activeRoom \in {activeRoom, NoRoom})
    BY <1>1, <2>1 DEF ScreenTyped
  <2>5. QED
    BY <2>1, <2>2, <2>3, <2>4, EffectKeeps
<1>6. CASE LogsOut
  <2>1. /\ loggingOut > 0
        /\ loggingOut' = loggingOut - 1 /\ guestStarting' = guestStarting + 1
        /\ token' = "none" /\ activeRoom' = NoRoom /\ RunEffect(NoRoom, "none")
        /\ moved' = FALSE /\ UNCHANGED <<checking, tickets>>
    BY <1>6 DEF LogsOut
  <2>2. loggingOut' \in Nat /\ guestStarting' \in Nat
    BY <1>1, <2>1 DEF SessionTyped
  <2>3. SessionTyped' /\ tickets' \subseteq Rooms /\ moved' \in BOOLEAN
    BY <1>1, <2>1, <2>2 DEF SessionTyped, ScreenTyped
  <2>4. QED
    BY <2>1, <2>3, EffectKeeps
<1>7. QED
  BY <1>2, <1>3, <1>4, <1>5, <1>6

(* An answer that is a new session runs the effect, any other changes      *)
(* neither the connection nor the screen.                                  *)
LEMMA SessionKeeps ==
    ASSUME ConnectionInv, UNCHANGED <<token, activeRoom, link, leavingRoom, tickets, screen, moved>>,
           checking' \in Accounts \cup {"none", "no"}, loggingOut' \in Nat, guestStarting' \in Nat
    PROVE  ConnectionInv'
<1>1. TypeOK'
  BY DEF ConnectionInv, TypeOK, link, screen
<1>2. LinkInv' /\ ShownRoomIsActive'
  BY DEF ConnectionInv, LinkInv, ShownRoomIsActive, LiveSocketIsCurrent, TimerIsOwed,
         RoomIsBeingDialed, InRoom, Live, link, screen
<1>3. QED
  BY <1>1, <1>2 DEF ConnectionInv

LEMMA SessionSteps ==
    ASSUME ConnectionInv,
           verifyToken \/ startGuestSession \/ GuestStarts
    PROVE  ConnectionInv'
<1>1. SessionTyped /\ ScreenTyped
  BY TypeParts DEF ConnectionInv
<1>2. activeRoom \in {activeRoom, NoRoom} /\ activeRoom \in Rooms \cup {NoRoom}
  BY <1>1 DEF ScreenTyped
<1>3. moved \in BOOLEAN
  BY <1>1 DEF ScreenTyped
<1>4. CASE verifyToken
  <2>1. /\ checking \in Accounts
        /\ UNCHANGED <<loggingOut, activeRoom, tickets, moved>>
        /\ \/ checking' = "no" /\ token' = checking /\ RunEffect(activeRoom, checking)
              /\ UNCHANGED guestStarting
           \/ guestStarting' = 1 /\ UNCHANGED <<token, checking, link, leavingRoom, screen>>
    BY <1>4 DEF verifyToken
  <2>2. CASE checking' = "no" /\ token' = checking /\ RunEffect(activeRoom, checking)
             /\ UNCHANGED guestStarting
    <3>1. SessionTyped' /\ tickets' \subseteq Rooms /\ moved' \in BOOLEAN /\ activeRoom' = activeRoom
      BY <1>1, <2>1, <2>2 DEF SessionTyped, ScreenTyped
    <3>2. moved' \/ (~moved /\ activeRoom \in {activeRoom, NoRoom})
      BY <1>2, <1>3, <2>1
    <3>3. QED
      BY <1>2, <2>1, <2>2, <3>1, <3>2, EffectKeeps
  <2>3. CASE guestStarting' = 1 /\ UNCHANGED <<token, checking, link, leavingRoom, screen>>
    <3>1. loggingOut' \in Nat /\ guestStarting' \in Nat /\ checking' \in Accounts \cup {"none", "no"}
      BY <1>1, <2>1, <2>3 DEF SessionTyped
    <3>2. QED
      BY <2>1, <2>3, <3>1, SessionKeeps
  <2>4. QED
    BY <2>1, <2>2, <2>3
<1>5. CASE startGuestSession
  <2>1. /\ guestStarting' = guestStarting + 1
        /\ UNCHANGED <<token, checking, loggingOut, activeRoom, link, leavingRoom, tickets,
                       screen, moved>>
    BY <1>5 DEF startGuestSession
  <2>2. loggingOut' \in Nat /\ guestStarting' \in Nat /\ checking' \in Accounts \cup {"none", "no"}
    BY <1>1, <2>1 DEF SessionTyped
  <2>3. QED
    BY <2>1, <2>2, SessionKeeps
<1>6. CASE GuestStarts
  <2>1. /\ guestStarting > 0 /\ guestStarting' = guestStarting - 1 /\ checking' = "no"
        /\ UNCHANGED <<loggingOut, activeRoom, tickets, moved>>
        /\ \/ token' = "guest" /\ RunEffect(activeRoom, "guest")
           \/ UNCHANGED <<token, link, leavingRoom, screen>>
    BY <1>6 DEF GuestStarts
  <2>2. loggingOut' \in Nat /\ guestStarting' \in Nat
    BY <1>1, <2>1 DEF SessionTyped
  <2>3. CASE token' = "guest" /\ RunEffect(activeRoom, "guest")
    <3>1. SessionTyped' /\ tickets' \subseteq Rooms /\ moved' \in BOOLEAN /\ activeRoom' = activeRoom
      BY <1>1, <2>1, <2>2, <2>3 DEF SessionTyped, ScreenTyped, Accounts
    <3>2. moved' \/ (~moved /\ activeRoom \in {activeRoom, NoRoom})
      BY <1>2, <1>3, <2>1
    <3>3. "guest" \in Accounts \cup {"none"}
      BY DEF Accounts
    <3>4. QED
      BY <1>2, <2>3, <3>1, <3>2, <3>3, EffectKeeps
  <2>4. CASE UNCHANGED <<token, link, leavingRoom, screen>>
    <3>1. checking' \in Accounts \cup {"none", "no"}
      BY <2>1
    <3>2. QED
      BY <2>1, <2>2, <2>4, <3>1, SessionKeeps
  <2>5. QED
    BY <2>1, <2>3, <2>4
<1>7. QED
  BY <1>4, <1>5, <1>6

(***************************************************************************)
(* Steps that do not run the effect.                                       *)
(***************************************************************************)
LEMMA LeavingSteps ==
    ASSUME ConnectionInv, handleLeaveRoom \/ Reload \/ handleLogout
    PROVE  ConnectionInv'
<1>1. LinkTyped /\ SessionTyped /\ ScreenTyped /\ LiveSocketIsCurrent /\ LinkInv
  BY TypeParts DEF ConnectionInv, LinkInv
<1>2. CASE handleLeaveRoom
  <2>1. /\ activeRoom' = NoRoom /\ socket' = Closed(wsRef) /\ wsRef' = NoSocket
        /\ timer' = FALSE /\ leavingRoom' = TRUE
        /\ roomState' = NoRoom /\ chat' = {} /\ moved' = FALSE
        /\ UNCHANGED <<session, tickets>>
    BY <1>2 DEF handleLeaveRoom
  <2>2. socket' \in [Sockets -> Socket] /\ (\A s \in Sockets : ~Live(s)')
    BY <1>1, <2>1, ClosedTyped DEF NoneLive, Live
  <2>3. TypeOK'
    BY <1>1, <2>1, <2>2 DEF TypeOK, SessionTyped, ScreenTyped, session
  <2>4. LinkInv' /\ ShownRoomIsActive'
    BY <2>1, <2>2 DEF LinkInv, ShownRoomIsActive, LiveSocketIsCurrent, TimerIsOwed,
                      RoomIsBeingDialed, InRoom
  <2>5. QED
    BY <2>3, <2>4 DEF ConnectionInv
<1>3. CASE Reload
  <2>1. /\ checking' = token /\ token' = "none" /\ loggingOut' = 0
        /\ guestStarting' = IF token = "none" THEN 1 ELSE 0
        /\ socket' = [s \in Sockets |-> Free] /\ wsRef' = NoSocket
        /\ timer' = FALSE /\ leavingRoom' = FALSE
        /\ tickets' = {} /\ roomState' = NoRoom /\ chat' = {} /\ moved' = FALSE
        /\ UNCHANGED activeRoom
    BY <1>3 DEF Reload
  <2>2. socket' \in [Sockets -> Socket] /\ (\A s \in Sockets : ~Live(s)')
    BY <2>1 DEF Live, Free, Socket
  <2>3. loggingOut' \in Nat /\ guestStarting' \in Nat
    BY <2>1
  <2>4. TypeOK'
    BY <1>1, <2>1, <2>2, <2>3 DEF TypeOK, SessionTyped, ScreenTyped
  <2>5. LinkInv' /\ ShownRoomIsActive'
    BY <2>1, <2>2 DEF LinkInv, ShownRoomIsActive, LiveSocketIsCurrent, TimerIsOwed,
                      RoomIsBeingDialed, InRoom
  <2>6. QED
    BY <2>4, <2>5 DEF ConnectionInv
<1>4. CASE handleLogout
  <2>1. /\ activeRoom = NoRoom
        /\ loggingOut' = loggingOut + 1 /\ leavingRoom' = TRUE
        /\ UNCHANGED <<token, checking, guestStarting, activeRoom, link, tickets, screen, moved>>
    BY <1>4 DEF handleLogout, LogoutOffered, InLobby
  <2>2. loggingOut' \in Nat
    BY <1>1, <2>1 DEF SessionTyped
  <2>3. TypeOK'
    BY <1>1, <2>1, <2>2 DEF TypeOK, LinkTyped, SocketsTyped, SessionTyped, ScreenTyped, link, screen
  <2>4. LinkInv' /\ ShownRoomIsActive'
    BY <1>1, <2>1 DEF ConnectionInv, LinkInv, ShownRoomIsActive, LiveSocketIsCurrent, TimerIsOwed,
                      RoomIsBeingDialed, InRoom, Live, link, screen
  <2>5. QED
    BY <2>3, <2>4 DEF ConnectionInv
<1>5. QED
  BY <1>2, <1>3, <1>4

LEMMA TimerStep ==
    ASSUME ConnectionInv, TimerFires
    PROVE  ConnectionInv'
<1>1. LinkTyped /\ SessionTyped /\ ScreenTyped /\ LiveSocketIsCurrent /\ LinkInv
  BY TypeParts DEF ConnectionInv, LinkInv
<1>2. /\ timer /\ timer' = FALSE /\ connect(socket, activeRoom, token)
      /\ UNCHANGED <<session, activeRoom, leavingRoom, tickets, screen, moved>>
  BY DEF TimerFires
<1>3. InRoom /\ wsRef = NoSocket
  BY <1>1, <1>2 DEF LinkInv, TimerIsOwed
<1>4. activeRoom \in Rooms /\ token \in Accounts
  BY <1>1, <1>3 DEF InRoom, ScreenTyped, SessionTyped
<1>5. NoneLive(socket) /\ socket \in [Sockets -> Socket]
  BY <1>1, <1>3, SocketsAssumption DEF NoneLive, LiveSocketIsCurrent, Live, LinkTyped, SocketsTyped
<1>6. /\ SocketsTyped'
      /\ wsRef' \in Sockets /\ wsRef' # NoSocket
      /\ \A s \in Sockets : Live(s)' =>
            s = wsRef' /\ socket'[s].room = activeRoom /\ socket'[s].token = token
  BY <1>2, <1>4, <1>5, ConnectTyped
<1>7. TypeOK'
  BY <1>1, <1>2, <1>6 DEF TypeOK, LinkTyped, SocketsTyped, SessionTyped, ScreenTyped, session, screen
<1>8. LinkInv' /\ ShownRoomIsActive'
  BY <1>1, <1>2, <1>3, <1>6 DEF ConnectionInv, LinkInv, ShownRoomIsActive, LiveSocketIsCurrent,
       TimerIsOwed, RoomIsBeingDialed, InRoom, session, screen
<1>9. QED
  BY <1>7, <1>8 DEF ConnectionInv

(* A socket opens or breaks.                                               *)
LEMMA SocketSteps ==
    ASSUME ConnectionInv, NEW s \in Sockets, Opens(s) \/ Breaks(s)
    PROVE  ConnectionInv'
<1>1. LinkTyped /\ SessionTyped /\ ScreenTyped /\ LiveSocketIsCurrent /\ LinkInv /\ SocketsTyped
  BY TypeParts DEF ConnectionInv, LinkInv, LinkTyped
<1>2. PICK state \in {"open", "broken"} :
         /\ Live(s) /\ socket' = InState(s, state)
         /\ UNCHANGED <<session, activeRoom, wsRef, timer, leavingRoom, tickets, screen, moved>>
  BY DEF Opens, Breaks, Live
<1>3. socket[s].state # "free" /\ state \in {"connecting", "open", "closing", "broken"}
  BY <1>2 DEF Live
<1>4. /\ socket' \in [Sockets -> Socket]
      /\ socket'[s].room = socket[s].room /\ socket'[s].token = socket[s].token
      /\ \A q \in Sockets \ {s} : socket'[q] = socket[q]
  BY <1>1, <1>2, <1>3, StateChanged
<1>5. TypeOK'
  BY <1>1, <1>2, <1>4 DEF TypeOK, LinkTyped, SocketsTyped, SessionTyped, ScreenTyped, session, screen
<1>6. LiveSocketIsCurrent'
  <2>1. token' = token /\ activeRoom' = activeRoom /\ wsRef' = wsRef
    BY <1>2 DEF session
  <2>2. \A q \in Sockets : Live(q)' => Live(q) /\ socket'[q].room = socket[q].room
                                               /\ socket'[q].token = socket[q].token
    BY <1>2, <1>4 DEF Live
  <2>3. QED
    BY <1>1, <2>1, <2>2 DEF LiveSocketIsCurrent, InRoom
<1>7. TimerIsOwed' /\ RoomIsBeingDialed' /\ ShownRoomIsActive'
  BY <1>1, <1>2 DEF ConnectionInv, LinkInv, ShownRoomIsActive, TimerIsOwed, RoomIsBeingDialed,
                    InRoom, session, screen
<1>8. QED
  BY <1>5, <1>6, <1>7 DEF ConnectionInv, LinkInv

(* The close event of the page's socket arms the timer, that of an earlier *)
(* one leaves the connection alone.                                        *)
LEMMA CloseStep ==
    ASSUME ConnectionInv, NEW s \in Sockets, CloseEvent(s)
    PROVE  ConnectionInv'
<1>1. LinkTyped /\ SessionTyped /\ ScreenTyped /\ LiveSocketIsCurrent /\ LinkInv /\ SocketsTyped
  BY TypeParts DEF ConnectionInv, LinkInv, LinkTyped
<1>2. /\ socket' = [socket EXCEPT ![s] = Free]
      /\ wsRef' = IF wsRef = s THEN NoSocket ELSE wsRef
      /\ UNCHANGED <<session, activeRoom, leavingRoom, tickets, screen, moved>>
  BY DEF CloseEvent
<1>3. timer' = (timer \/ (wsRef = s /\ InRoom /\ ~leavingRoom))
  BY DEF CloseEvent, scheduleReconnect
<1>4. socket' \in [Sockets -> Socket] /\ Free.state = "free"
  BY <1>1, <1>2 DEF SocketsTyped, Socket, Free
<1>5. timer' \in BOOLEAN
  BY <1>3
<1>6. wsRef' \in Sockets \cup {NoSocket}
  BY <1>1, <1>2 DEF LinkTyped
<1>7. TypeOK'
  BY <1>1, <1>2, <1>4, <1>5, <1>6
     DEF TypeOK, LinkTyped, SessionTyped, ScreenTyped, session, screen
<1>8. LiveSocketIsCurrent'
  <2>1. token' = token /\ activeRoom' = activeRoom
    BY <1>2 DEF session
  <2>2. \A q \in Sockets : Live(q)' => q # s /\ Live(q) /\ socket'[q] = socket[q]
    BY <1>1, <1>2, <1>4 DEF Live, SocketsTyped
  <2>3. QED
    BY <1>1, <1>2, <2>1, <2>2 DEF LiveSocketIsCurrent, InRoom
<1>9. InRoom' = InRoom /\ leavingRoom' = leavingRoom
  BY <1>2 DEF InRoom, session
<1>10. TimerIsOwed'
  BY <1>1, <1>2, <1>3, <1>9 DEF LinkInv, TimerIsOwed
<1>11. RoomIsBeingDialed'
  <2>1. InRoom => (timer \/ wsRef # NoSocket) /\ ~leavingRoom
    BY <1>1 DEF LinkInv, RoomIsBeingDialed
  <2>2. InRoom => timer' \/ wsRef' # NoSocket
    <3>1. CASE timer
      BY <1>3, <3>1
    <3>2. CASE wsRef = s
      BY <1>3, <2>1, <3>2
    <3>3. CASE ~timer /\ wsRef # s
      BY <1>2, <2>1, <3>3
    <3>4. QED
      BY <3>1, <3>2, <3>3
  <2>3. QED
    BY <1>9, <2>1, <2>2 DEF RoomIsBeingDialed
<1>12. ShownRoomIsActive'
  BY <1>2 DEF ConnectionInv, ShownRoomIsActive, session, screen
<1>13. QED
  BY <1>7, <1>8, <1>10, <1>11, <1>12 DEF ConnectionInv, LinkInv

(* What arrives comes from a live socket, so from the room the page is in. *)
LEMMA MessageSteps ==
    ASSUME ConnectionInv, NEW s \in Sockets, RoomStateArrives(s) \/ ChatArrives(s)
    PROVE  ConnectionInv'
<1>1. LinkTyped /\ SessionTyped /\ ScreenTyped /\ LiveSocketIsCurrent /\ LinkInv
  BY TypeParts DEF ConnectionInv, LinkInv
<1>2. /\ socket[s].state = "open"
      /\ roomState' \in {roomState, socket[s].room}
      /\ chat' \in {chat, chat \cup {socket[s].room}, {socket[s].room}}
      /\ UNCHANGED <<session, activeRoom, link, leavingRoom, tickets, moved>>
  BY DEF RoomStateArrives, ChatArrives
<1>3. InRoom /\ socket[s].room = activeRoom /\ activeRoom \in Rooms
  BY <1>1, <1>2 DEF LiveSocketIsCurrent, Live, InRoom, ScreenTyped
<1>4. TypeOK'
  BY <1>1, <1>2, <1>3 DEF TypeOK, LinkTyped, SocketsTyped, SessionTyped, ScreenTyped, session, link
<1>5. LinkInv'
  BY <1>1, <1>2 DEF LinkInv, LiveSocketIsCurrent, TimerIsOwed, RoomIsBeingDialed, InRoom, Live,
                    session, link
<1>6. ShownRoomIsActive'
  <2>1. activeRoom' = activeRoom /\ moved' = moved
    BY <1>2
  <2>2. roomState' \in {roomState, activeRoom}
        /\ chat' \in {chat, chat \cup {activeRoom}, {activeRoom}}
    BY <1>2, <1>3
  <2>3. QED
    BY <2>1, <2>2 DEF ConnectionInv, ShownRoomIsActive
<1>7. QED
  BY <1>4, <1>5, <1>6 DEF ConnectionInv

LEMMA TicketSteps ==
    ASSUME ConnectionInv, NEW r \in Rooms, requestRoomAccess(r) \/ TicketRefused(r)
    PROVE  ConnectionInv'
<1>1. /\ tickets' \in {tickets \cup {r}, tickets \ {r}}
      /\ UNCHANGED <<session, activeRoom, link, leavingRoom, screen, moved>>
  BY DEF requestRoomAccess, TicketRefused
<1>2. TypeOK'
  BY <1>1 DEF ConnectionInv, TypeOK, session, link, screen
<1>3. LinkInv' /\ ShownRoomIsActive'
  BY <1>1 DEF ConnectionInv, LinkInv, LiveSocketIsCurrent, TimerIsOwed, RoomIsBeingDialed, InRoom,
              Live, ShownRoomIsActive, session, link, screen
<1>4. QED
  BY <1>2, <1>3 DEF ConnectionInv

-----------------------------------------------------------------------------
LEMMA ConnectionInit == Init => ConnectionInv
<1> SUFFICES ASSUME Init PROVE ConnectionInv
  OBVIOUS
<1>1. \A s \in Sockets : socket[s] \in Socket /\ ~Live(s)
  BY DEF Init, Free, Socket, Live
<1>2. guestStarting \in Nat /\ loggingOut \in Nat
  BY DEF Init
<1>3. TypeOK
  BY <1>1, <1>2 DEF Init, TypeOK, Accounts
<1>4. LinkInv /\ ShownRoomIsActive
  BY <1>1 DEF Init, LinkInv, ShownRoomIsActive, LiveSocketIsCurrent, TimerIsOwed,
              RoomIsBeingDialed, InRoom
<1>5. QED
  BY <1>3, <1>4 DEF ConnectionInv

LEMMA ConnectionStep == ConnectionInv /\ [Next]_vars => ConnectionInv'
<1> SUFFICES ASSUME ConnectionInv, [Next]_vars PROVE ConnectionInv'
  OBVIOUS
<1>1. CASE Session
  BY <1>1, SessionSteps, EffectSteps, LeavingSteps DEF Session
<1>2. CASE Moves
  BY <1>2, EffectSteps, LeavingSteps, TicketSteps DEF Moves
<1>3. CASE Network
  BY <1>3, TimerStep, SocketSteps, CloseStep, MessageSteps DEF Network
<1>4. CASE UNCHANGED vars
  BY <1>4 DEF ConnectionInv, TypeOK, LinkInv, ShownRoomIsActive, LiveSocketIsCurrent, TimerIsOwed,
              RoomIsBeingDialed, InRoom, Live, vars, session, link, screen
<1>5. QED
  BY <1>1, <1>2, <1>3, <1>4 DEF Next

LEMMA ConnectionInvariant == Spec => []ConnectionInv
<1>1. QED
  BY ConnectionInit, ConnectionStep, PTL DEF Spec

(* The variables of a page's connection keep their types (App.tsx).        *)
THEOREM ConnectionTypes == Spec => []TypeOK
<1>1. ConnectionInv => TypeOK
  BY DEF ConnectionInv
<1>2. QED
  BY <1>1, ConnectionInvariant, PTL

(* However often the page redials, moves, signs in or out and reloads: a   *)
(* socket that lives is the one in wsRef, and of the page's room and token *)
(* (the effect of App.tsx that opens the websocket).                       *)
THEOREM OneCurrentSocket == Spec => []LiveSocketIsCurrent
<1>1. ConnectionInv => LiveSocketIsCurrent
  BY DEF ConnectionInv, LinkInv
<1>2. QED
  BY <1>1, ConnectionInvariant, PTL

(* A page in a room has a socket, whose close event redials, or an armed   *)
(* timer (scheduleReconnect).                                              *)
THEOREM NeverLeftUndialed == Spec => []RoomIsBeingDialed
<1>1. ConnectionInv => RoomIsBeingDialed
  BY DEF ConnectionInv, LinkInv
<1>2. QED
  BY <1>1, ConnectionInvariant, PTL

(* The state and the chat on screen are of the page's room, but for the    *)
(* late ticket of requestRoomAccess.                                       *)
THEOREM ScreenFollowsRoom == Spec => []ShownRoomIsActive
<1>1. ConnectionInv => ShownRoomIsActive
  BY DEF ConnectionInv
<1>2. QED
  BY <1>1, ConnectionInvariant, PTL


(***************************************************************************)
(* The lists of SocialHub: ids in their order.                             *)
(***************************************************************************)

LEMMA LeastExists ==
    ASSUME NEW S \in SUBSET Nat, S # {}, IsFiniteSet(S)
    PROVE  \E m \in S : \A k \in S : m <= k
<1> DEFINE UpTo(m) == {k \in S : k <= m}
           U == {UpTo(m) : m \in S}
           R == StrictSubsetOrdering(S)
<1>1. IsWellFoundedOn(R, FiniteSubsetsOf(S))
  BY FS_StrictSubsetOrderingWellFounded
<1>2. U \subseteq FiniteSubsetsOf(S) /\ U # {}
  <2>1. \A m \in S : UpTo(m) \in SUBSET S
    OBVIOUS
  <2>2. \A m \in S : IsFiniteSet(UpTo(m))
    BY <2>1, FS_Subset
  <2>3. QED
    BY <2>1, <2>2 DEF FiniteSubsetsOf
<1>3. PICK X \in U : \A Y \in U : ~(<<Y, X>> \in R)
  <2> HIDE DEF U, R
  <2>1. QED
    BY <1>1, <1>2, WFMin
<1>4. PICK m \in S : X = UpTo(m)
  OBVIOUS
<1>5. ASSUME NEW k \in S, k < m PROVE FALSE
  <2>1. k \in Nat /\ m \in Nat /\ \A i \in S : i \in Nat
    OBVIOUS
  <2>2. UpTo(k) \subseteq UpTo(m) /\ m \in UpTo(m) /\ m \notin UpTo(k)
    <3>1. \A i \in S : i <= k => i <= m
      BY <1>5, <2>1
    <3>2. m <= m /\ ~(m <= k)
      BY <1>5, <2>1
    <3>3. QED
      BY <3>1, <3>2
  <2>3. UpTo(k) \in U
    OBVIOUS
  <2>4. <<UpTo(k), UpTo(m)>> \in R
    BY <2>2 DEF StrictSubsetOrdering
  <2>5. QED
    BY <1>3, <1>4, <2>3, <2>4
<1>6. QED
  BY <1>4, <1>5

\* What of S is below n.
Below(S, n) == {o \in S : o < n}

(* A finite set of naturals has an element of every rank: a least set that *)
(* lacked one would lack it without its least element.                     *)
LEMMA RanksExist ==
    ASSUME NEW S \in SUBSET Nat, IsFiniteSet(S), NEW k \in 1 .. Cardinality(S)
    PROVE  \E n \in S : Cardinality(Below(S, n)) = k - 1
<1> DEFINE Lacks(T, j) == \A n \in T : Cardinality(Below(T, n)) # j - 1
           Bad == {T \in FiniteSubsetsOf(S) : \E j \in 1 .. Cardinality(T) : Lacks(T, j)}
           R == StrictSubsetOrdering(S)
<1> SUFFICES ASSUME Lacks(S, k) PROVE FALSE
  OBVIOUS
<1>1. S \in Bad
  BY DEF FiniteSubsetsOf
<1>2. PICK T \in Bad : \A Y \in Bad : ~(<<Y, T>> \in R)
  <2>1. IsWellFoundedOn(R, FiniteSubsetsOf(S))
    BY FS_StrictSubsetOrderingWellFounded
  <2>2. Bad \subseteq FiniteSubsetsOf(S) /\ Bad # {}
    BY <1>1
  <2>3. QED
    <3> HIDE DEF Bad, R
    <3>1. QED
      BY <2>1, <2>2, WFMin
<1>3. T \in SUBSET S /\ T \in SUBSET Nat /\ IsFiniteSet(T)
  BY DEF FiniteSubsetsOf
<1>4. PICK j \in 1 .. Cardinality(T) : Lacks(T, j)
  BY <1>2
<1>5. Cardinality(T) \in Nat /\ j \in Nat /\ j >= 1 /\ j <= Cardinality(T)
  BY <1>3, FS_CardinalityType
<1>6. T # {}
  <2>1. Cardinality(T) # 0
    BY <1>5
  <2>2. QED
    BY <2>1, FS_EmptySet
<1>7. PICK m \in T : \A n \in T : m <= n
  BY <1>3, <1>6, LeastExists
<1> DEFINE U == T \ {m}
<1>8. U \in SUBSET S /\ IsFiniteSet(U) /\ Cardinality(U) = Cardinality(T) - 1
  BY <1>3, FS_RemoveElement
<1>9. <<U, T>> \in R
  <2>1. U \subseteq T /\ U # T
    OBVIOUS
  <2>2. QED
    BY <1>3, <1>8, <2>1 DEF StrictSubsetOrdering
<1>10. U \notin Bad
  BY <1>2, <1>9
<1>11. \A n \in T : n \in Nat
  BY <1>3
<1>12. Cardinality(Below(T, m)) = 0
  <2>1. Below(T, m) = {}
    BY <1>7, <1>11 DEF Below
  <2>2. QED
    BY <2>1, FS_EmptySet
<1>13. j # 1
  BY <1>4, <1>12
<1>14. j - 1 \in 1 .. Cardinality(U)
  BY <1>5, <1>8, <1>13
<1>15. PICK n \in U : Cardinality(Below(U, n)) = (j - 1) - 1
  <2>1. ~Lacks(U, j - 1)
    BY <1>8, <1>10, <1>14 DEF FiniteSubsetsOf
  <2>2. QED
    BY <2>1
<1>16. Below(T, n) = Below(U, n) \cup {m} /\ m \notin Below(U, n)
  <2>1. m < n
    BY <1>7, <1>11, <1>15
  <2>2. QED
    BY <2>1 DEF Below
<1>17. Cardinality(Below(T, n)) = Cardinality(Below(U, n)) + 1
  <2>1. IsFiniteSet(Below(U, n))
    BY <1>8, FS_Subset DEF Below
  <2>2. QED
    BY <1>16, <2>1, FS_AddElement
<1>18. Cardinality(Below(T, n)) = j - 1
  BY <1>5, <1>15, <1>17
<1>19. QED
  BY <1>4, <1>15, <1>18

LEMMA RankedHasItsRank ==
    ASSUME NEW S \in SUBSET Nat, IsFiniteSet(S), NEW k \in 1 .. Cardinality(S)
    PROVE  Ranked(S, k) \in S /\ Cardinality(Below(S, Ranked(S, k))) = k - 1
BY RanksExist DEF Ranked, Below

LEMMA AscendingLists ==
    ASSUME NEW S \in SUBSET Nat, IsFiniteSet(S)
    PROVE  /\ Ascending(S) \in Seq(S) /\ DOMAIN Ascending(S) = 1 .. Cardinality(S)
           /\ \A k \in 1 .. Cardinality(S) : Ascending(S)[k] \in S
<1>1. Cardinality(S) \in Nat
  BY FS_CardinalityType
<1>2. \A k \in 1 .. Cardinality(S) : Ranked(S, k) \in S
  BY RankedHasItsRank
<1>3. Ascending(S) \in [1 .. Cardinality(S) -> S]
  BY <1>2 DEF Ascending
<1>4. QED
  BY <1>1, <1>3, SeqDef

(* Filtering keeps a list one.                                             *)
LEMMA WithoutIsAList ==
    ASSUME NEW S, NEW s \in Seq(S), NEW id
    PROVE  Without(s, id) \in Seq(S)
<1> DEFINE K == {k \in DOMAIN s : s[k] # id}
           kept == Ascending(K)
<1>1. Len(s) \in Nat /\ DOMAIN s = 1 .. Len(s) /\ \A k \in DOMAIN s : s[k] \in S
  BY LenProperties, ElementOfSeq
<1>2. K \in SUBSET Nat /\ K \subseteq DOMAIN s /\ IsFiniteSet(K)
  <2>1. IsFiniteSet(1 .. Len(s))
    BY <1>1, FS_Interval
  <2>2. K \subseteq 1 .. Len(s)
    BY <1>1
  <2>3. QED
    BY <1>1, <2>1, <2>2, FS_Subset
<1>3. /\ DOMAIN kept = 1 .. Cardinality(K)
      /\ \A k \in DOMAIN kept : kept[k] \in K
  <2> HIDE DEF K
  <2>1. QED
    BY <1>2, AscendingLists
<1>4. Cardinality(K) \in Nat
  BY <1>2, FS_CardinalityType
<1>5. Without(s, id) = [k \in DOMAIN kept |-> s[kept[k]]]
  BY DEF Without
<1>6. Without(s, id) \in [1 .. Cardinality(K) -> S]
  <2> HIDE DEF kept, K
  <2>1. \A k \in DOMAIN kept : s[kept[k]] \in S
    BY <1>1, <1>2, <1>3
  <2>2. QED
    BY <1>3, <1>5, <2>1
<1>7. QED
  <2> HIDE DEF K
  <2>1. QED
    BY <1>4, <1>6, SeqDef


(***************************************************************************)
(* The mail of SocialHub, and what the server counts in it.                *)
(***************************************************************************)

MailTyped ==
    /\ IsCount(lastMessage) /\ thread \in [Members -> SUBSET (1 .. lastMessage)]
    /\ \A m, n \in Members : m # n => thread[m] \cap thread[n] = {}
    /\ ownIds \subseteq 1 .. lastMessage /\ unread \subseteq (1 .. lastMessage) \ ownIds

Counts == UNION {[D -> 0 .. MaxId] : D \in SUBSET Members}

LEMMA IdsAreFinite ==
    ASSUME NEW S \in SUBSET Ids
    PROVE  S \in SUBSET Nat /\ IsFiniteSet(S) /\ IsCount(Cardinality(S))
<1>1. MaxId \in Nat /\ 1 \in Int
  BY MemberAssumption
<1>2. IsFiniteSet(Ids) /\ Cardinality(Ids) = MaxId
  <2>1. Cardinality(1 .. MaxId) = IF 1 > MaxId THEN 0 ELSE MaxId - 1 + 1
    BY <1>1, FS_Interval
  <2>2. QED
    BY <1>1, <2>1, FS_Interval DEF Ids
<1>3. IsFiniteSet(S) /\ Cardinality(S) <= MaxId
  BY <1>2, FS_Subset
<1>4. Cardinality(S) \in Nat
  BY <1>3, FS_CardinalityType
<1>5. QED
  BY <1>1, <1>3, <1>4 DEF IsCount, Ids

LEMMA MailHasIds ==
    ASSUME MailTyped
    PROVE  /\ unread \subseteq Ids /\ ownIds \subseteq Ids
           /\ \A m \in Members : thread[m] \subseteq Ids /\ Unread(m) \subseteq Ids
<1>1. 1 .. lastMessage \subseteq Ids
  BY MemberAssumption DEF MailTyped, IsCount, Ids
<1>2. QED
  BY <1>1 DEF MailTyped, Unread

LEMMA PageIsAList ==
    ASSUME MailTyped, NEW m \in Members
    PROVE  IsMessages(Page(m))
<1>1. PICK S : S = Latest(thread[m])
  OBVIOUS
<1>2. S \in SUBSET Ids
  BY <1>1, MailHasIds DEF Latest
<1>3. S \in SUBSET Nat /\ IsFiniteSet(S)
  BY <1>2, IdsAreFinite
<1>4. Ascending(S) \in Seq(Ids)
  BY <1>2, <1>3, AscendingLists, SeqMonotonic
<1>5. QED
  BY <1>1, <1>4 DEF Page, IsMessages

(* The counts of ListConversations add up to no more than there are        *)
(* messages: each pair that Total counts stands for another unread one.    *)
LEMMA TotalIsACount ==
    ASSUME MailTyped
    PROVE  Listed \in Counts /\ IsConversations(Listed) /\ IsCount(Total(Listed))
<1>1. \A m \in Members : /\ Unread(m) \in SUBSET Nat /\ IsFiniteSet(Unread(m))
                         /\ IsCount(Cardinality(Unread(m)))
  BY MailHasIds, IdsAreFinite
<1>2. PICK D : D = {o \in Members : thread[o] # {}}
  OBVIOUS
<1>3. /\ D \in SUBSET Members /\ DOMAIN Listed = D /\ Listed \in [D -> 0 .. MaxId]
      /\ \A m \in D : Listed[m] = Cardinality(Unread(m))
  BY <1>1, <1>2 DEF Listed, IsCount
<1>4. Listed \in Counts /\ IsConversations(Listed)
  BY <1>3 DEF Counts, IsConversations, IsCount
<1>5. PICK P : P = {p \in D \X Ids : p[2] <= Listed[p[1]]}
  OBVIOUS
<1>6. Total(Listed) = Cardinality(P)
  BY <1>3, <1>5 DEF Total
<1>7. \A p \in P : p[1] \in Members /\ p[2] \in 1 .. Cardinality(Unread(p[1]))
                   /\ p = <<p[1], p[2]>>
  <2>1. \A p \in P : p[1] \in D /\ p[2] \in Ids /\ p[2] <= Listed[p[1]] /\ p = <<p[1], p[2]>>
    BY <1>5
  <2>2. \A p \in P : p[2] \in Nat /\ p[2] >= 1
    BY <2>1 DEF Ids
  <2>3. \A p \in P : p[2] <= Cardinality(Unread(p[1])) /\ Cardinality(Unread(p[1])) \in Nat
    BY <1>1, <1>3, <2>1, MemberAssumption DEF IsCount
  <2>4. QED
    BY <1>3, <2>1, <2>2, <2>3
<1>8. PICK f : f = [p \in P |-> Ranked(Unread(p[1]), p[2])]
  OBVIOUS
<1>9. \A p \in P : /\ f[p] = Ranked(Unread(p[1]), p[2]) /\ f[p] \in Unread(p[1])
                   /\ Cardinality(Below(Unread(p[1]), f[p])) = p[2] - 1
  BY <1>1, <1>7, <1>8, RankedHasItsRank
<1>10. f \in [P -> Ids]
  BY <1>7, <1>8, <1>9, MailHasIds
<1>11. ASSUME NEW p \in P, NEW q \in P, f[p] = f[q] PROVE p = q
  <2>1. p[1] = q[1]
    BY <1>7, <1>9, <1>11 DEF MailTyped, Unread
  <2>2. p[2] - 1 = q[2] - 1
    BY <1>9, <1>11, <2>1
  <2>3. p[2] \in Nat /\ q[2] \in Nat
    BY <1>7
  <2>4. QED
    BY <1>7, <2>1, <2>2, <2>3
<1>12. f \in Injection(P, Ids)
  BY <1>10, <1>11, Fun_IsInj
<1>13. IsFiniteSet(Ids) /\ IsCount(Cardinality(Ids))
  BY IdsAreFinite
<1>14. IsFiniteSet(P) /\ Cardinality(P) <= Cardinality(Ids)
  BY <1>12, <1>13, FS_Injection
<1>15. IsCount(Cardinality(P))
  BY <1>13, <1>14, FS_CardinalityType, MemberAssumption DEF IsCount
<1>16. QED
  BY <1>4, <1>6, <1>15


(***************************************************************************)
(* The calls of SocialHub.                                                 *)
(***************************************************************************)

Answers == Seq(Ids) \cup (0 .. MaxId) \cup Counts
DialogCalls ==
    [kind : Kinds, with : Members \cup {NoMember}, arg : 0 .. MaxId,
     at : {"asked", "marked", "answered"}, stale : BOOLEAN, answer : Answers]
SoundCalls == {c \in DialogCalls : CallTyped(c)}

OnScreen ==
    /\ hub \in BOOLEAN /\ activeDialog \in Members \cup {NoMember}
    /\ IsMessages(messages) /\ IsConversations(conversations) /\ IsCount(unreadMessages)
UnderWay == calls \in Seq(SoundCalls) /\ Len(calls) <= MaxCalls
SocialInv == MailTyped /\ OnScreen /\ UnderWay

LEMMA CallsAreSound ==
    ASSUME UnderWay, NEW i \in DOMAIN calls
    PROVE  calls[i] \in DialogCalls /\ CallTyped(calls[i])
<1>1. calls[i] \in SoundCalls
  BY LenProperties, ElementOfSeq DEF UnderWay
<1>2. QED
  BY <1>1 DEF SoundCalls

LEMMA SocialTypesFollow == SocialInv => SocialTypeOK
<1> SUFFICES ASSUME SocialInv PROVE SocialTypeOK
  OBVIOUS
<1>1. \A i \in DOMAIN calls : CallTyped(calls[i])
  BY CallsAreSound DEF SocialInv
<1>2. QED
  BY <1>1 DEF SocialInv, MailTyped, OnScreen, UnderWay, SocialTypeOK

LEMMA AskedIsSound ==
    ASSUME NEW kind \in Kinds, NEW m \in Members \cup {NoMember}, NEW arg \in 0 .. MaxId,
           kind \in {"load", "send", "delete"} => m \in Members,
           kind = "delete" => arg \in Ids
    PROVE  Ask(kind, m, arg) \in SoundCalls
<1>1. 0 \in Answers
  BY MemberAssumption DEF Answers
<1>2. Ask(kind, m, arg) \in DialogCalls
  BY <1>1 DEF Ask, DialogCalls
<1>3. CallTyped(Ask(kind, m, arg))
  BY DEF Ask, CallTyped
<1>4. QED
  BY <1>2, <1>3 DEF SoundCalls

LEMMA CallStarts ==
    ASSUME UnderWay, NEW c \in SoundCalls, Starts(<<c>>)
    PROVE  UnderWay'
<1>1. calls \in Seq(SoundCalls)
  BY DEF UnderWay
<1>2. calls \o <<c>> \in Seq(SoundCalls)
  <2>1. Append(calls, c) \in Seq(SoundCalls)
    BY <1>1, AppendProperties
  <2>2. Append(calls, c) = calls \o <<c>>
    BY <1>1, AppendIsConcat
  <2>3. QED
    BY <2>1, <2>2
<1>3. QED
  BY <1>2 DEF Starts, UnderWay

LEMMA CallEnds ==
    ASSUME UnderWay, NEW i \in DOMAIN calls, Ends(i)
    PROVE  UnderWay'
<1> DEFINE before == SubSeq(calls, 1, i - 1)
           after == SubSeq(calls, i + 1, Len(calls))
<1>1. /\ Len(calls) \in Nat /\ DOMAIN calls = 1 .. Len(calls) /\ Len(calls) <= MaxCalls
      /\ \A j \in 1 .. Len(calls) : calls[j] \in SoundCalls
  BY LenProperties, ElementOfSeq DEF UnderWay
<1>2. before \in Seq(SoundCalls) /\ Len(before) = i - 1
  BY <1>1, SubSeqProperties
<1>3. after \in Seq(SoundCalls) /\ Len(after) = Len(calls) - i
  BY <1>1, SubSeqProperties
<1>4. calls' = before \o after
  BY DEF Ends, RemoveAt
<1> HIDE DEF before, after
<1>5. calls' \in Seq(SoundCalls) /\ Len(calls') = Len(before) + Len(after)
  BY <1>2, <1>3, <1>4, ConcatProperties
<1>6. Len(calls') <= MaxCalls
  BY <1>1, <1>2, <1>3, <1>5, MemberAssumption
<1>7. QED
  BY <1>5, <1>6 DEF UnderWay

LEMMA CallBecomes ==
    ASSUME UnderWay, NEW i \in DOMAIN calls, NEW r \in SoundCalls, Becomes(i, r)
    PROVE  UnderWay'
<1>1. i \in 1 .. Len(calls)
  BY LenProperties DEF UnderWay
<1>2. QED
  BY <1>1, ExceptSeq DEF UnderWay, Becomes

LEMMA CallReplied ==
    ASSUME UnderWay, NEW i \in DOMAIN calls, NEW value \in Answers, Reply(i, value),
           \A c : c.kind = calls[i].kind /\ c.answer = value /\ c.at = "answered"
                  /\ c.stale \in BOOLEAN => CallTyped(c)
    PROVE  UnderWay'
<1>1. PICK kind, stale : kind = calls[i].kind /\ stale = calls[i].stale
  OBVIOUS
<1>2. PICK r : r = [Ask(kind, NoMember, 0) EXCEPT
                        !.at = "answered", !.answer = value, !.stale = stale]
  OBVIOUS
<1>3. kind \in Kinds /\ stale \in BOOLEAN
  BY <1>1, CallsAreSound DEF DialogCalls
<1>4. r = [kind |-> kind, with |-> NoMember, arg |-> 0, at |-> "answered",
           stale |-> stale, answer |-> value]
  BY <1>2 DEF Ask
<1>5. r \in DialogCalls
  BY <1>3, <1>4, MemberAssumption DEF DialogCalls
<1>6. CallTyped(r)
  BY <1>1, <1>3, <1>4
<1>7. r \in SoundCalls /\ Becomes(i, r)
  BY <1>1, <1>2, <1>5, <1>6 DEF SoundCalls, Reply
<1>8. QED
  BY <1>7, CallBecomes

\* An answered call goes on to load the conversations.
LEMMA CallContinues ==
    ASSUME UnderWay, NEW i \in DOMAIN calls, Continues(i)
    PROVE  UnderWay'
<1>1. PICK stale : stale = calls[i].stale
  OBVIOUS
<1>2. PICK r : r = [Ask("conversations", NoMember, 0) EXCEPT !.stale = stale]
  OBVIOUS
<1>3. stale \in BOOLEAN
  BY <1>1, CallsAreSound DEF DialogCalls
<1>4. r = [kind |-> "conversations", with |-> NoMember, arg |-> 0, at |-> "asked",
           stale |-> stale, answer |-> 0]
  BY <1>2 DEF Ask
<1>5. r \in SoundCalls
  BY <1>3, <1>4, MemberAssumption DEF SoundCalls, DialogCalls, Kinds, Answers, CallTyped
<1>6. Becomes(i, r)
  BY <1>1, <1>2 DEF Continues
<1>7. QED
  BY <1>5, <1>6, CallBecomes


(***************************************************************************)
(* The steps of SocialHub.                                                 *)
(***************************************************************************)

LEMMA MailKept ==
    ASSUME MailTyped, UNCHANGED mail
    PROVE  MailTyped'
BY DEF MailTyped, IsCount, mail

LEMMA AskSteps ==
    ASSUME SocialInv,
           \/ loadMessages \/ loadNotifications \/ sendMessage
           \/ \E id \in Ids : deleteMessage(id)
           \/ \E m \in Members \cup {NoMember} : Mount(m)
    PROVE  SocialInv'
<1>1. MailTyped'
  <2>1. UNCHANGED mail
    BY DEF loadMessages, loadNotifications, sendMessage, deleteMessage, Mount, hubState
  <2>2. QED
    BY <2>1, MailKept DEF SocialInv
<1>2. OnScreen'
  BY DEF SocialInv, OnScreen, IsMessages, IsConversations, IsCount, loadMessages,
         loadNotifications, sendMessage, deleteMessage, Mount, hubState, lists
<1>3. MaxId \in Nat /\ UnderWay /\ Ids \subseteq 0 .. MaxId
  BY MemberAssumption DEF SocialInv, Ids
<1>4. ASSUME NEW kind \in Kinds, NEW m \in Members \cup {NoMember}, NEW arg \in 0 .. MaxId,
             kind \in {"load", "send", "delete"} => m \in Members,
             kind = "delete" => arg \in Ids,
             Starts(<<Ask(kind, m, arg)>>)
      PROVE  UnderWay'
  BY <1>3, <1>4, AskedIsSound, CallStarts
<1>5. DialogOpen => activeDialog \in Members
  BY DEF SocialInv, OnScreen, DialogOpen
<1>6. UnderWay'
  <2>1. CASE loadMessages
    <3>1. Starts(<<Ask("load", activeDialog, 0)>>) /\ DialogOpen
      BY <2>1 DEF loadMessages
    <3>2. QED
      BY <1>3, <1>4, <1>5, <3>1 DEF Kinds
  <2>2. CASE loadNotifications
    <3>1. Starts(<<Ask("notifications", NoMember, 0)>>)
      BY <2>2 DEF loadNotifications
    <3>2. QED
      BY <1>3, <1>4, <3>1 DEF Kinds
  <2>3. CASE sendMessage
    <3>1. Starts(<<Ask("send", activeDialog, 0)>>) /\ DialogOpen
      BY <2>3 DEF sendMessage, CanWrite
    <3>2. QED
      BY <1>3, <1>4, <1>5, <3>1 DEF Kinds
  <2>4. ASSUME NEW id \in Ids, deleteMessage(id) PROVE UnderWay'
    <3>1. Starts(<<Ask("delete", activeDialog, id)>>) /\ DialogOpen
      BY <2>4 DEF deleteMessage, CanDelete
    <3>2. QED
      BY <1>3, <1>4, <1>5, <3>1 DEF Kinds
  <2>5. ASSUME NEW m \in Members \cup {NoMember}, Mount(m) PROVE UnderWay'
    <3>1. Starts(<<Ask("conversations", NoMember, 0)>>)
      BY <2>5 DEF Mount
    <3>2. QED
      BY <1>3, <1>4, <3>1 DEF Kinds
  <2>6. QED
    BY <2>1, <2>2, <2>3, <2>4, <2>5
<1>7. QED
  BY <1>1, <1>2, <1>6 DEF SocialInv

LEMMA HubSteps ==
    ASSUME SocialInv, Unmount \/ closeDialog \/ \E m \in Members : openDialog(m)
    PROVE  SocialInv'
<1>1. MailTyped'
  BY MailKept DEF SocialInv, Unmount, closeDialog, openDialog
<1>2. IsMessages(<<>>) /\ IsConversations(<<>>)
  <2>1. <<>> \in Seq(Ids) /\ <<>> \in Seq(Members) /\ Len(<<>>) = 0
    BY EmptySeq
  <2>2. DOMAIN <<>> = {}
    BY <2>1, LenProperties
  <2>3. QED
    BY <2>1, <2>2 DEF IsMessages, IsConversations
<1>3. OnScreen'
  <2>1. CASE Unmount
    BY <1>2, <2>1 DEF SocialInv, OnScreen, IsMessages, IsConversations, IsCount, Unmount
  <2>2. CASE closeDialog
    BY <2>2 DEF SocialInv, OnScreen, IsMessages, IsConversations, IsCount, closeDialog, lists
  <2>3. CASE \E m \in Members : openDialog(m)
    BY <1>2, <2>3 DEF SocialInv, OnScreen, IsMessages, IsConversations, IsCount, openDialog
  <2>4. QED
    BY <2>1, <2>2, <2>3
<1>4. UnderWay'
  <2>1. CASE Unmount
    <3>1. ASSUME NEW c, c \in DialogCalls /\ CallTyped(c),
                 NEW d, d = [c EXCEPT !.stale = @ \/ c.kind # "notifications"]
          PROVE  d \in SoundCalls
      <4>1. /\ d \in DialogCalls /\ d.kind = c.kind /\ d.with = c.with /\ d.arg = c.arg
            /\ d.at = c.at /\ d.answer = c.answer /\ d.stale \in BOOLEAN
        BY <3>1 DEF DialogCalls
      <4>2. CallTyped(d)
        BY <3>1, <4>1 DEF CallTyped
      <4>3. QED
        BY <4>1, <4>2 DEF SoundCalls
    <3>2. calls' = [i \in DOMAIN calls |->
                      [calls[i] EXCEPT !.stale = @ \/ calls[i].kind # "notifications"]]
      BY <2>1 DEF Unmount
    <3>3. \A i \in DOMAIN calls : calls[i] \in DialogCalls /\ CallTyped(calls[i])
      BY CallsAreSound DEF SocialInv
    <3>4. /\ \A i \in DOMAIN calls : calls'[i] \in SoundCalls
          /\ DOMAIN calls' = DOMAIN calls /\ calls' = [i \in DOMAIN calls' |-> calls'[i]]
      BY <3>1, <3>2, <3>3
    <3>5. /\ Len(calls) \in Nat /\ DOMAIN calls = 1 .. Len(calls)
          /\ Len(calls) <= MaxCalls
      BY LenProperties DEF SocialInv, UnderWay
    <3>6. calls' \in [1 .. Len(calls) -> SoundCalls]
      BY <3>4, <3>5
    <3>7. calls' \in Seq(SoundCalls)
      BY <3>5, <3>6, SeqDef
    <3>8. Len(calls') <= Len(calls)
      <4>1. Len(calls') \in Nat /\ 1 .. Len(calls') = 1 .. Len(calls)
        BY <3>4, <3>5, <3>7, LenProperties
      <4>2. Len(calls') > Len(calls) => Len(calls') \in 1 .. Len(calls')
        BY <3>5, <4>1
      <4>3. Len(calls') \in 1 .. Len(calls) => Len(calls') <= Len(calls)
        BY <3>5
      <4>4. QED
        BY <3>5, <4>1, <4>2, <4>3
    <3>9. QED
      BY <3>5, <3>7, <3>8, LenProperties, MemberAssumption DEF UnderWay
  <2>2. CASE closeDialog \/ \E m \in Members : openDialog(m)
    BY <2>2 DEF SocialInv, UnderWay, closeDialog, openDialog
  <2>3. QED
    BY <2>1, <2>2
<1>5. QED
  BY <1>1, <1>3, <1>4 DEF SocialInv


\* A message gets an id that no thread has.
LEMMA MessageAdded ==
    ASSUME MailTyped, NEW m \in Members, lastMessage < MaxId,
           lastMessage' = lastMessage + 1,
           thread' = [thread EXCEPT ![m] = @ \cup {lastMessage + 1}],
           \/ ownIds' = ownIds \cup {lastMessage + 1} /\ UNCHANGED unread
           \/ unread' = unread \cup {lastMessage + 1} /\ UNCHANGED ownIds
    PROVE  MailTyped' /\ lastMessage + 1 \in Ids
<1>1. lastMessage \in Nat /\ MaxId \in Nat
  BY MemberAssumption DEF MailTyped, IsCount
<1>2. PICK new : new = lastMessage + 1
  OBVIOUS
<1>3. new \in Ids /\ new \in 1 .. new /\ new \notin 1 .. lastMessage
      /\ 1 .. lastMessage \subseteq 1 .. new /\ new \in 0 .. MaxId
  BY <1>1, <1>2 DEF Ids
<1>4. lastMessage' = new /\ \A n \in Members : thread[n] \subseteq 1 .. lastMessage
  BY <1>2 DEF MailTyped
<1>5. thread' = [thread EXCEPT ![m] = @ \cup {new}] /\ DOMAIN thread = Members
  BY <1>2 DEF MailTyped
<1>6. \A n \in Members : thread'[n] = IF n = m THEN thread[n] \cup {new} ELSE thread[n]
  BY <1>5
<1>7. thread' \in [Members -> SUBSET (1 .. new)]
  BY <1>3, <1>4, <1>5 DEF MailTyped
<1>8. \A k, n \in Members : k # n => thread'[k] \cap thread'[n] = {}
  BY <1>3, <1>4, <1>6 DEF MailTyped
<1>9. ownIds' \subseteq 1 .. new /\ unread' \subseteq (1 .. new) \ ownIds'
  BY <1>2, <1>3 DEF MailTyped
<1>10. QED
  BY <1>2, <1>3, <1>4, <1>7, <1>8, <1>9 DEF MailTyped, IsCount

LEMMA WritingSteps ==
    ASSUME SocialInv, NEW m \in Members, Incoming(m)
    PROVE  SocialInv'
<1>1. MailTyped'
  BY MessageAdded DEF SocialInv, Incoming
<1>2. OnScreen' /\ UnderWay'
  BY DEF SocialInv, OnScreen, IsMessages, IsConversations, IsCount, UnderWay, Incoming, lists
<1>3. QED
  BY <1>1, <1>2 DEF SocialInv

LEMMA ServerSteps ==
    ASSUME SocialInv, NEW i \in DOMAIN calls, Serves(i)
    PROVE  SocialInv'
<1>1. OnScreen'
  BY DEF SocialInv, OnScreen, IsMessages, IsConversations, IsCount, Serves, lists
<1>2. MailTyped /\ UnderWay /\ CallTyped(calls[i])
  BY CallsAreSound DEF SocialInv
<1>3. CASE MarkRead(i) \/ ListMessages(i)
  <2>1. /\ calls[i].kind = "load" /\ calls[i].at \in {"asked", "marked"}
        /\ calls[i].with \in Members
    BY <1>2, <1>3 DEF MarkRead, ListMessages, CallTyped
  <2>2. CASE MarkRead(i)
    <3>1. PICK c, d : c = calls[i] /\ d = [c EXCEPT !.at = "marked"]
      OBVIOUS
    <3>2. c \in DialogCalls /\ c.kind = "load" /\ c.with \in Members
      BY <1>2, <2>1, <3>1, CallsAreSound
    <3>3. /\ d \in DialogCalls /\ d.kind = "load" /\ d.with \in Members
          /\ d.at = "marked" /\ d.stale \in BOOLEAN
      BY <3>1, <3>2 DEF DialogCalls
    <3>4. d \in SoundCalls
      BY <3>3 DEF SoundCalls, CallTyped, Kinds
    <3>5. Becomes(i, d) /\ UNCHANGED <<lastMessage, thread, ownIds>> /\ unread' \subseteq unread
      BY <2>2, <3>1 DEF MarkRead
    <3>6. UnderWay'
      BY <1>2, <3>4, <3>5, CallBecomes
    <3>7. MailTyped'
      BY <1>2, <3>5 DEF MailTyped, IsCount
    <3>8. QED
      BY <1>1, <3>6, <3>7 DEF SocialInv
  <2>3. CASE ListMessages(i)
    <3>1. PICK value : value = Page(calls[i].with)
      OBVIOUS
    <3>2. value \in Answers /\ IsMessages(value)
      BY <1>2, <2>1, <3>1, PageIsAList DEF Answers, IsMessages
    <3>3. Reply(i, value) /\ UNCHANGED mail
      BY <2>3, <3>1 DEF ListMessages
    <3>4. UnderWay'
      BY <1>2, <2>1, <3>2, <3>3, CallReplied DEF CallTyped, Kinds
    <3>5. QED
      BY <1>1, <1>2, <3>3, <3>4, MailKept DEF SocialInv
  <2>4. QED
    BY <1>3, <2>2, <2>3
<1>4. CASE ListConversations(i)
  <2>1. calls[i].kind = "conversations" /\ Reply(i, Listed) /\ UNCHANGED mail
    BY <1>4 DEF ListConversations
  <2>2. Listed \in Answers /\ IsConversations(Listed) /\ IsCount(Total(Listed))
    BY <1>2, TotalIsACount DEF Answers
  <2>3. UnderWay'
    <3>1. PICK value : value = Listed
      OBVIOUS
    <3>2. value \in Answers /\ IsConversations(value) /\ IsCount(Total(value))
          /\ Reply(i, value)
      BY <2>1, <2>2, <3>1
    <3>3. QED
      BY <1>2, <2>1, <3>2, CallReplied DEF CallTyped, Kinds
  <2>4. QED
    BY <1>1, <1>2, <2>1, <2>3, MailKept DEF SocialInv
<1>5. CASE CountUnread(i)
  <2>1. calls[i].kind = "notifications" /\ Reply(i, Cardinality(unread)) /\ UNCHANGED mail
    BY <1>5 DEF CountUnread
  <2>2. IsCount(Cardinality(unread)) /\ Cardinality(unread) \in Answers
    BY <1>2, MailHasIds, IdsAreFinite DEF IsCount, Answers
  <2>3. UnderWay'
    BY <1>2, <2>1, <2>2, CallReplied DEF CallTyped, Kinds
  <2>4. QED
    BY <1>1, <1>2, <2>1, <2>3, MailKept DEF SocialInv
<1>6. CASE AddMessage(i)
  <2>1. calls[i].kind = "send" /\ calls[i].with \in Members /\ Reply(i, lastMessage + 1)
    BY <1>2, <1>6 DEF AddMessage, CallTyped
  <2>2. MailTyped' /\ lastMessage + 1 \in Ids
    <3>1. PICK m \in Members : m = calls[i].with
      BY <2>1
    <3>2. QED
      BY <1>2, <1>6, <3>1, MessageAdded DEF AddMessage
  <2>3. lastMessage + 1 \in Answers
    BY <2>2, MemberAssumption DEF Answers, Ids
  <2>4. UnderWay'
    BY <1>2, <2>1, <2>2, <2>3, CallReplied DEF CallTyped, Kinds
  <2>5. QED
    BY <1>1, <2>2, <2>4 DEF SocialInv
<1>7. CASE DeleteMessage(i)
  <2>1. calls[i].kind = "delete" /\ calls[i].arg \in Ids /\ Reply(i, calls[i].arg)
    BY <1>2, <1>7 DEF DeleteMessage, CallTyped
  <2>2. calls[i].arg \in Answers
    BY <2>1, MemberAssumption DEF Answers, Ids
  <2>3. UnderWay'
    BY <1>2, <2>1, <2>2, CallReplied DEF CallTyped, Kinds
  <2>4. MailTyped'
    <3>1. PICK id : id = calls[i].arg
      OBVIOUS
    <3>2. /\ thread' = [m \in Members |-> thread[m] \ {id}]
          /\ UNCHANGED <<lastMessage, ownIds, unread>>
      BY <1>7, <3>1 DEF DeleteMessage
    <3>3. \A n \in Members : thread'[n] \subseteq thread[n]
      BY <3>2
    <3>4. thread' \in [Members -> SUBSET (1 .. lastMessage)]
      BY <1>2, <3>2, <3>3 DEF MailTyped
    <3>5. \A k, n \in Members : k # n => thread'[k] \cap thread'[n] = {}
      BY <1>2, <3>3 DEF MailTyped
    <3>6. QED
      BY <1>2, <3>2, <3>4, <3>5 DEF MailTyped, IsCount
  <2>5. QED
    BY <1>1, <2>3, <2>4 DEF SocialInv
<1>8. CASE Refuse(i)
  <2>1. Ends(i) /\ UNCHANGED mail
    BY <1>8 DEF Refuse
  <2>2. QED
    BY <1>1, <1>2, <2>1, MailKept, CallEnds DEF SocialInv
<1>9. QED
  BY <1>3, <1>4, <1>5, <1>6, <1>7, <1>8 DEF Serves


LEMMA DialogSteps ==
    ASSUME SocialInv, NEW i \in DOMAIN calls, Answered(i)
    PROVE  SocialInv'
<1>1. UnderWay /\ OnScreen /\ CallTyped(calls[i]) /\ calls[i].at = "answered"
  BY CallsAreSound DEF SocialInv, Answered
<1>2. MailTyped'
  BY MailKept DEF SocialInv, Answered
<1>3. UNCHANGED <<hub, activeDialog>>
  BY DEF Answered
<1>4. UnderWay'
  <2>1. Ends(i) \/ Continues(i)
    BY DEF Answered, Loaded, ConversationsLoaded, Notified, Sent, Deleted
  <2>2. QED
    BY <1>1, <2>1, CallEnds, CallContinues
<1>5. OnScreen'
  <2>1. CASE Loaded(i)
    <3>1. IsMessages(messages')
      BY <1>1, <2>1 DEF Loaded, CallTyped, OnScreen
    <3>2. QED
      BY <1>1, <1>3, <2>1, <3>1 DEF OnScreen, IsConversations, IsCount, Loaded
  <2>2. CASE ConversationsLoaded(i)
    <3>1. /\ IsConversations(calls[i].answer) /\ IsCount(Total(calls[i].answer))
          /\ conversations' \in {conversations, calls[i].answer}
          /\ unreadMessages' = Total(calls[i].answer) /\ UNCHANGED messages
      BY <1>1, <2>2 DEF ConversationsLoaded, CallTyped
    <3>2. IsConversations(conversations')
      BY <1>1, <3>1 DEF OnScreen
    <3>3. IsCount(unreadMessages')
      BY <3>1
    <3>4. QED
      BY <1>1, <1>3, <3>1, <3>2, <3>3 DEF OnScreen, IsMessages
  <2>3. CASE Notified(i)
    <3>1. IsCount(unreadMessages')
      BY <1>1, <2>3 DEF Notified, CallTyped
    <3>2. QED
      BY <1>1, <1>3, <2>3, <3>1 DEF OnScreen, IsMessages, IsConversations, IsCount, Notified
  <2>4. CASE Sent(i)
    <3>1. calls[i].answer \in Ids /\ messages \in Seq(Ids)
      BY <1>1, <2>4 DEF Sent, CallTyped, OnScreen, IsMessages
    <3>2. messages' = messages \/ messages' = Append(messages, calls[i].answer)
      BY <2>4 DEF Sent
    <3>3. IsMessages(messages')
      BY <3>1, <3>2, AppendProperties DEF IsMessages
    <3>4. QED
      BY <1>1, <1>3, <2>4, <3>3 DEF OnScreen, IsConversations, IsCount, Sent
  <2>5. CASE Deleted(i)
    <3>1. messages' = messages \/ messages' = Without(messages, calls[i].answer)
      BY <2>5 DEF Deleted
    <3>2. IsMessages(messages')
      BY <1>1, <3>1, WithoutIsAList DEF OnScreen, IsMessages
    <3>3. QED
      BY <1>1, <1>3, <2>5, <3>2 DEF OnScreen, IsConversations, IsCount, Deleted
  <2>6. QED
    BY <2>1, <2>2, <2>3, <2>4, <2>5 DEF Answered
<1>6. QED
  BY <1>2, <1>4, <1>5 DEF SocialInv

LEMMA FailStep ==
    ASSUME SocialInv, NEW i \in DOMAIN calls, Fails(i)
    PROVE  SocialInv'
<1>1. MailTyped'
  BY MailKept DEF SocialInv, Fails, hubState
<1>2. OnScreen'
  BY DEF SocialInv, OnScreen, IsMessages, IsConversations, IsCount, Fails, hubState, lists
<1>3. UnderWay'
  BY CallEnds DEF SocialInv, Fails
<1>4. QED
  BY <1>1, <1>2, <1>3 DEF SocialInv

LEMMA SocialStart == SocialInit => SocialInv
<1> SUFFICES ASSUME SocialInit PROVE SocialInv
  OBVIOUS
<1>1. MaxId \in Nat /\ MaxCalls \in Nat
  BY MemberAssumption
<1>2. <<>> \in Seq(Ids) /\ <<>> \in Seq(SoundCalls) /\ Len(<<>>) = 0 /\ DOMAIN <<>> = {}
  <2>1. <<>> \in Seq(Ids) /\ <<>> \in Seq(SoundCalls) /\ Len(<<>>) = 0
    BY EmptySeq
  <2>2. QED
    BY <2>1, LenProperties
<1>3. MailTyped
  BY <1>1 DEF SocialInit, MailTyped, IsCount
<1>4. OnScreen
  <2>1. IsMessages(messages) /\ IsConversations(conversations)
    BY <1>2 DEF SocialInit, IsMessages, IsConversations
  <2>2. IsCount(unreadMessages)
    BY <1>1 DEF SocialInit, IsCount
  <2>3. hub \in BOOLEAN /\ activeDialog \in Members \cup {NoMember}
    BY DEF SocialInit
  <2>4. QED
    BY <2>1, <2>2, <2>3 DEF OnScreen
<1>5. UnderWay
  BY <1>1, <1>2 DEF SocialInit, UnderWay
<1>6. QED
  BY <1>3, <1>4, <1>5 DEF SocialInv

LEMMA SocialStep == SocialInv /\ [SocialNext]_socialVars => SocialInv'
<1> SUFFICES ASSUME SocialInv, [SocialNext]_socialVars PROVE SocialInv'
  OBVIOUS
<1>1. CASE UNCHANGED socialVars
  <2>1. UNCHANGED mail
    BY <1>1 DEF socialVars
  <2>2. QED
    BY <1>1, <2>1, MailKept DEF SocialInv, OnScreen, IsMessages, IsConversations, IsCount,
                                UnderWay, socialVars, lists
<1>2. CASE Screen
  BY <1>2, AskSteps, HubSteps, Zenon DEF Screen
<1>3. CASE Acts
  BY <1>3, AskSteps, FailStep, WritingSteps, Zenon DEF Acts
<1>4. CASE Polls
  BY <1>4, AskSteps, ServerSteps, DialogSteps, Zenon DEF Polls
<1>5. QED
  BY <1>1, <1>2, <1>3, <1>4 DEF SocialNext

(* The mail, the lists on screen and the calls under way keep their types, *)
(* for any members and any number of messages: a message is in one thread, *)
(* one of this user's own never counts as unread, and the counter in the   *)
(* header, set by two kinds of calls in any order, never shows more than *)
(* there are messages (AddDirectMessage, loadConversations).               *)
THEOREM DialogTypes == SocialSpec => []SocialTypeOK
<1>1. QED
  BY SocialStart, SocialStep, SocialTypesFollow, PTL DEF SocialSpec

=============================================================================
