------------------------ MODULE RoomAccess_proofs ------------------------
(* TLAPS proofs about RoomAccess, for any pages, rooms and users, every    *)
(* lifetime of tickets, every grace period and every limit.                *)
EXTENDS RoomAccess, TLAPS

(***************************************************************************)
(* Type correctness.                                                       *)
(***************************************************************************)
AbsentAreBlank ==
    \A r \in Rooms : ~Exists(r) =>
        inside[r] = {} /\ hash[r] = NoPassword /\ emptySince[r] = 0
InsideAreIn == \A r \in Rooms : \A p \in inside[r] : RoomOf[p] = r /\ phase[p] = "in"

(* A sweep only takes away.                                                *)
LEMMA SweepTakes ==
    /\ LiveTickets \subseteq tickets
    /\ \A r \in Rooms : LivePending(r) \in {pending[r], NoPassword}
  BY DEF LiveTickets, LivePending

LEMMA SweptTyped ==
    ASSUME TicketsTyped
    PROVE  [r \in Rooms |-> LivePending(r)] \in [Rooms -> Passwords \cup {NoPassword}]
  BY SweepTakes DEF TicketsTyped

LEMMA InitTyped == Init => TypeOK
  BY DEF Init, TypeOK, RoomsTyped, TicketsTyped, RowsTyped, PagesTyped, Phases,
         NoTicket, Exists

LEMMA OpenPageTyped ==
    ASSUME TypeOK, NEW p \in Pages, OpenPage(p)
    PROVE  TypeOK'
  BY DEF OpenPage, TypeOK, RoomsTyped, TicketsTyped, RowsTyped, PagesTyped, Phases,
         Exists, roomVars, ticketVars, rowVars

LEMMA PrepareTyped ==
    ASSUME TypeOK, NEW p \in Pages, NEW pw \in Passwords, PrepareRoomAccess(p, pw)
    PROVE  TypeOK'
<1>1. UNCHANGED <<roomVars, rowVars, listed, now>> /\ phase[p] = "new"
  BY DEF PrepareRoomAccess, Asks
<1>2. /\ phase' \in {phase, [phase EXCEPT ![p] = "ready"]}
      /\ issued' \in {issued, [issued EXCEPT ![p] = [password |-> pw,
                                                     expires |-> now + Lifetime]]}
      /\ tickets' \subseteq tickets \cup {p}
  BY SweepTakes DEF PrepareRoomAccess, AccessOpenRoom, AccessGranted, AccessReserved,
     AccessDenied, Sweep, Issue
<1>3. pending' \in [Rooms -> Passwords \cup {NoPassword}]
  <2>1. TicketsTyped
    BY DEF TypeOK
  <2>2. \A r \in Rooms : LivePending(r) \in Passwords \cup {NoPassword}
    BY <2>1, SweepTakes DEF TicketsTyped
  <2> QED
    BY <2>2 DEF PrepareRoomAccess, AccessOpenRoom, AccessGranted, AccessReserved,
       AccessDenied, Sweep
<1>4. TicketsTyped'
  <2>1. now + Lifetime \in Nat
    BY AccessTimes DEF TypeOK, PagesTyped
  <2> QED
    BY <1>2, <1>3, <2>1 DEF TypeOK, TicketsTyped
<1>5. RoomsTyped' /\ RowsTyped' /\ PagesTyped'
  <2>1. RoomsTyped' /\ RowsTyped'
    BY <1>1 DEF TypeOK, RoomsTyped, RowsTyped, roomVars, rowVars
  <2>2. phase' \in [Pages -> Phases]
    BY <1>2 DEF TypeOK, PagesTyped, Phases
  <2> QED
    BY <1>1, <2>1, <2>2 DEF TypeOK, PagesTyped
<1>6. AbsentAreBlank' /\ InsideAreIn'
  BY <1>1, <1>2 DEF TypeOK, PagesTyped, AbsentAreBlank, InsideAreIn, Exists, roomVars, RoomsTyped
<1> QED
  BY <1>4, <1>5, <1>6 DEF TypeOK, AbsentAreBlank, InsideAreIn

LEMMA ValidateTyped ==
    ASSUME TypeOK, NEW p \in Pages, NEW answer \in {"open", "member", "ticket", "ready"},
           ValidateRoomAccess(p, answer)
    PROVE  TypeOK'
<1>1. /\ UNCHANGED <<roomVars, issued, rowVars, listed, now>>
      /\ phase[p] = "ready"
      /\ phase' = [phase EXCEPT ![p] = answer]
      /\ pending' = [r \in Rooms |-> LivePending(r)]
      /\ tickets' \subseteq tickets
  BY SweepTakes DEF ValidateRoomAccess
<1>2. TicketsTyped'
  BY <1>1, SweptTyped DEF TypeOK, TicketsTyped
<1>3. RoomsTyped' /\ RowsTyped' /\ PagesTyped'
  BY <1>1 DEF TypeOK, RoomsTyped, RowsTyped, PagesTyped, Phases, Dialing, roomVars, rowVars
<1>4. AbsentAreBlank' /\ InsideAreIn'
  BY <1>1 DEF TypeOK, PagesTyped, AbsentAreBlank, InsideAreIn, Exists, roomVars, RoomsTyped
<1> QED
  BY <1>2, <1>3, <1>4 DEF TypeOK, AbsentAreBlank, InsideAreIn

LEMMA UpgradeFailsTyped ==
    ASSUME TypeOK, NEW p \in Pages, UpgradeFails(p)
    PROVE  TypeOK'
  BY DEF UpgradeFails, TypeOK, RoomsTyped, TicketsTyped, RowsTyped, PagesTyped, Phases,
         Dialing, Exists, roomVars, ticketVars, rowVars

LEMMA RegisterTyped ==
    ASSUME TypeOK, NEW p \in Pages, Register(p)
    PROVE  TypeOK'
<1> DEFINE r == RoomOf[p]
<1>0. r \in Rooms /\ UserOf[p] \in Users /\ UserOf[p] # NoUser
  BY RoomsAssumption, UserAssumption DEF Users
<1>1. RoomsTyped' /\ TicketsTyped'
  BY <1>0 DEF Register, TypeOK, RoomsTyped, TicketsTyped
<1>2. RowsTyped' /\ PagesTyped'
  BY <1>0 DEF Register, TypeOK, RowsTyped, PagesTyped, Phases
<1>3. host'[r] # NoUser /\ \A x \in Rooms \ {r} : host'[x] = host[x]
  BY <1>0 DEF Register, TypeOK, RoomsTyped, Exists
<1>4. AbsentAreBlank'
  BY <1>0, <1>3 DEF Register, TypeOK, RoomsTyped, AbsentAreBlank, Exists
<1>5. InsideAreIn'
  BY <1>0 DEF Register, TypeOK, RoomsTyped, PagesTyped, InsideAreIn
<1> QED
  BY <1>1, <1>2, <1>4, <1>5 DEF TypeOK, AbsentAreBlank, InsideAreIn

LEMMA UnregisterTyped ==
    ASSUME TypeOK, NEW p \in Pages, Unregister(p)
    PROVE  TypeOK'
<1>0. RoomOf[p] \in Rooms
  BY RoomsAssumption
<1>1. RoomsTyped' /\ TicketsTyped'
  BY <1>0 DEF Unregister, TypeOK, RoomsTyped, TicketsTyped, PagesTyped, ticketVars
<1>2. RowsTyped' /\ PagesTyped'
  BY <1>0 DEF Unregister, TypeOK, RowsTyped, PagesTyped, Phases
<1>3. Exists(RoomOf[p])
  BY <1>0 DEF Unregister, TypeOK
<1>4. AbsentAreBlank'
  BY <1>0, <1>3 DEF Unregister, TypeOK, RoomsTyped, AbsentAreBlank, Exists
<1>5. InsideAreIn'
  BY <1>0 DEF Unregister, TypeOK, RoomsTyped, PagesTyped, InsideAreIn
<1> QED
  BY <1>1, <1>2, <1>4, <1>5 DEF TypeOK, AbsentAreBlank, InsideAreIn

LEMMA EvictTyped ==
    ASSUME TypeOK, NEW p \in Pages, Evict(p)
    PROVE  TypeOK'
  BY RoomsAssumption DEF Evict, TypeOK, RoomsTyped, TicketsTyped, RowsTyped, PagesTyped,
     Phases, Exists, ticketVars, rowVars

LEMMA ForgetTyped ==
    ASSUME TypeOK, NEW r \in Rooms, Forget(r), UNCHANGED issued
    PROVE  /\ RoomsTyped' /\ TicketsTyped' /\ AbsentAreBlank'
           /\ \A x \in Rooms : inside'[x] \subseteq inside[x] /\ inside'[r] = {}
  BY DEF Forget, TypeOK, RoomsTyped, TicketsTyped, AbsentAreBlank, Exists

LEMMA LeaveTyped ==
    ASSUME TypeOK, NEW p \in Pages, Leave(p)
    PROVE  TypeOK'
<1>0. RoomOf[p] \in Rooms
  BY RoomsAssumption
<1>1. CASE LeaveLast(p)
  <2>1. RoomsTyped' /\ TicketsTyped' /\ AbsentAreBlank'
    BY <1>0, <1>1, ForgetTyped DEF Leave, LeaveLast
  <2>2. RowsTyped' /\ PagesTyped'
    BY <1>1 DEF Leave, LeaveLast, TypeOK, RowsTyped, PagesTyped, Phases
  <2>3. InsideAreIn'
    BY <1>0, <1>1 DEF Leave, LeaveLast, Forget, TypeOK, RoomsTyped, PagesTyped, InsideAreIn
  <2> QED
    BY <2>1, <2>2, <2>3 DEF TypeOK, AbsentAreBlank, InsideAreIn
<1>2. CASE LeaveOthers(p)
  BY <1>0, <1>2 DEF Leave, LeaveOthers, TypeOK, RoomsTyped, TicketsTyped, RowsTyped,
     PagesTyped, Phases, Exists
<1> QED
  BY <1>1, <1>2 DEF Leave

LEMMA RowActionsTyped ==
    ASSUME TypeOK, NEW p \in Pages,
           SaveRoomMember(p) \/ DeletePersistentRoom(p) \/ DeleteRoomMember(p)
    PROVE  TypeOK'
<1>1. UNCHANGED <<roomVars, ticketVars, timers, erasing, phase, listed, now>> /\ hub' = <<>>
  BY DEF SaveRoomMember, DeletePersistentRoom, DeleteRoomMember
<1>2. members' \subseteq Rooms \X Users
  BY RoomsAssumption DEF SaveRoomMember, DeletePersistentRoom, DeleteRoomMember, TypeOK,
     RowsTyped, Users
<1> QED
  BY <1>1, <1>2 DEF TypeOK, RoomsTyped, TicketsTyped, RowsTyped, PagesTyped, Exists,
     roomVars, ticketVars

LEMMA CleanupTyped ==
    ASSUME TypeOK, NEW r \in Rooms, NEW since \in 1..MaxTime, Cleanup(r, since)
    PROVE  TypeOK'
<1>1. CASE Exists(r) /\ inside[r] = {} /\ emptySince[r] = since
  <2>1. RoomsTyped' /\ TicketsTyped' /\ AbsentAreBlank'
    BY <1>1, ForgetTyped DEF Cleanup
  <2>2. RowsTyped' /\ PagesTyped'
    BY <1>1 DEF Cleanup, TypeOK, RowsTyped, PagesTyped
  <2>3. InsideAreIn'
    BY <1>1 DEF Cleanup, Forget, TypeOK, RoomsTyped, InsideAreIn
  <2> QED
    BY <2>1, <2>2, <2>3 DEF TypeOK, AbsentAreBlank, InsideAreIn
<1>2. CASE ~(Exists(r) /\ inside[r] = {} /\ emptySince[r] = since)
  BY <1>2 DEF Cleanup, TypeOK, RoomsTyped, TicketsTyped, RowsTyped, PagesTyped, Exists,
     roomVars
<1> QED
  BY <1>1, <1>2

LEMMA CleanupRowsTyped ==
    ASSUME TypeOK, NEW r \in Rooms, CleanupRows(r)
    PROVE  TypeOK'
  BY DEF CleanupRows, TypeOK, RoomsTyped, TicketsTyped, RowsTyped, PagesTyped, Exists,
     roomVars, ticketVars

LEMMA TickTyped ==
    ASSUME TypeOK, Tick
    PROVE  TypeOK'
  BY DEF Tick, TypeOK, RoomsTyped, TicketsTyped, RowsTyped, PagesTyped, Exists,
     roomVars, ticketVars, rowVars

LEMMA StutterTyped ==
    ASSUME TypeOK, UNCHANGED vars
    PROVE  TypeOK'
  BY DEF vars, TypeOK, RoomsTyped, TicketsTyped, RowsTyped, PagesTyped, Exists,
     roomVars, ticketVars, rowVars

(* The hub's maps keep the shape the Go types give them.                   *)
THEOREM TypeCorrect == Spec => []TypeOK
<1>1. TypeOK /\ [Next]_vars => TypeOK'
  BY OpenPageTyped, PrepareTyped, ValidateTyped, UpgradeFailsTyped, RegisterTyped,
     UnregisterTyped, EvictTyped, LeaveTyped, RowActionsTyped, CleanupTyped,
     CleanupRowsTyped, TickTyped, StutterTyped, Zenon DEF Next
<1> QED
  BY InitTyped, <1>1, PTL DEF Spec

(***************************************************************************)
(* The access rules: AccessInv is inductive.                               *)
(***************************************************************************)
PastCheck(p) == phase[p] \in Dialing \cup {"in"} \/ hub = <<"save", p>>

(* A step that gives room r no new password and changes no ticket.         *)
Calm(r) ==
    /\ hash'[r] \in {hash[r], pending[r], NoPassword}
    /\ pending'[r] \in {pending[r], NoPassword}
    /\ \A p \in Pages : issued[p].password # NoPassword => issued'[p] = issued[p]

LEMMA AdmittedStable ==
    ASSUME NEW r \in Rooms, NEW u, Admitted(u, r), Calm(r)
    PROVE  Admitted(u, r)'
<1>1. CASE Open(r)
  BY <1>1 DEF Admitted, Open, Calm
<1>2. CASE Key(r) # NoPassword /\ Shown(u, r, Key(r))
  <2>1. Key(r)' = Key(r)
    BY <1>2, RoomsAssumption DEF Key, Calm
  <2>2. PICK p \in Pages : UserOf[p] = u /\ RoomOf[p] = r /\ issued[p].password = Key(r)
    BY <1>2 DEF Shown
  <2>3. issued'[p] = issued[p]
    BY <1>2, <2>2 DEF Calm
  <2> QED
    BY <1>2, <2>1, <2>2, <2>3 DEF Admitted, Shown
<1> QED
  BY <1>1, <1>2 DEF Admitted

(* Nobody new gets past the check.                                         *)
LEMMA AdmittedKept ==
    ASSUME TypeOK, AllAdmitted, \A r \in Rooms : Calm(r), members' \subseteq members,
           \A p \in Pages : PastCheck(p)' => PastCheck(p)
    PROVE  AllAdmitted'
<1>1. ASSUME NEW p \in Pages, PastCheck(p)'
      PROVE  Admitted(UserOf[p], RoomOf[p])'
  BY <1>1, AdmittedStable, RoomsAssumption DEF AllAdmitted, PastCheck
<1>2. ASSUME NEW m \in members'
      PROVE  Admitted(m[2], m[1])'
  BY <1>2, AdmittedStable DEF AllAdmitted, TypeOK, RowsTyped
<1> QED
  BY <1>1, <1>2 DEF AllAdmitted, PastCheck

(* What the rules speak of, but for the phases, the hub and the marks.     *)
ruleVars == <<host, hash, pending, tickets, issued, members, erasing, listed>>

LEMMA InitAccess == Init => AccessInv
  BY DEF Init, AccessInv, CreatorFirst, KeysFit, AllAdmitted, TicketsFitTheirRoom,
     CreatorsTicket, StaleRowsAwaitDeletion, SavedRoomExists, Key, Exists, NoTicket,
     Knows, Dialing

(* A page that goes back before the check, or leaves for good.             *)
LEMMA PageAccess ==
    ASSUME TypeOK, AccessInv, NEW p \in Pages, NEW s \in {"ready", "gone"},
           UNCHANGED ruleVars, Knows(p), phase' = [phase EXCEPT ![p] = s],
           s = "gone" => phase[p] = "in",
           \/ UNCHANGED <<emptySince, hub>>
           \/ HubIdle /\ hub' \in {<<>>, <<"forget", p>>}
    PROVE  AccessInv'
<1>0. \A q \in Pages : /\ hub' = <<"save", q>> => hub = <<"save", q>> /\ UNCHANGED emptySince
                       /\ hub = <<"erase", q>> => hub' = hub
  BY DEF HubIdle
<1>1. AllAdmitted'
  <2>1. \A r \in Rooms : Calm(r)
    BY DEF Calm, ruleVars
  <2>2. \A q \in Pages : PastCheck(q)' => PastCheck(q)
    BY <1>0 DEF PastCheck, ruleVars, Dialing, TypeOK, PagesTyped
  <2> QED
    BY <2>1, <2>2, AdmittedKept DEF AccessInv, ruleVars
<1>2. CreatorFirst'
  BY <1>0 DEF AccessInv, CreatorFirst, ruleVars, TypeOK, PagesTyped, Knows, Exists, Creates
<1>3. KeysFit'
  BY DEF AccessInv, KeysFit, ruleVars, Key, Exists, TypeOK, PagesTyped
<1>4. CreatorsTicket'
  BY DEF AccessInv, CreatorsTicket, ruleVars, TypeOK, PagesTyped, Creates
<1>5. TicketsFitTheirRoom' /\ StaleRowsAwaitDeletion' /\ SavedRoomExists'
  BY <1>0 DEF AccessInv, TicketsFitTheirRoom, StaleRowsAwaitDeletion, SavedRoomExists,
     ruleVars, Exists, Creates
<1> QED
  BY <1>1, <1>2, <1>3, <1>4, <1>5 DEF AccessInv

(* A sweep takes no password whose creator may still come with its ticket. *)
LEMMA SweepKeepsReservation ==
    ASSUME AccessInv, NEW p \in Pages, Creates(p),
           p \in LiveTickets \/ phase[p] = "ticket", tickets \subseteq Pages
    PROVE  LivePending(RoomOf[p]) = pending[RoomOf[p]]
<1>1. ASSUME NEW q \in Expired, RoomOf[q] = RoomOf[p], ~Exists(RoomOf[p])
      PROVE  FALSE
  <2>1. q \in tickets /\ q \in Pages /\ (Creates(q) => phase[q] = "ready")
    BY DEF Expired, AccessInv, CreatorsTicket
  <2>2. Creates(q)
    BY <1>1, <2>1 DEF AccessInv, TicketsFitTheirRoom
  <2>3. q = p
    BY <1>1, <2>2 DEF Creates
  <2> QED
    BY <2>1, <2>3 DEF LiveTickets
<1> QED
  BY <1>1 DEF LivePending

(* A request that only sweeps, whatever page made it.                      *)
LEMMA SweepAccess ==
    ASSUME TypeOK, AccessInv, NEW p \in Pages, Sweep,
           UNCHANGED <<roomVars, rowVars, issued, listed>>,
           \/ phase' = phase
           \/ /\ phase[p] = "new" /\ Knows(p) /\ Exists(RoomOf[p])
              /\ phase' = [phase EXCEPT ![p] = "ready"]
    PROVE  AccessInv'
<1>0. /\ tickets' \subseteq tickets /\ tickets \subseteq Pages
      /\ \A r \in Rooms : pending'[r] \in {pending[r], NoPassword}
  BY SweepTakes DEF Sweep, TypeOK, TicketsTyped
<1>1. AllAdmitted'
  <2>1. \A r \in Rooms : Calm(r)
    BY <1>0 DEF Calm, roomVars
  <2>2. \A q \in Pages : PastCheck(q)' => PastCheck(q)
    BY DEF PastCheck, rowVars, Dialing, TypeOK, PagesTyped
  <2> QED
    BY <2>1, <2>2, AdmittedKept DEF AccessInv, rowVars
<1>2. CreatorFirst'
  <2>1. \A q \in Pages : /\ phase'[q] = "new" => phase[q] = "new"
                         /\ Knows(q) \/ phase'[q] = "new"
    BY DEF AccessInv, CreatorFirst, TypeOK, PagesTyped
  <2> QED
    BY <2>1, RoomsAssumption
    DEF AccessInv, CreatorFirst, roomVars, rowVars, Knows, Exists, Creates
<1>3. KeysFit'
  BY <1>0, RoomsAssumption
  DEF AccessInv, KeysFit, roomVars, Key, Exists, TypeOK, PagesTyped
<1>4. CreatorsTicket'
  <2> SUFFICES ASSUME NEW q \in Pages
               PROVE  /\ q \in tickets' =>
                            phase'[q] # "new" /\ (Creates(q) => phase'[q] = "ready")
                      /\ Creates(q) /\ (q \in tickets' \/ phase'[q] = "ticket")
                           => /\ RoomOf[q] \notin listed
                              /\ pending'[RoomOf[q]] = issued[q].password
                              /\ issued[q].password # NoPassword
    BY DEF CreatorsTicket, Creates
  <2>1. q \in tickets' => phase'[q] # "new" /\ (Creates(q) => phase'[q] = "ready")
    BY <1>0 DEF AccessInv, CreatorsTicket, TypeOK, PagesTyped
  <2>2. phase'[q] = "ticket" => phase[q] = "ticket"
    BY DEF TypeOK, PagesTyped
  <2>3. Creates(q) /\ (q \in tickets' \/ phase'[q] = "ticket")
           => pending'[RoomOf[q]] = pending[RoomOf[q]]
    BY <1>0, <2>2, SweepKeepsReservation, RoomsAssumption DEF Sweep
  <2> QED
    BY <1>0, <2>1, <2>2, <2>3 DEF AccessInv, CreatorsTicket
<1>5. TicketsFitTheirRoom' /\ StaleRowsAwaitDeletion' /\ SavedRoomExists'
  BY <1>0 DEF AccessInv, TicketsFitTheirRoom, StaleRowsAwaitDeletion, SavedRoomExists,
     roomVars, rowVars, Exists, Creates
<1> QED
  BY <1>1, <1>2, <1>3, <1>4, <1>5 DEF AccessInv

(* A new ticket: the page was new, nothing it had is lost.                 *)
LEMMA IssueKeeps ==
    ASSUME TypeOK, AccessInv, NEW p \in Pages, NEW pw \in Passwords,
           phase[p] = "new", Issue(p, pw)
    PROVE  /\ issued'[p].password = pw /\ pw # NoPassword
           /\ \A q \in Pages \ {p} : issued'[q] = issued[q] /\ phase'[q] = phase[q]
           /\ issued[p].password = NoPassword /\ phase'[p] = "ready"
           /\ tickets' \subseteq tickets \cup {p} /\ p \notin tickets
           /\ \A q \in tickets' \ {p} : q \in LiveTickets
           /\ p \in tickets' /\ tickets \subseteq Pages
  BY PasswordAssumption, SweepTakes
  DEF Issue, TypeOK, TicketsTyped, PagesTyped, AccessInv, KeysFit, CreatorsTicket

LEMMA GrantedAccess ==
    ASSUME TypeOK, AccessInv, NEW p \in Pages, NEW pw \in Passwords, Asks(p),
           AccessGranted(p, pw)
    PROVE  AccessInv'
<1> DEFINE r == RoomOf[p]
<1>0. /\ UNCHANGED <<roomVars, rowVars, listed>> /\ r \in Rooms
      /\ Exists(r) /\ hash[r] = pw /\ Issue(p, pw) /\ phase[p] = "new" /\ Knows(p)
      /\ pending' = [x \in Rooms |-> LivePending(x)]
      /\ \A x \in Rooms : pending'[x] \in {pending[x], NoPassword}
  BY SweepTakes, RoomsAssumption DEF Asks, AccessGranted
<1>1. ~Creates(p)
  BY <1>0, RoomsAssumption DEF AccessInv, CreatorFirst, Creates
<1>2. \A x \in Rooms : Key(x)' = Key(x)
  BY <1>0, <1>1, IssueKeeps, RoomsAssumption DEF Key, Creates
<1>3. Key(r) = pw
  BY <1>0, IssueKeeps DEF AccessInv, KeysFit
<1>4. AllAdmitted'
  <2>1. \A x \in Rooms : Calm(x)
    BY <1>0, IssueKeeps DEF Calm, roomVars
  <2>2. \A q \in Pages : PastCheck(q)' => PastCheck(q)
    BY <1>0, IssueKeeps DEF PastCheck, rowVars, Dialing
  <2> QED
    BY <1>0, <2>1, <2>2, AdmittedKept DEF AccessInv, rowVars
<1>5. CreatorFirst'
  BY <1>0, IssueKeeps, RoomsAssumption
  DEF AccessInv, CreatorFirst, roomVars, rowVars, Knows, Exists, Creates
<1>6. KeysFit'
  <2>1. \A x \in Rooms : /\ hash'[x] \in {NoPassword, Key(x)'}
                         /\ pending'[x] \in {NoPassword, Key(x)'}
                         /\ Exists(x)' => pending'[x] = NoPassword
    BY <1>0, <1>2 DEF AccessInv, KeysFit, roomVars, Exists
  <2>2. \A q \in Pages : /\ phase'[q] = "new" => issued'[q].password = NoPassword
                         /\ issued'[q].password \in {NoPassword, Key(RoomOf[q])'}
    BY <1>0, <1>2, <1>3, IssueKeeps, RoomsAssumption DEF AccessInv, KeysFit
  <2>3. \A q \in tickets' : issued'[q].password # NoPassword
    BY <1>0, IssueKeeps DEF AccessInv, KeysFit
  <2> QED
    BY <2>1, <2>2, <2>3 DEF KeysFit
<1>7. CreatorsTicket'
  <2> SUFFICES ASSUME NEW q \in Pages
               PROVE  /\ q \in tickets' =>
                            phase'[q] # "new" /\ (Creates(q) => phase'[q] = "ready")
                      /\ Creates(q) /\ (q \in tickets' \/ phase'[q] = "ticket")
                           => /\ RoomOf[q] \notin listed
                              /\ pending'[RoomOf[q]] = issued'[q].password
                              /\ issued'[q].password # NoPassword
    BY <1>0 DEF CreatorsTicket, Creates
  <2>1. CASE q = p
    BY <1>0, <1>1, <2>1, IssueKeeps
  <2>2. CASE q # p
    <3>1. (q \in tickets' => q \in LiveTickets /\ q \in tickets) /\ issued'[q] = issued[q]
          /\ phase'[q] = phase[q]
      BY <1>0, <2>2, IssueKeeps
    <3>2. Creates(q) /\ (q \in tickets' \/ phase'[q] = "ticket")
             => pending'[RoomOf[q]] = pending[RoomOf[q]]
      BY <1>0, <3>1, IssueKeeps, SweepKeepsReservation, RoomsAssumption
    <3> QED
      BY <3>1, <3>2 DEF AccessInv, CreatorsTicket
  <2> QED
    BY <2>1, <2>2
<1>8. TicketsFitTheirRoom'
  BY <1>0, IssueKeeps DEF AccessInv, TicketsFitTheirRoom, roomVars, Exists, Creates
<1>9. StaleRowsAwaitDeletion' /\ SavedRoomExists'
  BY <1>0 DEF AccessInv, StaleRowsAwaitDeletion, SavedRoomExists, roomVars, rowVars, Exists
<1> QED
  BY <1>4, <1>5, <1>6, <1>7, <1>8, <1>9 DEF AccessInv

(* Before its creator has asked for a ticket nobody else is about.         *)
LEMMA Unlisted ==
    ASSUME AccessInv, NEW p \in Pages, Creates(p), phase[p] = "new"
    PROVE  /\ RoomOf[p] \notin listed
           /\ \A m \in members : m[1] # RoomOf[p]
           /\ \A q \in Pages : hub = <<"save", q>> => RoomOf[q] # RoomOf[p]
           /\ \A q \in Pages : RoomOf[q] = RoomOf[p] => phase[q] = "new"
<1>1. RoomOf[p] \in Rooms /\ RoomOf[p] \notin listed
  BY RoomsAssumption DEF AccessInv, CreatorFirst, Creates
<1>2. ASSUME NEW q \in Pages, RoomOf[q] = RoomOf[p]
      PROVE  phase[q] = "new"
  BY <1>1, <1>2 DEF AccessInv, CreatorFirst, Knows, Creates
<1> QED
  BY <1>1, <1>2 DEF AccessInv, CreatorFirst

LEMMA ReservedAccess ==
    ASSUME TypeOK, AccessInv, NEW p \in Pages, NEW pw \in Passwords, Asks(p),
           AccessReserved(p, pw)
    PROVE  AccessInv'
<1> DEFINE r == RoomOf[p]
<1>0. /\ UNCHANGED <<roomVars, rowVars, listed>> /\ r \in Rooms
      /\ ~Exists(r) /\ Creates(p) /\ Issue(p, pw) /\ phase[p] = "new"
      /\ pending'[r] = pw /\ hash[r] = NoPassword
      /\ \A x \in Rooms \ {r} : pending'[x] = LivePending(x)
      /\ \A x \in Rooms \ {r} : pending'[x] \in {pending[x], NoPassword}
  BY SweepTakes, RoomsAssumption DEF Asks, AccessReserved, TypeOK
<1>1. Key(r)' = pw /\ \A x \in Rooms \ {r} : Key(x)' = Key(x)
  <2>1. CreatorOf[r] = p /\ \A x \in Rooms \ {r} : CreatorOf[x] \in Pages \ {p}
    BY <1>0, RoomsAssumption DEF Creates
  <2> QED
    BY <1>0, <2>1, IssueKeeps DEF Key
<1>2. AllAdmitted'
  <2>1. \A x \in Rooms \ {r} : Calm(x)
    BY <1>0, IssueKeeps DEF Calm, roomVars
  <2>2. ASSUME NEW q \in Pages, PastCheck(q)'
        PROVE  Admitted(UserOf[q], RoomOf[q])'
    <3>1. q # p
      BY <1>0, <2>2, IssueKeeps, Unlisted DEF PastCheck, rowVars, Dialing
    <3>2. PastCheck(q)
      BY <1>0, <2>2, <3>1, IssueKeeps DEF PastCheck, rowVars
    <3>3. RoomOf[q] \in Rooms \ {r}
      BY <1>0, <3>2, Unlisted, RoomsAssumption DEF PastCheck, Dialing
    <3> QED
      BY <2>1, <3>2, <3>3, AdmittedStable DEF AccessInv, AllAdmitted, PastCheck
  <2>3. ASSUME NEW m \in members'
        PROVE  Admitted(m[2], m[1])'
    <3>1. m \in members /\ m[1] \in Rooms \ {r}
      BY <1>0, <2>3, Unlisted DEF rowVars, TypeOK, RowsTyped
    <3> QED
      BY <2>1, <3>1, AdmittedStable DEF AccessInv, AllAdmitted
  <2> QED
    BY <2>2, <2>3 DEF AllAdmitted, PastCheck
<1>3. CreatorFirst'
  <2>1. \A q \in Pages : Knows(q)' \/ phase'[q] = "new"
    BY <1>0, IssueKeeps DEF AccessInv, CreatorFirst, Knows, Creates
  <2>2. \A x \in Rooms : phase'[CreatorOf[x]] = "new" => x \notin listed
    BY <1>0, IssueKeeps, RoomsAssumption DEF AccessInv, CreatorFirst
  <2> QED
    BY <1>0, <2>1, <2>2 DEF AccessInv, CreatorFirst, roomVars, rowVars, Exists
<1>4. KeysFit'
  <2>1. \A x \in Rooms : /\ hash'[x] \in {NoPassword, Key(x)'}
                         /\ pending'[x] \in {NoPassword, Key(x)'}
                         /\ Exists(x)' => pending'[x] = NoPassword
    BY <1>0, <1>1 DEF AccessInv, KeysFit, roomVars, Exists
  <2>2. ASSUME NEW q \in Pages
        PROVE  /\ phase'[q] = "new" => issued'[q].password = NoPassword
               /\ issued'[q].password \in {NoPassword, Key(RoomOf[q])'}
    <3>1. CASE q = p
      BY <1>0, <1>1, <3>1, IssueKeeps
    <3>2. CASE q # p /\ RoomOf[q] = r
      BY <1>0, <3>2, IssueKeeps, Unlisted DEF AccessInv, KeysFit
    <3>3. CASE q # p /\ RoomOf[q] # r
      BY <1>0, <1>1, <3>3, IssueKeeps, RoomsAssumption DEF AccessInv, KeysFit
    <3> QED
      BY <3>1, <3>2, <3>3
  <2>3. \A q \in tickets' : issued'[q].password # NoPassword
    BY <1>0, IssueKeeps DEF AccessInv, KeysFit
  <2> QED
    BY <2>1, <2>2, <2>3 DEF KeysFit
<1>5. CreatorsTicket'
  <2> SUFFICES ASSUME NEW q \in Pages
               PROVE  /\ q \in tickets' =>
                            phase'[q] # "new" /\ (Creates(q) => phase'[q] = "ready")
                      /\ Creates(q) /\ (q \in tickets' \/ phase'[q] = "ticket")
                           => /\ RoomOf[q] \notin listed
                              /\ pending'[RoomOf[q]] = issued'[q].password
                              /\ issued'[q].password # NoPassword
    BY <1>0 DEF CreatorsTicket, Creates
  <2>1. CASE q = p
    BY <1>0, <2>1, IssueKeeps, Unlisted
  <2>2. CASE q # p
    <3>1. (q \in tickets' => q \in LiveTickets /\ q \in tickets) /\ issued'[q] = issued[q]
          /\ phase'[q] = phase[q]
      BY <1>0, <2>2, IssueKeeps DEF LiveTickets
    <3>2. Creates(q) => RoomOf[q] \in Rooms \ {r}
      BY <1>0, <2>2, RoomsAssumption DEF Creates
    <3>3. Creates(q) /\ (q \in tickets' \/ phase'[q] = "ticket")
             => pending'[RoomOf[q]] = pending[RoomOf[q]]
      BY <1>0, <3>1, <3>2, IssueKeeps, SweepKeepsReservation
    <3> QED
      BY <3>1, <3>3 DEF AccessInv, CreatorsTicket
  <2> QED
    BY <2>1, <2>2
<1>6. TicketsFitTheirRoom'
  BY <1>0, IssueKeeps DEF AccessInv, TicketsFitTheirRoom, roomVars, Exists, Creates
<1>7. StaleRowsAwaitDeletion' /\ SavedRoomExists'
  BY <1>0 DEF AccessInv, StaleRowsAwaitDeletion, SavedRoomExists, roomVars, rowVars, Exists
<1> QED
  BY <1>2, <1>3, <1>4, <1>5, <1>6, <1>7 DEF AccessInv

LEMMA PrepareAccess ==
    ASSUME TypeOK, AccessInv, NEW p \in Pages, NEW pw \in Passwords,
           PrepareRoomAccess(p, pw)
    PROVE  AccessInv'
<1>1. Asks(p)
  BY DEF PrepareRoomAccess
<1>2. CASE AccessOpenRoom(p)
  <2>1. /\ Sweep /\ UNCHANGED <<roomVars, rowVars, issued, listed>>
        /\ phase[p] = "new" /\ Knows(p) /\ Exists(RoomOf[p])
        /\ phase' = [phase EXCEPT ![p] = "ready"]
    BY <1>1, <1>2 DEF Asks, AccessOpenRoom
  <2> QED
    BY <2>1, SweepAccess
<1>3. CASE AccessDenied(p, pw)
  <2>1. Sweep /\ UNCHANGED <<roomVars, rowVars, issued, listed>> /\ phase' = phase
    BY <1>1, <1>3 DEF Asks, AccessDenied
  <2>2. \/ phase' = phase
        \/ /\ phase[p] = "new" /\ Knows(p) /\ Exists(RoomOf[p])
           /\ phase' = [phase EXCEPT ![p] = "ready"]
    BY <2>1
  <2> QED
    BY <2>1, <2>2, SweepAccess, Zenon
<1>4. CASE AccessGranted(p, pw)
  BY <1>1, <1>4, GrantedAccess
<1>5. CASE AccessReserved(p, pw)
  BY <1>1, <1>5, ReservedAccess
<1> QED
  BY <1>2, <1>3, <1>4, <1>5, Zenon DEF PrepareRoomAccess

(* What an answer of the check rests on.                                   *)
LEMMA AnswerAdmits ==
    ASSUME TypeOK, AccessInv, NEW p \in Pages,
           NEW answer \in {"open", "member", "ticket"}, ValidateRoomAccess(p, answer)
    PROVE  Admitted(UserOf[p], RoomOf[p])'
<1> DEFINE r == RoomOf[p]
<1>0. /\ r \in Rooms /\ UNCHANGED <<host, hash, issued>>
      /\ pending'[r] = LivePending(r)
  BY RoomsAssumption DEF ValidateRoomAccess, roomVars
<1>1. Calm(r)
  BY <1>0, SweepTakes DEF Calm
<1>2. CASE answer = "open"
  <2>1. Lock(r) = NoPassword
    BY <1>2 DEF ValidateRoomAccess
  <2>2. CASE Exists(r)
    BY <1>0, <1>1, <2>1, <2>2 DEF Lock, AccessInv, KeysFit, Admitted, Open, Calm
  <2>3. CASE ~Exists(r)
    BY <1>0, <2>1, <2>3 DEF Lock, TypeOK, Admitted, Open
  <2> QED
    BY <2>2, <2>3
<1>3. CASE answer = "member"
  <2>1. <<r, UserOf[p]>> \in members
    BY <1>3 DEF ValidateRoomAccess, IsMember
  <2>2. Admitted(UserOf[p], r)
    BY <2>1 DEF AccessInv, AllAdmitted
  <2> QED
    BY <1>0, <1>1, <2>2, AdmittedStable
<1>4. CASE answer = "ticket"
  <2>1. p \in tickets
    BY <1>4, SweepTakes DEF ValidateRoomAccess
  <2>2. issued[p].password # NoPassword /\ issued[p].password = Key(r)
    BY <2>1 DEF AccessInv, KeysFit
  <2>3. Admitted(UserOf[p], r)
    BY <2>2 DEF Admitted, Shown
  <2> QED
    BY <1>0, <1>1, <2>3, AdmittedStable
<1> QED
  BY <1>2, <1>3, <1>4

LEMMA ValidateAccess ==
    ASSUME TypeOK, AccessInv, NEW p \in Pages,
           NEW answer \in {"open", "member", "ticket", "ready"},
           ValidateRoomAccess(p, answer)
    PROVE  AccessInv'
<1> DEFINE r == RoomOf[p]
<1>0. /\ UNCHANGED <<roomVars, issued, rowVars, listed>> /\ r \in Rooms
      /\ phase[p] = "ready" /\ phase'[p] = answer
      /\ \A q \in Pages \ {p} : phase'[q] = phase[q]
      /\ tickets' \subseteq LiveTickets /\ LiveTickets \subseteq tickets
      /\ tickets \subseteq Pages
      /\ \A x \in Rooms : pending'[x] = LivePending(x)
      /\ \A x \in Rooms : pending'[x] \in {pending[x], NoPassword}
  BY SweepTakes, RoomsAssumption
  DEF ValidateRoomAccess, TypeOK, PagesTyped, TicketsTyped
<1>1. AllAdmitted'
  <2>1. \A x \in Rooms : Calm(x)
    BY <1>0 DEF Calm, roomVars
  <2>2. ASSUME NEW q \in Pages, PastCheck(q)'
        PROVE  Admitted(UserOf[q], RoomOf[q])'
    <3>1. CASE PastCheck(q)
      BY <2>1, <3>1, AdmittedStable, RoomsAssumption DEF AccessInv, AllAdmitted, PastCheck
    <3>2. CASE ~PastCheck(q)
      <4>1. q = p /\ answer \in {"open", "member", "ticket"}
        BY <1>0, <2>2, <3>2 DEF PastCheck, rowVars, Dialing
      <4> QED
        BY <4>1, AnswerAdmits
    <3> QED
      BY <3>1, <3>2
  <2>3. ASSUME NEW m \in members'
        PROVE  Admitted(m[2], m[1])'
    BY <1>0, <2>1, <2>3, AdmittedStable DEF rowVars, AccessInv, AllAdmitted, TypeOK, RowsTyped
  <2> QED
    BY <2>2, <2>3 DEF AllAdmitted, PastCheck
<1>2. CreatorFirst'
  BY <1>0, RoomsAssumption
  DEF AccessInv, CreatorFirst, roomVars, rowVars, Knows, Exists, Creates
<1>3. KeysFit'
  BY <1>0, RoomsAssumption DEF AccessInv, KeysFit, roomVars, Key, Exists
<1>4. TicketsFitTheirRoom' /\ StaleRowsAwaitDeletion' /\ SavedRoomExists'
  BY <1>0 DEF AccessInv, TicketsFitTheirRoom, StaleRowsAwaitDeletion, SavedRoomExists,
     roomVars, rowVars, Exists, Creates
<1>5. Creates(p) /\ p \in LiveTickets => answer = "ticket" /\ p \notin tickets'
  <2> SUFFICES ASSUME Creates(p), p \in LiveTickets
               PROVE  answer = "ticket" /\ p \notin tickets'
    OBVIOUS
  <2>1. r \notin listed /\ pending[r] # NoPassword
    BY <1>0 DEF AccessInv, CreatorsTicket
  <2>2. ~Exists(r) /\ ~IsMember(p)
    BY <1>0, <2>1 DEF AccessInv, CreatorFirst, IsMember
  <2>3. Lock(r) # NoPassword
    BY <1>0, <2>1, <2>2, SweepKeepsReservation DEF Lock
  <2> QED
    BY <2>2, <2>3 DEF ValidateRoomAccess
<1>6. answer = "ticket" => p \in LiveTickets
  BY DEF ValidateRoomAccess
<1>7. CreatorsTicket'
  <2> SUFFICES ASSUME NEW q \in Pages
               PROVE  /\ q \in tickets' =>
                            phase'[q] # "new" /\ (Creates(q) => phase'[q] = "ready")
                      /\ Creates(q) /\ (q \in tickets' \/ phase'[q] = "ticket")
                           => /\ RoomOf[q] \notin listed
                              /\ pending'[RoomOf[q]] = issued[q].password
                              /\ issued[q].password # NoPassword
    BY <1>0 DEF CreatorsTicket, Creates
  <2>1. Creates(q) /\ (q \in LiveTickets \/ phase[q] = "ticket")
          => pending'[RoomOf[q]] = pending[RoomOf[q]]
    BY <1>0, SweepKeepsReservation, RoomsAssumption
  <2>2. CASE q = p
    BY <1>0, <1>5, <1>6, <2>1, <2>2 DEF AccessInv, CreatorsTicket
  <2>3. CASE q # p
    BY <1>0, <2>1, <2>3 DEF AccessInv, CreatorsTicket
  <2> QED
    BY <2>2, <2>3
<1> QED
  BY <1>1, <1>2, <1>3, <1>4, <1>7 DEF AccessInv

LEMMA PageActionsAccess ==
    ASSUME TypeOK, AccessInv, NEW p \in Pages,
           OpenPage(p) \/ UpgradeFails(p) \/ Evict(p) \/ Unregister(p)
    PROVE  AccessInv'
<1>1. UNCHANGED ruleVars /\ phase' = [phase EXCEPT ![p] = "ready"]
  BY DEF OpenPage, UpgradeFails, Evict, Unregister, ruleVars, roomVars, ticketVars, rowVars
<1>2. \/ UNCHANGED <<emptySince, hub>>
      \/ HubIdle /\ hub' \in {<<>>, <<"forget", p>>}
  BY DEF OpenPage, UpgradeFails, Evict, Unregister, roomVars, rowVars, HubIdle
<1>3. Knows(p)
  <2>1. OpenPage(p) => Knows(p)
    BY DEF OpenPage
  <2>2. ~OpenPage(p) => phase[p] # "new"
    BY RoomsAssumption DEF UpgradeFails, Evict, Unregister, Dialing, TypeOK
  <2> QED
    BY <2>1, <2>2 DEF AccessInv, CreatorFirst
<1> QED
  BY <1>1, <1>2, <1>3, PageAccess

LEMMA RegisterAccess ==
    ASSUME TypeOK, AccessInv, NEW p \in Pages, Register(p)
    PROVE  AccessInv'
<1> DEFINE r == RoomOf[p]
<1>0. /\ r \in Rooms /\ HubIdle /\ phase[p] \in Dialing
      /\ UNCHANGED <<tickets, issued, members, erasing>>
      /\ hub' = <<"save", p>> /\ listed' = listed \cup {r}
      /\ phase'[p] = "in" /\ \A q \in Pages \ {p} : phase'[q] = phase[q]
      /\ emptySince'[r] = 0
  BY RoomsAssumption DEF Register, TypeOK, RoomsTyped, PagesTyped
<1>1. /\ Exists(r)'
      /\ \A x \in Rooms \ {r} : UNCHANGED <<host[x], hash[x], pending[x]>>
      /\ Exists(r) => UNCHANGED <<host[r], hash[r], pending[r]>>
      /\ ~Exists(r) => hash'[r] = pending[r] /\ pending'[r] = NoPassword
  BY <1>0, UserAssumption DEF Register, TypeOK, RoomsTyped, TicketsTyped, Exists
<1>2. Knows(p) /\ phase[p] # "new"
  BY <1>0 DEF AccessInv, CreatorFirst, Dialing
<1>3. AllAdmitted'
  <2>1. \A x \in Rooms : Calm(x)
    BY <1>0, <1>1 DEF Calm
  <2>2. ASSUME NEW q \in Pages, PastCheck(q)'
        PROVE  Admitted(UserOf[q], RoomOf[q])'
    <3>1. PastCheck(q)
      BY <1>0, <2>2 DEF PastCheck
    <3> QED
      BY <2>1, <3>1, AdmittedStable, RoomsAssumption DEF AccessInv, AllAdmitted, PastCheck
  <2>3. ASSUME NEW m \in members'
        PROVE  Admitted(m[2], m[1])'
    BY <1>0, <2>1, <2>3, AdmittedStable DEF AccessInv, AllAdmitted, TypeOK, RowsTyped
  <2> QED
    BY <2>2, <2>3 DEF AllAdmitted, PastCheck
<1>4. CreatorFirst'
  <2>1. \A x \in Rooms : phase'[CreatorOf[x]] = "new" => x \notin listed'
    BY <1>0, <1>2, RoomsAssumption DEF AccessInv, CreatorFirst, Knows, Creates
  <2>2. \A x \in Rooms : Exists(x)' => x \in listed'
    BY <1>0, <1>1 DEF AccessInv, CreatorFirst, Exists
  <2>3. \A q \in Pages : Knows(q)' \/ phase'[q] = "new"
    BY <1>0, <1>2 DEF AccessInv, CreatorFirst, Knows, Creates
  <2>4. \A m \in members' : m[1] \in listed'
    BY <1>0 DEF AccessInv, CreatorFirst
  <2>5. \A q \in Pages : hub' = <<"save", q>> => RoomOf[q] \in listed'
    BY <1>0
  <2> QED
    BY <2>1, <2>2, <2>3, <2>4, <2>5 DEF CreatorFirst
<1>5. KeysFit'
  <2>1. \A x \in Rooms : /\ hash'[x] \in {NoPassword, Key(x)}
                         /\ pending'[x] \in {NoPassword, Key(x)}
                         /\ Exists(x)' => pending'[x] = NoPassword
    BY <1>1 DEF AccessInv, KeysFit, Exists
  <2>2. \A q \in Pages : phase'[q] = "new" => issued[q].password = NoPassword
    BY <1>0 DEF AccessInv, KeysFit
  <2> QED
    BY <1>0, <2>1, <2>2 DEF AccessInv, KeysFit, Key
<1>6. CreatorsTicket'
  <2> SUFFICES ASSUME NEW q \in Pages
               PROVE  /\ q \in tickets =>
                            phase'[q] # "new" /\ (Creates(q) => phase'[q] = "ready")
                      /\ Creates(q) /\ (q \in tickets \/ phase'[q] = "ticket")
                           => /\ RoomOf[q] \notin listed'
                              /\ pending'[RoomOf[q]] = issued[q].password
                              /\ issued[q].password # NoPassword
    BY <1>0 DEF CreatorsTicket, Creates
  <2>1. CASE q = p
    BY <1>0, <2>1 DEF AccessInv, CreatorsTicket, Dialing
  <2>2. CASE q # p
    <3>1. phase'[q] = phase[q]
      BY <1>0, <2>2
    <3>2. Creates(q) /\ RoomOf[q] \notin listed => RoomOf[q] \in Rooms \ {r}
      BY <1>2, <2>2, RoomsAssumption DEF Knows, Creates
    <3> QED
      BY <1>0, <1>1, <3>1, <3>2 DEF AccessInv, CreatorsTicket
  <2> QED
    BY <2>1, <2>2
<1>7. TicketsFitTheirRoom'
  BY <1>0, <1>1, RoomsAssumption DEF AccessInv, TicketsFitTheirRoom, Exists, Creates, TypeOK,
     TicketsTyped
<1>8. StaleRowsAwaitDeletion'
  <2> SUFFICES ASSUME NEW m \in members, ~Exists(m[1])'
               PROVE  erasing[m[1]] > 0
    BY <1>0 DEF StaleRowsAwaitDeletion
  <2>1. m[1] \in Rooms
    BY DEF TypeOK, RowsTyped
  <2>2. ~Exists(m[1])
    BY <1>1, <2>1 DEF Exists
  <2> QED
    BY <1>0, <2>2 DEF AccessInv, StaleRowsAwaitDeletion, HubIdle
<1>9. SavedRoomExists'
  BY <1>0, <1>1 DEF SavedRoomExists
<1> QED
  BY <1>3, <1>4, <1>5, <1>6, <1>7, <1>8, <1>9 DEF AccessInv

LEMMA SaveAccess ==
    ASSUME TypeOK, AccessInv, NEW p \in Pages, SaveRoomMember(p)
    PROVE  AccessInv'
<1> DEFINE row == <<RoomOf[p], UserOf[p]>>
<1>0. /\ UNCHANGED <<host, hash, pending, tickets, issued, erasing, phase, listed>>
      /\ hub = <<"save", p>> /\ hub' = <<>> /\ members' = members \cup {row}
  BY DEF SaveRoomMember, roomVars, ticketVars
<1>1. AllAdmitted'
  <2>1. \A x \in Rooms : Calm(x)
    BY <1>0 DEF Calm
  <2>2. ASSUME NEW q \in Pages, PastCheck(q)'
        PROVE  Admitted(UserOf[q], RoomOf[q])'
    <3>1. PastCheck(q)
      BY <1>0, <2>2 DEF PastCheck
    <3> QED
      BY <2>1, <3>1, AdmittedStable, RoomsAssumption DEF AccessInv, AllAdmitted, PastCheck
  <2>3. ASSUME NEW m \in members'
        PROVE  Admitted(m[2], m[1])'
    <3>1. CASE m \in members
      BY <2>1, <3>1, AdmittedStable DEF AccessInv, AllAdmitted, TypeOK, RowsTyped
    <3>2. CASE m = row
      BY <1>0, <2>1, <3>2, AdmittedStable, RoomsAssumption DEF AccessInv, AllAdmitted
    <3> QED
      BY <1>0, <2>3, <3>1, <3>2
  <2> QED
    BY <2>2, <2>3 DEF AllAdmitted, PastCheck
<1>2. CreatorFirst'
  BY <1>0 DEF AccessInv, CreatorFirst, Knows, Exists, Creates
<1>3. KeysFit' /\ CreatorsTicket' /\ TicketsFitTheirRoom'
  BY <1>0 DEF AccessInv, KeysFit, CreatorsTicket, TicketsFitTheirRoom, Key, Exists, Creates
<1>4. StaleRowsAwaitDeletion'
  BY <1>0 DEF AccessInv, StaleRowsAwaitDeletion, SavedRoomExists, Exists
<1>5. SavedRoomExists'
  BY <1>0 DEF SavedRoomExists
<1> QED
  BY <1>1, <1>2, <1>3, <1>4, <1>5 DEF AccessInv

(* Rows go, and those that stay are still accounted for.                   *)
LEMMA RowsAccess ==
    ASSUME TypeOK, AccessInv, members' \subseteq members, hub' \in {hub, <<>>},
           UNCHANGED <<roomVars, ticketVars, phase, listed>>, StaleRowsAwaitDeletion'
    PROVE  AccessInv'
<1>0. \A q \in Pages : hub' = <<"save", q>> => hub = <<"save", q>>
  OBVIOUS
<1>1. AllAdmitted'
  <2>1. \A x \in Rooms : Calm(x)
    BY DEF Calm, roomVars, ticketVars
  <2>2. \A q \in Pages : PastCheck(q)' => PastCheck(q)
    BY <1>0 DEF PastCheck
  <2> QED
    BY <2>1, <2>2, AdmittedKept DEF AccessInv
<1>2. CreatorFirst'
  BY <1>0 DEF AccessInv, CreatorFirst, Knows, Exists, Creates, roomVars
<1>3. KeysFit' /\ CreatorsTicket' /\ TicketsFitTheirRoom' /\ SavedRoomExists'
  BY <1>0 DEF AccessInv, KeysFit, CreatorsTicket, TicketsFitTheirRoom, SavedRoomExists, Key,
     Exists, Creates, roomVars, ticketVars
<1> QED
  BY <1>1, <1>2, <1>3 DEF AccessInv

LEMMA DeletePersistentRoomAccess ==
    ASSUME TypeOK, AccessInv, NEW p \in Pages, DeletePersistentRoom(p)
    PROVE  AccessInv'
<1>0. /\ hub = <<"erase", p>> /\ hub' = <<>>
      /\ UNCHANGED <<roomVars, ticketVars, phase, listed, erasing>>
      /\ members' \subseteq members /\ \A m \in members' : m[1] # RoomOf[p]
  BY DEF DeletePersistentRoom, RowsOf
<1>1. StaleRowsAwaitDeletion'
  BY <1>0 DEF AccessInv, StaleRowsAwaitDeletion, Exists, roomVars
<1> QED
  BY <1>0, <1>1, RowsAccess

LEMMA DeleteRoomMemberAccess ==
    ASSUME TypeOK, AccessInv, NEW p \in Pages, DeleteRoomMember(p)
    PROVE  AccessInv'
<1>0. /\ hub = <<"forget", p>> /\ hub' = <<>>
      /\ UNCHANGED <<roomVars, ticketVars, phase, listed, erasing>>
      /\ members' \subseteq members
  BY DEF DeleteRoomMember
<1>1. StaleRowsAwaitDeletion'
  BY <1>0 DEF AccessInv, StaleRowsAwaitDeletion, Exists, roomVars
<1> QED
  BY <1>0, <1>1, RowsAccess

LEMMA CleanupRowsAccess ==
    ASSUME TypeOK, AccessInv, NEW r \in Rooms, CleanupRows(r)
    PROVE  AccessInv'
<1>0. /\ UNCHANGED <<roomVars, ticketVars, phase, listed, hub>>
      /\ members' \subseteq members /\ \A m \in members' : m[1] # r
      /\ \A x \in Rooms \ {r} : erasing'[x] = erasing[x]
  BY DEF CleanupRows, RowsOf, TypeOK, RowsTyped
<1>1. StaleRowsAwaitDeletion'
  BY <1>0 DEF AccessInv, StaleRowsAwaitDeletion, Exists, roomVars, TypeOK, RowsTyped
<1> QED
  BY <1>0, <1>1, RowsAccess

(* A room goes: somebody is about to delete its rows.                      *)
LEMMA ForgetAccess ==
    ASSUME TypeOK, AccessInv, NEW r \in Rooms, Exists(r), Forget(r),
           UNCHANGED <<issued, members, listed>>,
           \A q \in Pages : \/ phase'[q] = phase[q]
                            \/ RoomOf[q] = r /\ phase[q] = "in" /\ phase'[q] = "gone",
           \A q \in Pages : hub' = <<"save", q>> => hub = hub' /\ RoomOf[q] # r,
           \A q \in Pages : hub = <<"erase", q>> => hub' = hub,
           \A x \in Rooms : erasing[x] > 0 => erasing'[x] > 0,
           erasing'[r] > 0 \/ \E q \in Pages : RoomOf[q] = r /\ hub' = <<"erase", q>>
    PROVE  AccessInv'
<1>0. /\ ~Exists(r)' /\ hash'[r] = NoPassword /\ pending'[r] = NoPassword
      /\ \A x \in Rooms \ {r} :
           UNCHANGED <<host[x], hash[x], pending[x], emptySince[x]>>
      /\ tickets' = {q \in tickets : RoomOf[q] # r} /\ tickets \subseteq Pages
  BY DEF Forget, Exists, TypeOK, RoomsTyped, TicketsTyped
<1>1. AllAdmitted'
  <2>1. \A x \in Rooms : Calm(x)
    BY <1>0 DEF Calm
  <2>2. \A q \in Pages : PastCheck(q)' => PastCheck(q)
    BY DEF PastCheck, Dialing
  <2> QED
    BY <2>1, <2>2, AdmittedKept DEF AccessInv
<1>2. CreatorFirst'
  <2>1. \A x \in Rooms : phase'[CreatorOf[x]] = "new" => x \notin listed
    BY RoomsAssumption DEF AccessInv, CreatorFirst
  <2>2. \A x \in Rooms : Exists(x)' => x \in listed
    BY <1>0 DEF AccessInv, CreatorFirst, Exists
  <2>3. \A q \in Pages : Knows(q)' \/ phase'[q] = "new"
    BY DEF AccessInv, CreatorFirst, Knows, Creates
  <2>4. \A q \in Pages : hub' = <<"save", q>> => RoomOf[q] \in listed
    BY DEF AccessInv, CreatorFirst
  <2> QED
    BY <2>1, <2>2, <2>3, <2>4 DEF AccessInv, CreatorFirst
<1>3. KeysFit'
  <2>1. \A x \in Rooms : /\ hash'[x] \in {NoPassword, Key(x)}
                         /\ pending'[x] \in {NoPassword, Key(x)}
                         /\ Exists(x)' => pending'[x] = NoPassword
    BY <1>0 DEF AccessInv, KeysFit, Exists
  <2>2. \A q \in Pages : phase'[q] = "new" => issued[q].password = NoPassword
    BY DEF AccessInv, KeysFit
  <2> QED
    BY <1>0, <2>1, <2>2 DEF AccessInv, KeysFit, Key
<1>4. CreatorsTicket'
  <2> SUFFICES ASSUME NEW q \in Pages
               PROVE  /\ q \in tickets' =>
                            phase'[q] # "new" /\ (Creates(q) => phase'[q] = "ready")
                      /\ Creates(q) /\ (q \in tickets' \/ phase'[q] = "ticket")
                           => /\ RoomOf[q] \notin listed
                              /\ pending'[RoomOf[q]] = issued[q].password
                              /\ issued[q].password # NoPassword
    BY DEF CreatorsTicket, Creates
  <2>1. r \in listed
    BY DEF AccessInv, CreatorFirst
  <2>2. phase'[q] \in {phase[q], "gone"} /\ (RoomOf[q] # r => phase'[q] = phase[q])
    OBVIOUS
  <2>3. Creates(q) /\ RoomOf[q] # r => pending'[RoomOf[q]] = pending[RoomOf[q]]
    BY <1>0, RoomsAssumption
  <2> QED
    BY <1>0, <2>1, <2>2, <2>3 DEF AccessInv, CreatorsTicket
<1>5. TicketsFitTheirRoom'
  BY <1>0, RoomsAssumption DEF AccessInv, TicketsFitTheirRoom, Exists, Creates
<1>6. StaleRowsAwaitDeletion'
  <2> SUFFICES ASSUME NEW m \in members, ~Exists(m[1])'
               PROVE  \/ erasing'[m[1]] > 0
                      \/ \E q \in Pages : RoomOf[q] = m[1] /\ hub' = <<"erase", q>>
    BY DEF StaleRowsAwaitDeletion
  <2>1. m[1] \in Rooms
    BY DEF TypeOK, RowsTyped
  <2>2. CASE m[1] = r
    BY <2>2
  <2>3. CASE m[1] # r
    <3>1. ~Exists(m[1])
      BY <1>0, <2>1, <2>3 DEF Exists
    <3>2. CASE erasing[m[1]] > 0
      BY <2>1, <3>2
    <3>3. CASE \E q \in Pages : RoomOf[q] = m[1] /\ hub = <<"erase", q>>
      BY <3>3
    <3> QED
      BY <3>1, <3>2, <3>3 DEF AccessInv, StaleRowsAwaitDeletion
  <2> QED
    BY <2>2, <2>3
<1>7. SavedRoomExists'
  BY <1>0, RoomsAssumption DEF AccessInv, SavedRoomExists, Exists
<1> QED
  BY <1>1, <1>2, <1>3, <1>4, <1>5, <1>6, <1>7 DEF AccessInv

LEMMA LeaveAccess ==
    ASSUME TypeOK, AccessInv, NEW p \in Pages, Leave(p)
    PROVE  AccessInv'
<1>0. /\ RoomOf[p] \in Rooms /\ HubIdle /\ p \in inside[RoomOf[p]]
      /\ phase' = [phase EXCEPT ![p] = "gone"] /\ UNCHANGED <<issued, members, erasing, listed>>
  BY RoomsAssumption DEF Leave
<1>1. phase[p] = "in" /\ Exists(RoomOf[p])
  BY <1>0 DEF TypeOK
<1>2. CASE LeaveLast(p)
  <2>1. Forget(RoomOf[p]) /\ hub' = <<"erase", p>>
    BY <1>2 DEF LeaveLast
  <2>2. \A q \in Pages : \/ phase'[q] = phase[q]
                         \/ RoomOf[q] = RoomOf[p] /\ phase[q] = "in" /\ phase'[q] = "gone"
    BY <1>0, <1>1 DEF TypeOK, PagesTyped
  <2>3. \A q \in Pages : hub' = <<"save", q>> => hub = hub' /\ RoomOf[q] # RoomOf[p]
    BY <2>1
  <2>4. \A q \in Pages : hub = <<"erase", q>> => hub' = hub
    BY <1>0 DEF HubIdle
  <2>5. \A x \in Rooms : erasing[x] > 0 => erasing'[x] > 0
    BY <1>0
  <2>6. \E q \in Pages : RoomOf[q] = RoomOf[p] /\ hub' = <<"erase", q>>
    BY <2>1
  <2> QED
    BY <1>0, <1>1, <2>1, <2>2, <2>3, <2>4, <2>5, <2>6, ForgetAccess
<1>3. CASE LeaveOthers(p)
  <2>1. UNCHANGED ruleVars /\ hub' = <<"forget", p>>
    BY <1>0, <1>3 DEF LeaveOthers, ruleVars
  <2>2. Knows(p)
    BY <1>1 DEF AccessInv, CreatorFirst
  <2> QED
    BY <1>0, <1>1, <2>1, <2>2, PageAccess
<1> QED
  BY <1>2, <1>3 DEF Leave

LEMMA CleanupAccess ==
    ASSUME TypeOK, AccessInv, NEW r \in Rooms, NEW since \in 1..MaxTime,
           Cleanup(r, since)
    PROVE  AccessInv'
<1>0. UNCHANGED <<issued, members, hub, phase, listed>>
  BY DEF Cleanup
<1>1. CASE Exists(r) /\ inside[r] = {} /\ emptySince[r] = since
  <2>1. Forget(r) /\ erasing' = [erasing EXCEPT ![r] = @ + 1]
    BY <1>1 DEF Cleanup
  <2>2. \A x \in Rooms : erasing[x] > 0 => erasing'[x] > 0
    BY <2>1 DEF TypeOK, RowsTyped
  <2>3. erasing'[r] > 0
    BY <2>1 DEF TypeOK, RowsTyped
  <2>4. since # 0
    OBVIOUS
  <2>5. \A q \in Pages : hub' = <<"save", q>> => hub = hub' /\ RoomOf[q] # r
    BY <1>0, <1>1, <2>4 DEF AccessInv, SavedRoomExists
  <2> QED
    BY <1>0, <1>1, <2>1, <2>2, <2>3, <2>5, ForgetAccess
<1>2. CASE ~(Exists(r) /\ inside[r] = {} /\ emptySince[r] = since)
  <2>1. UNCHANGED <<roomVars, ticketVars, phase, listed, members, erasing, hub>>
    BY <1>0, <1>2 DEF Cleanup, ticketVars
  <2>2. StaleRowsAwaitDeletion'
    BY <2>1 DEF AccessInv, StaleRowsAwaitDeletion, Exists, roomVars
  <2> QED
    BY <2>1, <2>2, RowsAccess
<1> QED
  BY <1>1, <1>2

LEMMA TickAccess ==
    ASSUME TypeOK, AccessInv, Tick \/ UNCHANGED vars
    PROVE  AccessInv'
<1>1. UNCHANGED <<roomVars, ticketVars, phase, listed, members, erasing, hub>>
  BY DEF Tick, vars, rowVars
<1>2. StaleRowsAwaitDeletion'
  BY <1>1 DEF AccessInv, StaleRowsAwaitDeletion, Exists, roomVars
<1> QED
  BY <1>1, <1>2, RowsAccess

LEMMA StepAccess == TypeOK /\ AccessInv /\ [Next]_vars => AccessInv'
  BY PageActionsAccess, PrepareAccess, ValidateAccess, RegisterAccess, LeaveAccess,
     SaveAccess, DeletePersistentRoomAccess, DeleteRoomMemberAccess, CleanupAccess,
     CleanupRowsAccess, TickAccess, Zenon DEF Next

LEMMA AccessCorrect == Spec => []AccessInv
  BY InitAccess, StepAccess, TypeCorrect, PTL DEF Spec

(* Whoever is in a protected room has shown the password the room has now. *)
LEMMA InsideHoldKey == TypeOK /\ AccessInv => KeyHolders
<1> SUFFICES ASSUME TypeOK, AccessInv, NEW r \in Rooms, hash[r] # NoPassword,
                    NEW p \in inside[r]
             PROVE  Shown(UserOf[p], r, hash[r])
  BY DEF KeyHolders
<1>1. p \in Pages /\ RoomOf[p] = r /\ phase[p] = "in"
  BY DEF TypeOK, RoomsTyped
<1>2. Admitted(UserOf[p], r)
  BY <1>1 DEF AccessInv, AllAdmitted
<1>3. hash[r] = Key(r)
  BY DEF AccessInv, KeysFit
<1> QED
  BY <1>2, <1>3 DEF Admitted, Open

LEMMA ReservedWhileTicket == AccessInv => ReservationHolds
  BY DEF AccessInv, CreatorsTicket, ReservationHolds

(* Through every interleaving of the check, the hub and the row deletions, *)
(* a protected room holds only users who have shown its password.          *)
THEOREM InsideHold == Spec => []KeyHolders
  BY InsideHoldKey, TypeCorrect, AccessCorrect, PTL

(* No ticket outlives its room: the purge of AccessTickets is complete.    *)
THEOREM TicketsFit == Spec => []TicketsFitTheirRoom
<1>1. AccessInv => TicketsFitTheirRoom
  BY DEF AccessInv
<1> QED
  BY <1>1, AccessCorrect, PTL

(* The password a creator reserved waits for it as long as its ticket does. *)
THEOREM ReservationKept == Spec => []ReservationHolds
  BY ReservedWhileTicket, AccessCorrect, PTL

(* Memberships of a room that is gone are on their way out.                *)
THEOREM StaleRowsGo == Spec => []StaleRowsAwaitDeletion
<1>1. AccessInv => StaleRowsAwaitDeletion
  BY DEF AccessInv
<1> QED
  BY <1>1, AccessCorrect, PTL
=============================================================================
