---------------------------- MODULE RoomAccess ----------------------------
(***************************************************************************)
(* Who may enter a password-protected room: the access tickets of          *)
(* src/backend/room/access.go, the check of handlers/ws.go before the      *)
(* websocket upgrade, the hub's part in creating and forgetting rooms, and *)
(* the durable memberships (table room_members) that let a client back in. *)
(*                                                                         *)
(* A page is one browser page that shows a room (App.tsx, activeRoom).  It *)
(* may first ask for a ticket with a password, then dials, and dials again *)
(* with the same ticket whenever its connection ends.  Room ids are random *)
(* and made by the page that creates the room, so nobody else knows an id  *)
(* before the room is listed.  A user stands for a username with its       *)
(* client id, the pair a ticket and a membership are bound to.             *)
(*                                                                         *)
(* One life of the process: a restart, and the rows it starts from, are    *)
(* the matter of RoomDurability in the README's plan.  Rooms prepared for  *)
(* events never have a password and are left out here.                     *)
(***************************************************************************)
EXTENDS Integers, FiniteSets

CONSTANTS
    Pages,      \* pages that show a room
    Rooms,      \* room ids
    RoomOf,     \* the room a page shows
    UserOf,     \* the user of a page
    CreatorOf,  \* the page that generated a room id
    Passwords,  \* passwords of at least four characters
    NoPassword, \* an empty hash: the room is open
    NoUser,     \* HostUsername of an id that is not in h.Rooms
    Lifetime,   \* ExpiresAt - creation of a ticket (45 s)
    Grace,      \* emptyRoomGracePeriod
    Limit,      \* rooms a user may host when asking for another (3)
    MaxTime     \* bound: the clock stops here

ASSUME RoomsAssumption ==
    /\ \A p \in Pages : RoomOf[p] \in Rooms
    /\ \A r \in Rooms : CreatorOf[r] \in Pages /\ RoomOf[CreatorOf[r]] = r
ASSUME PasswordAssumption == NoPassword \notin Passwords
ASSUME UserAssumption     == \A p \in Pages : UserOf[p] # NoUser
ASSUME AccessTimes        == Lifetime \in Nat /\ Grace \in Nat /\ MaxTime \in Nat

VARIABLES
    host,       \* Room.HostUsername, NoUser when the id is not in h.Rooms
    hash,       \* Room.PasswordHash
    inside,     \* Room.Clients
    emptySince, \* Room.EmptySince
    pending,    \* h.PendingPasswords
    tickets,    \* h.AccessTickets: the pages whose ticket is in the map
    issued,     \* per page: password and expiry of the ticket it was given
    members,    \* table room_members
    hub,        \* the database call Hub.Run is about to make
    timers,     \* sleeping scheduleEmptyRoomCleanup goroutines
    erasing,    \* number of such goroutines about to delete a room's rows
    phase,      \* per page: where it is, and while it dials, what let it in
    listed,     \* ids that have been in the list of rooms
    now

roomVars   == <<host, hash, inside, emptySince>>
ticketVars == <<pending, tickets, issued>>
rowVars    == <<members, hub, timers, erasing>>
vars == <<roomVars, ticketVars, rowVars, phase, listed, now>>

Users    == {UserOf[p] : p \in Pages}
NoTicket == [password |-> NoPassword, expires |-> 0]
HubIdle  == hub = <<>>
Dialing  == {"open", "member", "ticket"}
Phases   == Dialing \cup {"new", "ready", "in", "gone"}

Exists(r)  == host[r] # NoUser
Creates(p) == CreatorOf[RoomOf[p]] = p
Knows(p)   == Creates(p) \/ RoomOf[p] \in listed

-----------------------------------------------------------------------------
(***************************************************************************)
(* cleanupExpiredTicketsLocked, which every request runs first.            *)
(***************************************************************************)
Expired     == {p \in tickets : now > issued[p].expires}
LiveTickets == tickets \ Expired

(* Mutant of LivePending: any ticket that expires takes the password along. *)
LivePendingNone(r) ==
    IF Expired # {} /\ ~Exists(r) THEN NoPassword ELSE pending[r]

LivePending(r) ==
    IF ~Exists(r) /\ \E p \in Expired : RoomOf[p] = r
      THEN NoPassword ELSE pending[r]

Sweep ==
    /\ tickets' = LiveTickets
    /\ pending' = [r \in Rooms |-> LivePending(r)]

Hosted(u) == Cardinality({r \in Rooms : host[r] = u})
           + Cardinality({p \in LiveTickets :
                            UserOf[p] = u /\ ~Exists(RoomOf[p])})

(* A ticket for page p, written beside the swept ones.                     *)
Issue(p, pw) ==
    /\ tickets' = LiveTickets \cup {p}
    /\ issued' = [issued EXCEPT ![p] = [password |-> pw,
                                        expires |-> now + Lifetime]]
    /\ phase' = [phase EXCEPT ![p] = "ready"]

(***************************************************************************)
(* Looking up what protects a room: its own hash when it exists, else the  *)
(* password reserved for its creation.                                     *)
(***************************************************************************)
LockPendingOnly(r) == LivePending(r)                  \* mutant of Lock

Lock(r) == IF Exists(r) THEN hash[r] ELSE LivePending(r)

IsMember(p) == <<RoomOf[p], UserOf[p]>> \in members

-----------------------------------------------------------------------------
Init ==
    /\ host = [r \in Rooms |-> NoUser]
    /\ hash = [r \in Rooms |-> NoPassword]
    /\ inside = [r \in Rooms |-> {}]
    /\ emptySince = [r \in Rooms |-> 0]
    /\ pending = [r \in Rooms |-> NoPassword]
    /\ tickets = {}
    /\ issued = [p \in Pages |-> NoTicket]
    /\ members = {}
    /\ hub = <<>>
    /\ timers = {}
    /\ erasing = [r \in Rooms |-> 0]
    /\ phase = [p \in Pages |-> "new"]
    /\ listed = {}
    /\ now = 1

(* The user gave no password: the page dials without a ticket.             *)
OpenPage(p) ==
    /\ phase[p] = "new"
    /\ Knows(p)
    /\ phase' = [phase EXCEPT ![p] = "ready"]
    /\ UNCHANGED <<roomVars, ticketVars, rowVars, listed, now>>

(***************************************************************************)
(* PrepareRoomAccess, the handler of POST /rooms/access.                   *)
(***************************************************************************)
Asks(p) ==
    /\ phase[p] = "new"
    /\ Knows(p)
    /\ UNCHANGED <<roomVars, rowVars, listed, now>>

AccessOpenRoom(p) ==
    LET r == RoomOf[p] IN
    /\ Exists(r) /\ hash[r] = NoPassword
    /\ Sweep
    /\ phase' = [phase EXCEPT ![p] = "ready"]
    /\ UNCHANGED issued

AccessGranted(p, pw) ==
    LET r == RoomOf[p] IN
    /\ Exists(r) /\ hash[r] = pw
    /\ Issue(p, pw)
    /\ pending' = [x \in Rooms |-> LivePending(x)]

AccessReserved(p, pw) ==
    LET r == RoomOf[p] IN
    /\ ~Exists(r) /\ Creates(p)
    /\ Hosted(UserOf[p]) < Limit
    /\ Issue(p, pw)
    /\ pending' = [x \in Rooms |-> IF x = r THEN pw ELSE LivePending(x)]

(* Wrong password, too many rooms, or no such room: only the sweep stays.  *)
AccessDenied(p, pw) ==
    LET r == RoomOf[p] IN
    /\ IF Exists(r) THEN hash[r] \notin {NoPassword, pw}
                    ELSE Creates(p) => Hosted(UserOf[p]) >= Limit
    /\ Sweep
    /\ UNCHANGED <<issued, phase>>

PrepareRoomAccess(p, pw) ==
    /\ Asks(p)
    /\ \/ AccessOpenRoom(p)
       \/ AccessGranted(p, pw)
       \/ AccessReserved(p, pw)
       \/ AccessDenied(p, pw)

(***************************************************************************)
(* WSHandler up to the upgrade: ValidateRoomAccess.  An open room asks for *)
(* nothing, a member needs no ticket, a ticket serves once.                *)
(***************************************************************************)
ValidateRoomAccess(p, answer) ==
    LET locked == Lock(RoomOf[p]) # NoPassword IN
    /\ phase[p] = "ready"
    /\ pending' = [r \in Rooms |-> LivePending(r)]
    /\ \/ /\ answer = "open"
          /\ ~locked
          /\ tickets' = LiveTickets
       \/ /\ answer = "member"
          /\ locked /\ IsMember(p)
          /\ tickets' = LiveTickets
       \/ /\ answer = "ticket"
          /\ locked /\ ~IsMember(p) /\ p \in LiveTickets
          /\ tickets' = LiveTickets \ {p}
       \/ /\ answer = "ready"
          /\ locked /\ ~IsMember(p) /\ p \notin LiveTickets
          /\ tickets' = LiveTickets
    /\ phase' = [phase EXCEPT ![p] = answer]
    /\ UNCHANGED <<roomVars, issued, rowVars, listed, now>>

(* The upgrade fails and ServeWs returns; a ticket is spent all the same.   *)
UpgradeFails(p) ==
    /\ phase[p] \in Dialing
    /\ phase' = [phase EXCEPT ![p] = "ready"]
    /\ UNCHANGED <<roomVars, ticketVars, rowVars, listed, now>>

-----------------------------------------------------------------------------
(***************************************************************************)
(* Hub.Run.  The maps change under h.Mutex; the rows change afterwards, in *)
(* the hub goroutine, which takes no other request before it is done.      *)
(***************************************************************************)
Register(p) ==
    LET r == RoomOf[p] IN
    /\ HubIdle /\ phase[p] \in Dialing
    /\ host' = [host EXCEPT ![r] = IF Exists(r) THEN @ ELSE UserOf[p]]
    /\ hash' = [hash EXCEPT ![r] = IF Exists(r) THEN @ ELSE pending[r]]
    /\ pending' = [pending EXCEPT ![r] = IF Exists(r) THEN @ ELSE NoPassword]
    /\ inside' = [inside EXCEPT ![r] = @ \cup {p}]
    /\ emptySince' = [emptySince EXCEPT ![r] = 0]
    /\ hub' = <<"save", p>>
    /\ phase' = [phase EXCEPT ![p] = "in"]
    /\ listed' = listed \cup {r}
    /\ UNCHANGED <<tickets, issued, members, timers, erasing, now>>

SaveRoomMember(p) ==
    /\ hub = <<"save", p>>
    /\ members' = members \cup {<<RoomOf[p], UserOf[p]>>}
    /\ hub' = <<>>
    /\ UNCHANGED <<roomVars, ticketVars, timers, erasing, phase, listed, now>>

(* What the maps of the hub lose with an empty room.                       *)
ForgetKeepsTickets(r) ==                              \* mutant of Forget
    /\ host' = [host EXCEPT ![r] = NoUser]
    /\ hash' = [hash EXCEPT ![r] = NoPassword]
    /\ inside' = [inside EXCEPT ![r] = {}]
    /\ emptySince' = [emptySince EXCEPT ![r] = 0]
    /\ pending' = [pending EXCEPT ![r] = NoPassword]
    /\ UNCHANGED tickets

Forget(r) ==
    /\ host' = [host EXCEPT ![r] = NoUser]
    /\ hash' = [hash EXCEPT ![r] = NoPassword]
    /\ inside' = [inside EXCEPT ![r] = {}]
    /\ emptySince' = [emptySince EXCEPT ![r] = 0]
    /\ pending' = [pending EXCEPT ![r] = NoPassword]
    /\ tickets' = {p \in tickets : RoomOf[p] # r}

(* case client := <-h.Unregister: the page will dial again.                *)
Unregister(p) ==
    LET r == RoomOf[p] IN
    /\ HubIdle /\ p \in inside[r]
    /\ inside' = [inside EXCEPT ![r] = @ \ {p}]
    /\ IF inside[r] = {p}
         THEN /\ emptySince' = [emptySince EXCEPT ![r] = now]
              /\ timers' = timers \cup {<<r, now>>}
         ELSE UNCHANGED <<emptySince, timers>>
    /\ phase' = [phase EXCEPT ![p] = "ready"]
    /\ UNCHANGED <<host, hash, ticketVars, members, hub, erasing,
                   listed, now>>

(* BroadcastRoomState drops a client whose channel is full, on any thread; *)
(* the room is not marked empty, and Unregister later finds nothing to do. *)
Evict(p) ==
    /\ p \in inside[RoomOf[p]]
    /\ inside' = [inside EXCEPT ![RoomOf[p]] = @ \ {p}]
    /\ phase' = [phase EXCEPT ![p] = "ready"]
    /\ UNCHANGED <<host, hash, emptySince, ticketVars, rowVars, listed, now>>

(* removeClientPermanently: the user left.                                 *)
LeaveLast(p) ==
    /\ inside[RoomOf[p]] = {p}
    /\ Forget(RoomOf[p])
    /\ hub' = <<"erase", p>>

LeaveOthers(p) ==
    /\ inside[RoomOf[p]] # {p}
    /\ inside' = [inside EXCEPT ![RoomOf[p]] = @ \ {p}]
    /\ hub' = <<"forget", p>>
    /\ UNCHANGED <<host, hash, emptySince, pending, tickets>>

Leave(p) ==
    /\ HubIdle /\ p \in inside[RoomOf[p]]
    /\ LeaveLast(p) \/ LeaveOthers(p)
    /\ phase' = [phase EXCEPT ![p] = "gone"]
    /\ UNCHANGED <<issued, members, timers, erasing, listed, now>>

RowsOf(r) == {m \in members : m[1] = r}

DeletePersistentRoom(p) ==
    /\ hub = <<"erase", p>>
    /\ members' = members \ RowsOf(RoomOf[p])
    /\ hub' = <<>>
    /\ UNCHANGED <<roomVars, ticketVars, timers, erasing, phase, listed, now>>

DeleteRoomMember(p) ==
    /\ hub = <<"forget", p>>
    /\ members' = members \ {<<RoomOf[p], UserOf[p]>>}
    /\ hub' = <<>>
    /\ UNCHANGED <<roomVars, ticketVars, timers, erasing, phase, listed, now>>

-----------------------------------------------------------------------------
(* scheduleEmptyRoomCleanup wakes up: the maps first ...                   *)
CleanupMapsOnly(r, since) ==                          \* mutant of Cleanup
    /\ <<r, since>> \in timers /\ now >= since + Grace
    /\ timers' = timers \ {<<r, since>>}
    /\ IF Exists(r) /\ inside[r] = {} /\ emptySince[r] = since
         THEN Forget(r)
         ELSE UNCHANGED <<roomVars, pending, tickets>>
    /\ UNCHANGED <<issued, members, hub, erasing, phase, listed, now>>

Cleanup(r, since) ==
    /\ <<r, since>> \in timers /\ now >= since + Grace
    /\ timers' = timers \ {<<r, since>>}
    /\ IF Exists(r) /\ inside[r] = {} /\ emptySince[r] = since
         THEN Forget(r) /\ erasing' = [erasing EXCEPT ![r] = @ + 1]
         ELSE UNCHANGED <<roomVars, pending, tickets, erasing>>
    /\ UNCHANGED <<issued, members, hub, phase, listed, now>>

(* ... and, after h.Mutex is released, the rows.                           *)
CleanupRows(r) ==
    /\ erasing[r] > 0
    /\ erasing' = [erasing EXCEPT ![r] = @ - 1]
    /\ members' = members \ RowsOf(r)
    /\ UNCHANGED <<roomVars, ticketVars, hub, timers, phase, listed, now>>

Tick ==
    /\ now < MaxTime
    /\ now' = now + 1
    /\ UNCHANGED <<roomVars, ticketVars, rowVars, phase, listed>>

Next ==
    \/ \E p \in Pages :
         \/ OpenPage(p)
         \/ \E pw \in Passwords : PrepareRoomAccess(p, pw)
         \/ \E answer \in {"open", "member", "ticket", "ready"} :
              ValidateRoomAccess(p, answer)
         \/ UpgradeFails(p)
         \/ Register(p) \/ Unregister(p) \/ Leave(p) \/ Evict(p)
         \/ SaveRoomMember(p) \/ DeletePersistentRoom(p) \/ DeleteRoomMember(p)
    \/ \E r \in Rooms : CleanupRows(r) \/ \E since \in 1..MaxTime : Cleanup(r, since)
    \/ Tick

Spec == Init /\ [][Next]_vars

-----------------------------------------------------------------------------
RoomsTyped ==
    /\ host \in [Rooms -> Users \cup {NoUser}]
    /\ hash \in [Rooms -> Passwords \cup {NoPassword}]
    /\ inside \in [Rooms -> SUBSET Pages]
    /\ emptySince \in [Rooms -> Nat]

TicketsTyped ==
    /\ pending \in [Rooms -> Passwords \cup {NoPassword}]
    /\ tickets \subseteq Pages
    /\ issued \in [Pages -> [password : Passwords \cup {NoPassword}, expires : Nat]]

RowsTyped ==
    /\ members \subseteq Rooms \X Users
    /\ hub \in {<<>>} \cup {"save", "erase", "forget"} \X Pages
    /\ timers \subseteq Rooms \X Nat
    /\ erasing \in [Rooms -> Nat]

PagesTyped ==
    /\ phase \in [Pages -> Phases]
    /\ listed \subseteq Rooms
    /\ now \in Nat \ {0}

(* The hub's maps have the shape hub.go and access.go give them, and an id *)
(* that is not in h.Rooms has no client, hash or mark.                     *)
TypeOK ==
    /\ RoomsTyped /\ TicketsTyped /\ RowsTyped /\ PagesTyped
    /\ \A r \in Rooms : ~Exists(r) =>
         inside[r] = {} /\ hash[r] = NoPassword /\ emptySince[r] = 0
    /\ \A r \in Rooms : \A p \in inside[r] : RoomOf[p] = r /\ phase[p] = "in"

(* The user has shown this password for this room on one of its pages.     *)
Shown(u, r, pw) ==
    \E p \in Pages : UserOf[p] = u /\ RoomOf[p] = r /\ issued[p].password = pw

(* A protected room holds only users who have shown its password, however  *)
(* the check before the upgrade, the hub's Register after it, memberships  *)
(* and row deletions interleave.                                           *)
KeyHolders ==
    \A r \in Rooms : hash[r] # NoPassword =>
        \A p \in inside[r] : Shown(UserOf[p], r, hash[r])

(* A ticket that somebody other than the creator holds opens the room that *)
(* issued it: no ticket outlives its room and meets a later one of that id *)
(* (removeClientPermanently and scheduleEmptyRoomCleanup purge the map).   *)
TicketsFitTheirRoom ==
    \A p \in tickets : ~Creates(p) =>
        Exists(RoomOf[p]) /\ hash[RoomOf[p]] = issued[p].password

(* As long as the creator's ticket is in the map, and once it is spent and *)
(* the hub has yet to register the creator, the password it chose waits in *)
(* PendingPasswords: no sweep or cleanup takes it before.                  *)
ReservationHolds ==
    \A p \in Pages :
        /\ Creates(p) /\ ~Exists(RoomOf[p])
        /\ p \in tickets \/ phase[p] = "ticket"
        => pending[RoomOf[p]] = issued[p].password

(* Memberships of a room that is gone are about to be deleted: no stale    *)
(* row stays behind to admit somebody to a later room of that id.          *)
StaleRowsAwaitDeletion ==
    \A m \in members : ~Exists(m[1]) =>
        \/ erasing[m[1]] > 0
        \/ \E p \in Pages : RoomOf[p] = m[1] /\ hub = <<"erase", p>>

-----------------------------------------------------------------------------
(***************************************************************************)
(* What makes them inductive.  Key(r) is the one password r can ever have: *)
(* its creator chooses it before anybody else knows the id.                *)
(***************************************************************************)
Key(r)         == issued[CreatorOf[r]].password
Open(r)        == hash[r] = NoPassword /\ pending[r] = NoPassword
Admitted(u, r) == Open(r) \/ (Key(r) # NoPassword /\ Shown(u, r, Key(r)))

(* Nobody but its creator meets a room that has not been listed.           *)
CreatorFirst ==
    /\ \A r \in Rooms : phase[CreatorOf[r]] = "new" => r \notin listed
    /\ \A r \in Rooms : Exists(r) => r \in listed
    /\ \A m \in members : m[1] \in listed
    /\ \A p \in Pages : hub = <<"save", p>> => RoomOf[p] \in listed
    /\ \A p \in Pages : Knows(p) \/ phase[p] = "new"

(* Hashes, reserved passwords and tickets are the key or nothing.          *)
KeysFit ==
    /\ \A r \in Rooms : hash[r] \in {NoPassword, Key(r)}
    /\ \A r \in Rooms : pending[r] \in {NoPassword, Key(r)}
    /\ \A r \in Rooms : Exists(r) => pending[r] = NoPassword
    /\ \A p \in Pages : phase[p] = "new" => issued[p].password = NoPassword
    /\ \A p \in Pages : issued[p].password \in {NoPassword, Key(RoomOf[p])}
    /\ \A p \in tickets : issued[p].password # NoPassword

(* Whoever is past the check, or has a membership, was let in rightly.     *)
AllAdmitted ==
    /\ \A p \in Pages :
          phase[p] \in Dialing \cup {"in"} \/ hub = <<"save", p>>
            => Admitted(UserOf[p], RoomOf[p])
    /\ \A m \in members : Admitted(m[2], m[1])

(* The creator's ticket, unspent or just spent, is there only before the   *)
(* room is.                                                                *)
CreatorsTicket ==
    \A p \in Pages :
        /\ p \in tickets => phase[p] # "new" /\ (Creates(p) => phase[p] = "ready")
        /\ Creates(p) /\ (p \in tickets \/ phase[p] = "ticket")
             => /\ RoomOf[p] \notin listed
                /\ pending[RoomOf[p]] = issued[p].password
                /\ issued[p].password # NoPassword

(* While the hub saves a membership the room is there, and not marked.     *)
SavedRoomExists ==
    \A p \in Pages : hub = <<"save", p>> =>
        Exists(RoomOf[p]) /\ emptySince[RoomOf[p]] = 0

AccessInv ==
    /\ CreatorFirst /\ KeysFit /\ AllAdmitted
    /\ TicketsFitTheirRoom /\ CreatorsTicket
    /\ StaleRowsAwaitDeletion /\ SavedRoomExists
=============================================================================
