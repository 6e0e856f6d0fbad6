------------------------------ MODULE RoomHub ------------------------------
(***************************************************************************)
(* One room of the hub (src/backend/room/hub.go, client.go and the         *)
(* in-memory part of persistence.go): the websocket connections that join  *)
(* and leave it, their bounded Send channels, and the goroutines that      *)
(* broadcast to it.  Rooms do not interact here, so one room id is enough; *)
(* the *Room object stored under it can be deleted and created again,      *)
(* while goroutines still hold the pointer they looked up before.          *)
(*                                                                         *)
(* Threads: the loop of Hub.Run, the readPump of each connection with the  *)
(* message handler it calls, and the goroutines a handler or the hub loop  *)
(* spawns on behalf of a connection.  work[t] is what the thread still has *)
(* to do, one entry per critical section (or per unlocked channel send);   *)
(* a lookup in h.Rooms and the use of the pointer under room.Mutex are two *)
(* steps, because the code releases h.Mutex in between.                    *)
(*                                                                         *)
(* Database writes do not touch this state; see RoomDurability in the      *)
(* README's plan.                                                          *)
(***************************************************************************)
EXTENDS Integers, Sequences

CONSTANTS
    Conns,      \* the *Client values: one per websocket connection
    Objs,       \* identities of *Room objects
    NoRoom,     \* h.Rooms has no entry for the room id
    IdOf,       \* Client.ID of a connection
    UserOf,     \* Client.Username of a connection
    NoId, NoUser,
    EventHost,  \* host of a scheduled event for this room id, or NoUser
    Cap,        \* capacity of Client.Send
    Grace,      \* emptyRoomGracePeriod
    Horizon,    \* bound: clients act up to this time
    Kinds,      \* bound: the message types the clients send
    MaxMsgs     \* bound: messages the clients send altogether

Messages == {"leave", "chat msg", "start", "stop", "voice_start",
             "voice_stop", "voice_data"}

ASSUME CapAssumption     == Cap \in Nat \ {0}
ASSUME TimeAssumption    == Grace \in Nat /\ Horizon \in Nat
ASSUME NoRoomAssumption  == NoRoom \notin Objs
ASSUME MsgsAssumption    == MaxMsgs \in Nat
ASSUME KindsAssumption   == Kinds \subseteq Messages

VARIABLES
    hubRoom,    \* h.Rooms[roomID]
    clients,    \* Room.Clients of every object
    emptySince, \* Room.EmptySince; 0 when not marked
    hostId, hostUser,
    recording,  \* Room.VoiceFile # nil
    phase,      \* where the goroutines of a connection are
    buf,        \* number of messages in Client.Send
    closed,     \* connections whose Send channel is closed
    writer,     \* writePump: not started, running, or returned
    work, at,   \* per thread: what is left to do, the *Room pointer it holds
    snap,       \* per thread: the clients it is about to send to, unlocked
    stamp,      \* hub loop: the emptySince local
    timers,     \* pending scheduleEmptyRoomCleanup goroutines
    now, sent,
    lastSeen,   \* history: when an object last had a client
    panic       \* "none", or what made the process panic

roomVars   == <<hubRoom, clients, emptySince, hostId, hostUser, recording, lastSeen>>
connVars   == <<phase, buf, closed, writer>>
threadVars == <<work, at, snap, stamp>>
timeVars   == <<timers, now, sent>>
vars == <<roomVars, connVars, threadVars, timeVars, panic>>

HubLoop    == <<"hub">>
Handler(c) == <<"handler", c>>
Spawned(c) == <<"spawned", c>>
Threads    == {HubLoop} \cup {Handler(c) : c \in Conns}
                        \cup {Spawned(c) : c \in Conns}

LookupOps == Messages \cup {"state", "chat", "voice", "complete"}
LocalOps  == {"send", "history", "reply", "schedule", "launch"}
Ops       == LookupOps \cup LocalOps
Ids   == {IdOf[c] : c \in Conns} \cup {NoId}
Users == {UserOf[c] : c \in Conns} \cup {NoUser, EventHost}

Phases     == {"new", "dialing", "live", "leaving", "ending", "done"}
Registered == {"live", "leaving", "ending"}

HubIdle == work[HubLoop] = <<>>
Idle(t) == work[t] = <<>>

(***************************************************************************)
(* Channel operations.  A send to, or a close of, a closed channel panics  *)
(* and takes the process down; `who' names the statement.                  *)
(***************************************************************************)
Full == {c \in Conns : buf[c] = Cap}

TrySend(S, who) ==        \* select { case c.Send <- m: default: } for c in S
    /\ buf' = [c \in Conns |-> IF c \in S \ (Full \cup closed)
                                 THEN buf[c] + 1 ELSE buf[c]]
    /\ panic' = IF S \cap closed # {} THEN who ELSE panic

(* Mutant of Remove: the map entry stays.                                  *)
RemoveKeepsEntry(r, c) ==
    /\ closed' = closed \cup {c}
    /\ panic' = IF c \in closed THEN "close" ELSE panic
    /\ lastSeen' = [lastSeen EXCEPT ![r] = now]
    /\ recording' = [recording EXCEPT ![r] = @ /\ hostId[r] # IdOf[c]]
    /\ UNCHANGED clients

(* What a Room loses with a client: map entry, channel, host's recording.  *)
Remove(r, c) ==
    /\ clients' = [clients EXCEPT ![r] = @ \ {c}]
    /\ closed' = closed \cup {c}
    /\ panic' = IF c \in closed THEN "close" ELSE panic
    /\ lastSeen' = [lastSeen EXCEPT ![r] = now]
    /\ recording' = [recording EXCEPT ![r] = @ /\ hostId[r] # IdOf[c]]

(* stopVoiceRecordingLocked spawns the voice_stop broadcast.               *)
VoiceStop(r, isHost) == IF isHost /\ recording[r] THEN <<"voice">> ELSE <<>>

Continue(t, ops) ==       \* the thread's current entry is replaced by ops
    /\ work' = [work EXCEPT ![t] = ops \o Tail(@)]
    /\ at' = [at EXCEPT ![t] = NoRoom]

Do(t, op) == work[t] # <<>> /\ Head(work[t]) = op
Using(t, op, r) == Do(t, op) /\ at[t] = r /\ r # NoRoom

-----------------------------------------------------------------------------
Init ==
    /\ hubRoom = NoRoom
    /\ clients = [r \in Objs |-> {}]
    /\ emptySince = [r \in Objs |-> 0]
    /\ hostId = [r \in Objs |-> NoId]
    /\ hostUser = [r \in Objs |-> NoUser]
    /\ recording = [r \in Objs |-> FALSE]
    /\ phase = [c \in Conns |-> "new"]
    /\ buf = [c \in Conns |-> 0]
    /\ closed = {}
    /\ writer = [c \in Conns |-> "off"]
    /\ work = [t \in Threads |-> <<>>]
    /\ at = [t \in Threads |-> NoRoom]
    /\ snap = [t \in Threads |-> {}]
    /\ stamp = 0
    /\ timers = {}
    /\ now = 1
    /\ sent = 0
    /\ lastSeen = [r \in Objs |-> 0]
    /\ panic = "none"

(* An object no thread refers to: the allocator may hand it out.           *)
Fresh(r) == r # hubRoom /\ \A t \in Threads : at[t] # r

NewRoom(r, id, user, members) ==
    /\ hubRoom' = r
    /\ clients' = [clients EXCEPT ![r] = members]
    /\ emptySince' = [emptySince EXCEPT ![r] = 0]
    /\ hostId' = [hostId EXCEPT ![r] = id]
    /\ hostUser' = [hostUser EXCEPT ![r] = user]
    /\ recording' = [recording EXCEPT ![r] = FALSE]
    /\ lastSeen' = [lastSeen EXCEPT ![r] = now]

-----------------------------------------------------------------------------
(* Connections.                                                            *)

(* GET /ws: PrepareScheduledRoom creates the room of a scheduled event     *)
(* when it is missing.                                                     *)
PrepareScheduledRoom ==
    /\ now <= Horizon
    /\ hubRoom = NoRoom /\ EventHost # NoUser
    /\ \E c \in Conns : phase[c] = "new"
    /\ \E r \in Objs : Fresh(r) /\ NewRoom(r, NoId, EventHost, {})
    /\ UNCHANGED <<connVars, threadVars, timeVars, panic>>

(* ServeWs upgrades the request and blocks on the Register channel.        *)
Dial(c) ==
    /\ now <= Horizon
    /\ phase[c] = "new"
    /\ phase' = [phase EXCEPT ![c] = "dialing"]
    /\ UNCHANGED <<roomVars, buf, closed, writer, threadVars, timeVars, panic>>

(* readPump parses one message.                                            *)
Message(c, op) ==
    /\ phase[c] = "live" /\ Idle(Handler(c)) /\ sent < MaxMsgs
    /\ sent' = sent + 1
    /\ work' = [work EXCEPT ![Handler(c)] = <<op>>]
    /\ UNCHANGED <<roomVars, connVars, at, snap, stamp, timers, now, panic>>

(* ReadMessage fails: the connection was closed by writePump, or the peer  *)
(* or the network gave up.  readPump then blocks on Unregister.            *)
ReadFail(c) ==
    /\ phase[c] = "live" /\ Idle(Handler(c))
    /\ writer[c] = "returned" \/ now <= Horizon
    /\ phase' = [phase EXCEPT ![c] = "ending"]
    /\ UNCHANGED <<roomVars, buf, closed, writer, threadVars, timeVars, panic>>

(* writePump takes one message and writes it.                              *)
WriteOne(c) ==
    /\ writer[c] = "on" /\ buf[c] > 0
    /\ buf' = [buf EXCEPT ![c] = @ - 1]
    /\ UNCHANGED <<roomVars, phase, closed, writer, threadVars, timeVars, panic>>

(* Mutant of WriterReturns: a closed channel does not end the loop.        *)
WriterReturnsOnErrorOnly(c) ==
    /\ writer[c] = "on" /\ now <= Horizon
    /\ writer' = [writer EXCEPT ![c] = "returned"]
    /\ UNCHANGED <<roomVars, phase, buf, closed, threadVars, timeVars, panic>>

(* writePump returns and closes the connection: the channel is drained and *)
(* closed, or a write or a ping failed.                                    *)
WriterReturns(c) ==
    /\ writer[c] = "on"
    /\ (c \in closed /\ buf[c] = 0) \/ now <= Horizon
    /\ writer' = [writer EXCEPT ![c] = "returned"]
    /\ UNCHANGED <<roomVars, phase, buf, closed, threadVars, timeVars, panic>>

-----------------------------------------------------------------------------
(* The select loop of Hub.Run.                                             *)

Reclaims(r, c) ==
    \/ hostId[r] = NoId /\ hostUser[r] = NoUser
    \/ hostUser[r] # NoUser /\ hostUser[r] = UserOf[c]

Register(c) ==
    /\ HubIdle /\ phase[c] = "dialing"
    /\ \/ /\ hubRoom = NoRoom
          /\ \E r \in Objs : Fresh(r) /\ NewRoom(r, IdOf[c], UserOf[c], {c})
       \/ /\ hubRoom # NoRoom
          /\ clients' = [clients EXCEPT ![hubRoom] = @ \cup {c}]
          /\ emptySince' = [emptySince EXCEPT ![hubRoom] = 0]
          /\ IF Reclaims(hubRoom, c)
               THEN /\ hostId' = [hostId EXCEPT ![hubRoom] = IdOf[c]]
                    /\ hostUser' = [hostUser EXCEPT ![hubRoom] = UserOf[c]]
               ELSE UNCHANGED <<hostId, hostUser>>
          /\ UNCHANGED <<hubRoom, recording, lastSeen>>
    /\ phase' = [phase EXCEPT ![c] = "live"]
    /\ writer' = [writer EXCEPT ![c] = "on"]
    /\ work' = [work EXCEPT ![HubLoop] = <<"state", "chat", "history">>]
    /\ snap' = [snap EXCEPT ![HubLoop] = {c}]      \* client, for SendChatHistory
    /\ UNCHANGED <<buf, closed, at, stamp, timeVars, panic>>

Unregister(c) ==
    /\ HubIdle /\ phase[c] = "ending"
    /\ LET r == hubRoom
           member == r # NoRoom /\ c \in clients[r]
           emptied == member /\ clients[r] = {c}
       IN /\ IF member
               THEN /\ Remove(r, c)
                    /\ emptySince' = [emptySince EXCEPT ![r] = IF emptied THEN now ELSE @]
               ELSE UNCHANGED <<clients, closed, panic, lastSeen, recording, emptySince>>
          /\ stamp' = IF emptied THEN now ELSE 0
          /\ work' = [work EXCEPT
               ![HubLoop] = IF r = NoRoom THEN <<>> ELSE <<"state", "chat", "schedule">>,
               ![Spawned(c)] = @ \o (IF member THEN VoiceStop(r, hostId[r] = IdOf[c])
                                               ELSE <<>>)]
    /\ phase' = [phase EXCEPT ![c] = "done"]
    /\ UNCHANGED <<hubRoom, hostId, hostUser, buf, writer, at, snap, timeVars>>

(* removeClientPermanently: the last participant takes the room along.     *)
Leave(c) ==
    /\ HubIdle /\ phase[c] = "leaving"
    /\ LET r == hubRoom
           member == r # NoRoom /\ c \in clients[r]
           last == member /\ clients[r] = {c}
       IN /\ IF member
               THEN Remove(r, c)
               ELSE UNCHANGED <<clients, closed, panic, lastSeen, recording>>
          /\ hubRoom' = IF last THEN NoRoom ELSE hubRoom
          /\ work' = [work EXCEPT
               ![HubLoop] = IF member /\ ~last THEN <<"state", "chat">> ELSE <<>>,
               ![Spawned(c)] = @ \o (IF member THEN VoiceStop(r, hostId[r] = IdOf[c])
                                               ELSE <<>>)]
    /\ phase' = [phase EXCEPT ![c] = "live"]
    /\ UNCHANGED <<emptySince, hostId, hostUser, buf, writer, at, snap, stamp, timeVars>>

-----------------------------------------------------------------------------
(* Steps of any thread.                                                    *)

(* room, exists := h.Rooms[roomID] under h.Mutex, released afterwards.     *)
Lookup(t) ==
    /\ work[t] # <<>> /\ Head(work[t]) \in LookupOps /\ at[t] = NoRoom
    /\ IF hubRoom = NoRoom
         THEN Continue(t, <<>>)
         ELSE at' = [at EXCEPT ![t] = hubRoom] /\ UNCHANGED work
    /\ UNCHANGED <<roomVars, connVars, snap, stamp, timeVars, panic>>

(* A client whose channel is full loses its place in the room.             *)
BroadcastRoomState(t, r) ==
    /\ Using(t, "state", r)
    /\ LET evicted == clients[r] \cap Full
       IN /\ buf' = [c \in Conns |-> IF c \in clients[r] \ (Full \cup closed)
                                       THEN buf[c] + 1 ELSE buf[c]]
          /\ clients' = [clients EXCEPT ![r] = @ \ evicted]
          /\ closed' = closed \cup evicted
          /\ panic' = IF clients[r] \cap closed # {} THEN "locked send" ELSE panic
          /\ lastSeen' = IF evicted = {} THEN lastSeen
                                         ELSE [lastSeen EXCEPT ![r] = now]
    /\ Continue(t, <<>>)
    /\ UNCHANGED <<hubRoom, emptySince, hostId, hostUser, recording, phase, writer,
                   snap, stamp, timeVars>>

BroadcastChatMessage(t, r) ==
    /\ Using(t, "chat", r)
    /\ TrySend(clients[r], "locked send")
    /\ Continue(t, <<>>)
    /\ UNCHANGED <<roomVars, phase, closed, writer, snap, stamp, timeVars>>

(* BroadcastVoiceEvent copies the members under the lock ...               *)
SnapshotClients(t, r) ==
    /\ Using(t, "voice", r)
    /\ snap' = [snap EXCEPT ![t] = clients[r]]
    /\ Continue(t, IF clients[r] = {} THEN <<>> ELSE <<"send">>)
    /\ UNCHANGED <<roomVars, connVars, stamp, timeVars, panic>>

(* ... and sends to them after releasing it.                               *)
SendVoiceEvent(t) ==
    /\ Do(t, "send")
    /\ \E c \in snap[t] :
         /\ TrySend({c}, "voice event")
         /\ snap' = [snap EXCEPT ![t] = @ \ {c}]
         /\ IF snap[t] = {c} THEN Continue(t, <<>>) ELSE UNCHANGED <<work, at>>
    /\ UNCHANGED <<roomVars, phase, closed, writer, stamp, timeVars>>

(* Mutant of SendChatHistory: a plain send, that waits for room.           *)
SendChatHistoryBlocks(t) ==
    /\ Do(t, "history")
    /\ snap[t] \cap Full = {}
    /\ TrySend(snap[t], "history") \/ UNCHANGED <<buf, panic>>
    /\ snap' = [snap EXCEPT ![t] = {}]
    /\ Continue(t, <<>>)
    /\ UNCHANGED <<roomVars, phase, closed, writer, stamp, timeVars>>

(* SendChatHistory; nothing is sent when there is no history yet.          *)
SendChatHistory(t) ==
    /\ Do(t, "history")
    /\ TrySend(snap[t], "history") \/ UNCHANGED <<buf, panic>>
    /\ snap' = [snap EXCEPT ![t] = {}]
    /\ Continue(t, <<>>)
    /\ UNCHANGED <<roomVars, phase, closed, writer, stamp, timeVars>>

(* Mutant of ScheduleCleanup: one pending goroutine is thought enough.     *)
ScheduleCleanupOnce(t) ==
    /\ Do(t, "schedule")
    /\ timers' = IF stamp = 0 \/ timers # {} THEN timers
                 ELSE {[since |-> stamp, due |-> now + Grace]}
    /\ stamp' = 0
    /\ Continue(t, <<>>)
    /\ UNCHANGED <<roomVars, connVars, snap, now, sent, panic>>

(* go scheduleEmptyRoomCleanup(roomID, emptySince, grace)                  *)
ScheduleCleanup(t) ==
    /\ Do(t, "schedule")
    /\ timers' = IF stamp = 0 THEN timers
                 ELSE timers \cup {[since |-> stamp, due |-> now + Grace]}
    /\ stamp' = 0
    /\ Continue(t, <<>>)
    /\ UNCHANGED <<roomVars, connVars, snap, now, sent, panic>>

HubRun == \/ Lookup(HubLoop)
          \/ \E r \in Objs : \/ BroadcastRoomState(HubLoop, r)
                             \/ BroadcastChatMessage(HubLoop, r)
          \/ SendChatHistory(HubLoop)
          \/ ScheduleCleanup(HubLoop)

-----------------------------------------------------------------------------
(* The message handler (handleIncomingMessage, handleVoiceData), holding   *)
(* the pointer r it looked up when the message arrived.                    *)

HandleLeave(c, r) ==      \* blocks on the Leave channel
    /\ phase[c] = "live" /\ Using(Handler(c), "leave", r)
    /\ phase' = [phase EXCEPT ![c] = "leaving"]
    /\ Continue(Handler(c), <<>>)
    /\ UNCHANGED <<roomVars, buf, closed, writer, snap, stamp, timeVars, panic>>

HandleChat(c, r) ==       \* allowed, or answered by the rate limit
    /\ Using(Handler(c), "chat msg", r)
    /\ \E op \in {"chat", "reply"} : Continue(Handler(c), <<op>>)
    /\ UNCHANGED <<roomVars, connVars, snap, stamp, timeVars, panic>>

RateLimitReply(c) ==      \* c.Send <- errMsg, without a lock
    /\ Do(Handler(c), "reply")
    /\ TrySend({c}, "reply")
    /\ Continue(Handler(c), <<>>)
    /\ UNCHANGED <<roomVars, phase, closed, writer, snap, stamp, timeVars>>

HandleStart(c, r) ==      \* not the host, bad payload, or accepted
    /\ Using(Handler(c), "start", r)
    /\ \/ Continue(Handler(c), <<>>)
       \/ /\ hostId[r] = IdOf[c]
          /\ \E voice \in {<<>>, <<"voice">>} :
               Continue(Handler(c), <<"state">> \o voice \o <<"launch">>)
    /\ UNCHANGED <<roomVars, connVars, snap, stamp, timeVars, panic>>

LaunchCompletion(c) ==    \* go scheduleRoomCompletion
    /\ Do(Handler(c), "launch")
    /\ work' = [work EXCEPT ![Handler(c)] = Tail(@),
                            ![Spawned(c)] = @ \o <<"complete">>]
    /\ UNCHANGED <<roomVars, connVars, at, snap, stamp, timeVars, panic>>

(* The timer ran out: the session is another one by now, or it completes,  *)
(* with or without voice.                                                  *)
RoomCompletion(c, r) ==
    /\ Using(Spawned(c), "complete", r)
    /\ \E ops \in {<<>>, <<"state">>, <<"state", "voice">>} :
         Continue(Spawned(c), ops)
    /\ UNCHANGED <<roomVars, connVars, snap, stamp, timeVars, panic>>

HandleStop(c, r, op) ==   \* "stop" and "voice_stop"
    /\ op \in {"stop", "voice_stop"}
    /\ Using(Handler(c), op, r)
    /\ LET host == hostId[r] = IdOf[c]
       IN /\ recording' = [recording EXCEPT ![r] = @ /\ ~host]
          /\ work' = [work EXCEPT
               ![Handler(c)] = IF host /\ op = "stop" THEN <<"state">> ELSE <<>>,
               ![Spawned(c)] = @ \o VoiceStop(r, host)]
    /\ at' = [at EXCEPT ![Handler(c)] = NoRoom]
    /\ UNCHANGED <<hubRoom, clients, emptySince, hostId, hostUser, lastSeen, connVars,
                   snap, stamp, timeVars, panic>>

HandleVoiceStart(c, r) == \* the recording file may fail to open
    /\ Using(Handler(c), "voice_start", r)
    /\ IF hostId[r] = IdOf[c]
         THEN /\ \E opened \in BOOLEAN : recording' = [recording EXCEPT ![r] = opened]
              /\ Continue(Handler(c), <<"voice">>)
         ELSE UNCHANGED recording /\ Continue(Handler(c), <<>>)
    /\ UNCHANGED <<hubRoom, clients, emptySince, hostId, hostUser, lastSeen, connVars,
                   snap, stamp, timeVars, panic>>

HandleVoiceData(c, r) ==  \* to the others, under room.Mutex
    /\ Using(Handler(c), "voice_data", r)
    /\ IF hostId[r] = IdOf[c]
         THEN TrySend({d \in clients[r] : IdOf[d] # IdOf[c]}, "locked send")
         ELSE UNCHANGED <<buf, panic>>
    /\ Continue(Handler(c), <<>>)
    /\ UNCHANGED <<roomVars, phase, closed, writer, snap, stamp, timeVars>>

HandlerRun(c) ==
    LET t == Handler(c)
    IN \/ Lookup(t) \/ SendVoiceEvent(t) \/ RateLimitReply(c) \/ LaunchCompletion(c)
       \/ \E r \in Objs :
            \/ HandleLeave(c, r) \/ HandleChat(c, r) \/ HandleStart(c, r)
            \/ HandleVoiceStart(c, r) \/ HandleVoiceData(c, r)
            \/ \E op \in Messages : HandleStop(c, r, op)
            \/ BroadcastRoomState(t, r) \/ BroadcastChatMessage(t, r)
            \/ SnapshotClients(t, r)

SpawnedRun(c) ==
    LET t == Spawned(c)
    IN \/ Lookup(t) \/ SendVoiceEvent(t)
       \/ \E r \in Objs : \/ RoomCompletion(c, r) \/ BroadcastRoomState(t, r)
                          \/ SnapshotClients(t, r)

-----------------------------------------------------------------------------
(* Mutants of Cleanup: the room is taken whoever is in it; the mark is not *)
(* compared; the comparison demands an older mark.                         *)
CleanupAs(tm, deletes) ==
    /\ tm \in timers /\ now >= tm.due
    /\ timers' = timers \ {tm}
    /\ hubRoom' = IF hubRoom # NoRoom /\ deletes THEN NoRoom ELSE hubRoom
    /\ UNCHANGED <<clients, emptySince, hostId, hostUser, recording, lastSeen,
                   connVars, threadVars, now, sent, panic>>
CleanupUnchecked(tm)   == CleanupAs(tm, TRUE)
CleanupIgnoresMark(tm) == CleanupAs(tm, clients[hubRoom] = {})
CleanupOlderMark(tm)   == CleanupAs(tm, /\ clients[hubRoom] = {}
                                        /\ emptySince[hubRoom] < tm.since)

(* scheduleEmptyRoomCleanup after its timer.                               *)
Cleanup(tm) ==
    /\ tm \in timers /\ now >= tm.due
    /\ timers' = timers \ {tm}
    /\ hubRoom' = IF /\ hubRoom # NoRoom
                     /\ clients[hubRoom] = {}
                     /\ emptySince[hubRoom] = tm.since
                    THEN NoRoom ELSE hubRoom
    /\ UNCHANGED <<clients, emptySince, hostId, hostUser, recording, lastSeen,
                   connVars, threadVars, now, sent, panic>>

(* Nothing under way that could still empty the room: after the Horizon    *)
(* the clock only runs on once this holds, for one more grace period.      *)
Quiet == /\ \A t \in Threads : Idle(t)
         /\ \A c \in Conns : \/ phase[c] \in {"new", "done"}
                             \/ phase[c] = "live" /\ writer[c] = "on"

Tick ==
    /\ now < Horizon \/ (now < Horizon + Grace /\ Quiet)
    /\ now' = now + 1
    /\ UNCHANGED <<roomVars, connVars, threadVars, timers, sent, panic>>

-----------------------------------------------------------------------------
HubStep == HubRun \/ \E c \in Conns : Register(c) \/ Unregister(c) \/ Leave(c)

ConnStep(c) == \/ Dial(c) \/ ReadFail(c) \/ WriteOne(c) \/ WriterReturns(c)
               \/ \E op \in Kinds : Message(c, op)
               \/ HandlerRun(c) \/ SpawnedRun(c)

Next ==
    /\ panic = "none"           \* a panic ends the process
    /\ \/ HubStep \/ PrepareScheduledRoom \/ Tick
       \/ \E c \in Conns : ConnStep(c)
       \/ \E tm \in timers : Cleanup(tm)

Spec == Init /\ [][Next]_vars

(***************************************************************************)
(* Every goroutine runs on unless it waits for input.  The hub's select    *)
(* chooses among its ready channels at random and Go queues the senders of *)
(* a channel first come first served, hence strong fairness per connection *)
(* for the three receives.  A blocked write ends at its 10 s deadline, so  *)
(* writePump takes the next message or returns.  Nothing obliges clients   *)
(* to connect, to send or to disconnect.                                   *)
(***************************************************************************)
Running(A) == panic = "none" /\ A

FairSpec ==
    /\ Spec
    /\ WF_vars(Running(HubRun))
    /\ WF_vars(Running(Tick))
    /\ WF_vars(Running(\E tm \in timers : Cleanup(tm)))
    /\ \A c \in Conns :
         /\ SF_vars(Running(Register(c)))
         /\ SF_vars(Running(Unregister(c)))
         /\ SF_vars(Running(Leave(c)))
         /\ WF_vars(Running(HandlerRun(c)))
         /\ WF_vars(Running(SpawnedRun(c)))
         /\ WF_vars(Running(WriteOne(c) \/ WriterReturns(c)))
         /\ WF_vars(Running(writer[c] = "returned" /\ ReadFail(c)))

-----------------------------------------------------------------------------
(* Type invariant, by groups of variables.                                 *)
RoomsTyped ==
    /\ hubRoom \in Objs \cup {NoRoom}
    /\ clients \in [Objs -> SUBSET Conns]
    /\ emptySince \in [Objs -> Nat]
    /\ hostId \in [Objs -> Ids]
    /\ hostUser \in [Objs -> Users]
    /\ recording \in [Objs -> BOOLEAN]
    /\ lastSeen \in [Objs -> Nat]

ConnsTyped ==
    /\ phase \in [Conns -> Phases]
    /\ buf \in [Conns -> 0..Cap]
    /\ closed \in SUBSET Conns
    /\ writer \in [Conns -> {"off", "on", "returned"}]

ThreadsTyped ==
    /\ work \in [Threads -> Seq(Ops)]
    /\ at \in [Threads -> Objs \cup {NoRoom}]
    /\ snap \in [Threads -> SUBSET Conns]
    /\ stamp \in Nat

ClockTyped ==
    /\ timers \in SUBSET [since : Nat, due : Nat]
    /\ now \in Nat /\ now > 0
    /\ sent \in Nat /\ sent <= MaxMsgs

Panics == {"none", "close", "locked send", "voice event", "history", "reply"}

TypeOK == RoomsTyped /\ ConnsTyped /\ ThreadsTyped /\ ClockTyped /\ panic \in Panics

(* A *Room that is no longer in h.Rooms has no clients and never gets one, *)
(* so what a goroutine does through a pointer it looked up earlier reaches *)
(* nobody.                                                                 *)
OrphansEmpty == \A r \in Objs : r # hubRoom => clients[r] = {}

(* A connection is in the room's client map exactly while it is registered *)
(* and its Send channel is open: nobody sits in a room without hearing it, *)
(* and no member's channel is closed.                                      *)
MembersAreOpen ==
    \A c \in Conns :
        (phase[c] \in Registered /\ c \notin closed)
            <=> (hubRoom # NoRoom /\ c \in clients[hubRoom])

(* close(client.Send) runs at most once per client, and no send made under *)
(* room.Mutex finds a closed channel: neither can panic the process.       *)
LockedUseIsSafe == panic \notin {"close", "locked send"}

(* The finished connections have had their channel closed, so no writePump *)
(* goroutine is left behind waiting on it; nobody's is before it is used.  *)
ClosedByTheEnd ==
    \A c \in Conns : /\ phase[c] = "done" => c \in closed
                     /\ phase[c] \in {"new", "dialing"} => c \notin closed

(* The four together are inductive.                                        *)
ChannelInv == OrphansEmpty /\ MembersAreOpen /\ LockedUseIsSafe /\ ClosedByTheEnd

(* A room marked EmptySince is empty, and the goroutine that will reclaim  *)
(* it is waiting or about to be spawned by the hub loop.                   *)
CleanupPromised(since) ==
    \/ \E tm \in timers : tm.since = since
    \/ stamp = since /\ \E i \in DOMAIN work[HubLoop] : work[HubLoop][i] = "schedule"

MarkedIsScheduled ==
    \A r \in Objs : r = hubRoom /\ emptySince[r] # 0 =>
        clients[r] = {} /\ CleanupPromised(emptySince[r])

(* What cleanup goroutines and marks remember is old enough (inductive).   *)
GraceInv ==
    /\ stamp <= now
    /\ \A tm \in timers : tm.since > 0 /\ tm.due >= tm.since + Grace
    /\ \A r \in Objs : emptySince[r] > 0 =>
            clients[r] = {} /\ emptySince[r] >= lastSeen[r]

(* A room leaves h.Rooms in two ways only: its last participant left it    *)
(* explicitly, or nobody was in it for the whole reconnect grace period.   *)
(* In particular a cleanup goroutine of an earlier empty spell never takes *)
(* the room of someone who came back and dropped out again.                *)
RoomOutlivesDisconnects ==
    [][\A r \in Objs : hubRoom = r /\ hubRoom' # r =>
          \/ \E c \in Conns : clients[r] = {c} /\ phase[c] = "leaving"
          \/ clients[r] = {} /\ now >= lastSeen[r] + Grace ]_vars

(* The hub loop never gets stuck: every terminated readPump gets through   *)
(* its blocking Unregister, every leave message through Leave.             *)
HubServes ==
    \A c \in Conns :
        phase[c] \in {"leaving", "ending"}
            ~> phase[c] \in {"live", "done"} \/ panic # "none"

(* Closing a client's channel is enough to end its connection: writePump   *)
(* drains and closes the socket, readPump fails and unregisters.           *)
ClosedConnectionsEnd ==
    \A c \in Conns : c \in closed ~> phase[c] = "done" \/ panic # "none"

(* A room that was marked empty does not stay behind: somebody comes back  *)
(* or the room is deleted.                                                 *)
MarkedRoomReclaimed ==
    \A r \in Objs :
        (hubRoom = r /\ emptySince[r] # 0)
            ~> (hubRoom # r \/ clients[r] # {} \/ panic # "none")
=============================================================================
