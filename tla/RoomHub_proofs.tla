--------------------------- MODULE RoomHub_proofs ---------------------------
(* TLAPS proofs about RoomHub, for every set of connections, every channel *)
(* capacity and every grace period.                                        *)
EXTENDS RoomHub, SequenceTheorems, TLAPS

(***************************************************************************)
(* Facts about work queues.                                                *)
(***************************************************************************)
LEMMA CapType == Cap \in Nat
BY CapAssumption

LEMMA OneMoreFits == \A b \in 0..Cap : b # Cap => b + 1 \in 0..Cap
BY CapType

LEMMA OneLessFits == \A b \in 0..Cap : b > 0 => b - 1 \in 0..Cap
BY CapType

LEMMA ThreadsExist ==
    /\ HubLoop \in Threads
    /\ \A c \in Conns : Handler(c) \in Threads /\ Spawned(c) \in Threads
BY DEF Threads

LEMMA ThreadsDiffer ==
    \A c \in Conns : Handler(c) # HubLoop /\ Spawned(c) # HubLoop
BY DEF HubLoop, Handler, Spawned

LEMMA TailType ==
    ASSUME NEW q \in Seq(Ops), q # <<>>
    PROVE  Tail(q) \in Seq(Ops) /\ Head(q) \in Ops
BY HeadTailProperties

LEMMA AppendedType ==
    ASSUME NEW p \in Seq(Ops), NEW q \in Seq(Ops)
    PROVE  p \o q \in Seq(Ops)
BY ConcatProperties

(* A thread that goes on with ops keeps a well-typed queue and pointer.    *)
LEMMA ContinueType ==
    ASSUME TypeOK, NEW t \in Threads, NEW ops \in Seq(Ops),
           work[t] # <<>>, Continue(t, ops)
    PROVE  /\ work' \in [Threads -> Seq(Ops)]
           /\ at' \in [Threads -> Objs \cup {NoRoom}]
<1>1. work[t] \in Seq(Ops)
  BY DEF TypeOK, ThreadsTyped
<1>2. Tail(work[t]) \in Seq(Ops)
  BY <1>1, TailType
<1>3. ops \o Tail(work[t]) \in Seq(Ops)
  BY <1>2, AppendedType
<1>4. QED
  BY <1>3 DEF TypeOK, ThreadsTyped, Continue

(* A send leaves every buffer within its capacity.                         *)
LEMMA TrySendType ==
    ASSUME TypeOK, NEW S \in SUBSET Conns, NEW who \in Panics, TrySend(S, who)
    PROVE  buf' \in [Conns -> 0..Cap] /\ panic' \in Panics
<1>1. buf \in [Conns -> 0..Cap]
  BY DEF TypeOK, ConnsTyped
<1>2. ASSUME NEW c \in Conns, c \notin Full
      PROVE  buf[c] + 1 \in 0..Cap
  <2>1. buf[c] \in 0..Cap /\ buf[c] # Cap
    BY <1>1, <1>2 DEF Full
  <2>2. QED
    BY <2>1, OneMoreFits
<1>3. buf' \in [Conns -> 0..Cap]
  BY <1>1, <1>2 DEF TrySend
<1>4. QED
  BY <1>3 DEF TypeOK, TrySend

LEMMA VoiceStopType ==
    ASSUME NEW r \in Objs, NEW b \in BOOLEAN
    PROVE  VoiceStop(r, b) \in Seq(Ops)
<1>1. "voice" \in Ops
  BY DEF Ops, LookupOps
<1>2. <<"voice">> \in Seq(Ops) /\ <<>> \in Seq(Ops)
  BY <1>1, EmptySeq
<1>3. QED
  BY <1>2 DEF VoiceStop

(* The work queues the actions hand out.                                   *)
LEMMA QueueTypes ==
    /\ \A op \in Ops : <<op>> \in Seq(Ops)
    /\ <<>> \in Seq(Ops)
    /\ <<"state", "chat", "history">> \in Seq(Ops)
    /\ <<"state", "chat", "schedule">> \in Seq(Ops)
    /\ <<"state", "chat">> \in Seq(Ops)
    /\ <<"state", "voice">> \in Seq(Ops)
    /\ <<"state">> \o <<>> \o <<"launch">> \in Seq(Ops)
    /\ <<"state">> \o <<"voice">> \o <<"launch">> \in Seq(Ops)
<1>1. {"state", "chat", "history", "schedule", "voice", "launch"} \subseteq Ops
  BY DEF Ops, LookupOps, LocalOps
<1>2. /\ <<"state">> \in Seq(Ops) /\ <<"voice">> \in Seq(Ops)
      /\ <<"launch">> \in Seq(Ops) /\ <<>> \in Seq(Ops)
  BY <1>1, EmptySeq
<1>3. QED
  BY <1>1, <1>2, AppendedType

(***************************************************************************)
(* Type correctness.                                                       *)
(***************************************************************************)
LEMMA InitType == Init => TypeOK
<1> SUFFICES ASSUME Init PROVE TypeOK
  OBVIOUS
<1>2. ConnsTyped /\ panic \in Panics
  BY CapType DEF Init, ConnsTyped, Phases, Panics
<1>3. RoomsTyped
  BY DEF Init, RoomsTyped, Ids, Users
<1>4. ThreadsTyped
  BY EmptySeq DEF Init, ThreadsTyped
<1>5. ClockTyped
  BY MsgsAssumption DEF Init, ClockTyped
<1>6. QED
  BY <1>2, <1>3, <1>4, <1>5 DEF TypeOK

LEMMA NewRoomType ==
    ASSUME TypeOK, NEW r \in Objs, NEW id \in Ids, NEW user \in Users,
           NEW S \in SUBSET Conns, NewRoom(r, id, user, S)
    PROVE  RoomsTyped'
BY DEF TypeOK, RoomsTyped, ClockTyped, NewRoom

LEMMA RemoveType ==
    ASSUME TypeOK, NEW r \in Objs, NEW c \in Conns, Remove(r, c)
    PROVE  /\ clients' \in [Objs -> SUBSET Conns]
           /\ lastSeen' \in [Objs -> Nat]
           /\ recording' \in [Objs -> BOOLEAN]
<1>1. (recording[r] /\ hostId[r] # IdOf[c]) \in BOOLEAN
  OBVIOUS
<1>2. recording' \in [Objs -> BOOLEAN]
  BY <1>1, Zenon DEF Remove, TypeOK, RoomsTyped
<1>3. QED
  BY <1>2 DEF Remove, TypeOK, RoomsTyped, ClockTyped

LEMMA ConnType ==       \* steps of connections that touch no room and no queue
    ASSUME TypeOK, NEW c \in Conns,
           Dial(c) \/ ReadFail(c) \/ WriteOne(c) \/ WriterReturns(c)
    PROVE  TypeOK'
<1>1. CASE Dial(c)
  BY <1>1 DEF Dial, TypeOK, RoomsTyped, ConnsTyped, ThreadsTyped, ClockTyped, Phases,
              roomVars, threadVars, timeVars
<1>2. CASE ReadFail(c)
  BY <1>2 DEF ReadFail, TypeOK, RoomsTyped, ConnsTyped, ThreadsTyped, ClockTyped, Phases,
              roomVars, threadVars, timeVars
<1>3. CASE WriteOne(c)
  <2>1. buf' \in [Conns -> 0..Cap]
    BY <1>3, OneLessFits DEF WriteOne, TypeOK, ConnsTyped
  <2>2. QED
    BY <1>3, <2>1 DEF WriteOne, TypeOK, RoomsTyped, ConnsTyped, ThreadsTyped, ClockTyped,
                      roomVars, threadVars, timeVars
<1>4. CASE WriterReturns(c)
  BY <1>4 DEF WriterReturns, TypeOK, RoomsTyped, ConnsTyped, ThreadsTyped, ClockTyped,
              roomVars, threadVars, timeVars
<1>5. QED
  BY <1>1, <1>2, <1>3, <1>4

LEMMA HubType ==        \* the three receives of the hub loop
    ASSUME TypeOK, NEW c \in Conns,
           Register(c) \/ Unregister(c) \/ Leave(c)
    PROVE  TypeOK'
<1> USE ThreadsExist
<1>1. CASE Register(c)
  <2>1. RoomsTyped'
    <3>1. CASE hubRoom = NoRoom
      BY <1>1, <3>1, NewRoomType DEF Register, Ids, Users
    <3>2. CASE hubRoom # NoRoom
      BY <1>1, <3>2 DEF Register, TypeOK, RoomsTyped, Ids, Users
    <3>3. QED
      BY <3>1, <3>2
  <2>2. ThreadsTyped'
    BY <1>1, QueueTypes DEF Register, TypeOK, ThreadsTyped
  <2>3. QED
    BY <1>1, <2>1, <2>2 DEF Register, TypeOK, ConnsTyped, ClockTyped, Phases, timeVars
<1>2. CASE Unregister(c)
  <2>1. RoomsTyped'
    <3>1. recording' \in [Objs -> BOOLEAN]
      BY <1>2, RemoveType DEF Unregister, TypeOK, RoomsTyped
    <3>2. clients' \in [Objs -> SUBSET Conns] /\ lastSeen' \in [Objs -> Nat]
      BY <1>2, RemoveType DEF Unregister, TypeOK, RoomsTyped
    <3>3. QED
      BY <1>2, <3>1, <3>2 DEF Unregister, TypeOK, RoomsTyped, ClockTyped
  <2>2. ThreadsTyped'
    <3>1. \A r \in Objs : VoiceStop(r, hostId[r] = IdOf[c]) \in Seq(Ops)
      BY VoiceStopType
    <3>2. \A q \in Seq(Ops) : work[Spawned(c)] \o q \in Seq(Ops)
      BY AppendedType DEF TypeOK, ThreadsTyped
    <3>3. work' \in [Threads -> Seq(Ops)]
      BY <1>2, <3>1, <3>2, QueueTypes DEF Unregister, TypeOK, ThreadsTyped, RoomsTyped
    <3>4. QED
      BY <1>2, <3>3 DEF Unregister, TypeOK, ThreadsTyped, ClockTyped
  <2>3. ConnsTyped' /\ panic' \in Panics
    BY <1>2 DEF Unregister, Remove, TypeOK, ConnsTyped, Phases, Panics
  <2>4. QED
    BY <1>2, <2>1, <2>2, <2>3 DEF Unregister, TypeOK, ClockTyped, timeVars
<1>3. CASE Leave(c)
  <2>1. RoomsTyped'
    <3>1. recording' \in [Objs -> BOOLEAN]
      BY <1>3, RemoveType DEF Leave, TypeOK, RoomsTyped
    <3>2. clients' \in [Objs -> SUBSET Conns] /\ lastSeen' \in [Objs -> Nat]
      BY <1>3, RemoveType DEF Leave, TypeOK, RoomsTyped
    <3>3. QED
      BY <1>3, <3>1, <3>2 DEF Leave, TypeOK, RoomsTyped, ClockTyped
  <2>2. ThreadsTyped'
    <3>1. \A r \in Objs : VoiceStop(r, hostId[r] = IdOf[c]) \in Seq(Ops)
      BY VoiceStopType
    <3>2. \A q \in Seq(Ops) : work[Spawned(c)] \o q \in Seq(Ops)
      BY AppendedType DEF TypeOK, ThreadsTyped
    <3>3. work' \in [Threads -> Seq(Ops)]
      BY <1>3, <3>1, <3>2, QueueTypes DEF Leave, TypeOK, ThreadsTyped, RoomsTyped
    <3>4. QED
      BY <1>3, <3>3 DEF Leave, TypeOK, ThreadsTyped
  <2>3. ConnsTyped' /\ panic' \in Panics
    BY <1>3 DEF Leave, Remove, TypeOK, ConnsTyped, Phases, Panics
  <2>4. QED
    BY <1>3, <2>1, <2>2, <2>3 DEF Leave, TypeOK, ClockTyped, timeVars
<1>4. QED
  BY <1>1, <1>2, <1>3

LEMMA BroadcastType ==  \* steps of any thread t
    ASSUME TypeOK, NEW t \in Threads, NEW r \in Objs,
           BroadcastRoomState(t, r) \/ BroadcastChatMessage(t, r) \/ SnapshotClients(t, r)
    PROVE  TypeOK'
<1>1. CASE BroadcastRoomState(t, r)
  <2>1. work[t] # <<>> /\ Continue(t, <<>>)
    BY <1>1 DEF BroadcastRoomState, Using, Do
  <2>2. work' \in [Threads -> Seq(Ops)] /\ at' \in [Threads -> Objs \cup {NoRoom}]
    BY <2>1, QueueTypes, ContinueType
  <2>3. \A c \in Conns \ (Full \cup closed) : buf[c] + 1 \in 0..Cap
    BY OneMoreFits DEF Full, TypeOK, ConnsTyped
  <2>4. buf' \in [Conns -> 0..Cap]
    BY <1>1, <2>3 DEF BroadcastRoomState, TypeOK, ConnsTyped
  <2>5. closed' \in SUBSET Conns /\ panic' \in Panics
    BY <1>1 DEF BroadcastRoomState, TypeOK, ConnsTyped, RoomsTyped, Full, Panics
  <2>6. clients' \in [Objs -> SUBSET Conns] /\ lastSeen' \in [Objs -> Nat]
    BY <1>1 DEF BroadcastRoomState, TypeOK, RoomsTyped, ClockTyped
  <2>7. QED
    BY <1>1, <2>2, <2>4, <2>5, <2>6
       DEF BroadcastRoomState, TypeOK, RoomsTyped, ConnsTyped, ThreadsTyped, ClockTyped, timeVars
<1>2. CASE BroadcastChatMessage(t, r)
  <2>1. work[t] # <<>> /\ Continue(t, <<>>)
    BY <1>2 DEF BroadcastChatMessage, Using, Do
  <2>2. work' \in [Threads -> Seq(Ops)] /\ at' \in [Threads -> Objs \cup {NoRoom}]
    BY <2>1, QueueTypes, ContinueType
  <2>3. clients[r] \in SUBSET Conns /\ "locked send" \in Panics
    BY DEF TypeOK, RoomsTyped, Panics
  <2>4. buf' \in [Conns -> 0..Cap] /\ panic' \in Panics
    BY <1>2, <2>3, TrySendType DEF BroadcastChatMessage
  <2>5. QED
    BY <1>2, <2>2, <2>4
       DEF BroadcastChatMessage, TypeOK, RoomsTyped, ConnsTyped, ThreadsTyped, ClockTyped, roomVars, timeVars
<1>3. CASE SnapshotClients(t, r)
  <2>1. work[t] # <<>> /\ Continue(t, IF clients[r] = {} THEN <<>> ELSE <<"send">>)
    BY <1>3 DEF SnapshotClients, Using, Do
  <2>2. "send" \in Ops
    BY DEF Ops, LocalOps
  <2>3. work' \in [Threads -> Seq(Ops)] /\ at' \in [Threads -> Objs \cup {NoRoom}]
    BY <2>1, <2>2, QueueTypes, ContinueType
  <2>4. QED
    BY <1>3, <2>3
       DEF SnapshotClients, TypeOK, RoomsTyped, ConnsTyped, ThreadsTyped, ClockTyped, roomVars, connVars, timeVars
<1>4. QED
  BY <1>1, <1>2, <1>3

LEMMA LocalType ==
    ASSUME TypeOK, NEW t \in Threads,
           Lookup(t) \/ SendVoiceEvent(t) \/ SendChatHistory(t) \/ ScheduleCleanup(t)
    PROVE  TypeOK'
<1>1. CASE Lookup(t)
  <2>1. CASE hubRoom = NoRoom
    <3>1. work' \in [Threads -> Seq(Ops)] /\ at' \in [Threads -> Objs \cup {NoRoom}]
      BY <1>1, <2>1, QueueTypes, ContinueType DEF Lookup
    <3>2. QED
      BY <1>1, <3>1 DEF Lookup, TypeOK, RoomsTyped, ConnsTyped, ThreadsTyped, ClockTyped, roomVars, connVars, timeVars
  <2>2. CASE hubRoom # NoRoom
    BY <1>1, <2>2 DEF Lookup, TypeOK, RoomsTyped, ConnsTyped, ThreadsTyped, ClockTyped, roomVars, connVars, timeVars
  <2>3. QED
    BY <2>1, <2>2
<1>2. CASE SendVoiceEvent(t)
  <2>1. PICK c \in snap[t] : /\ TrySend({c}, "voice event")
                             /\ snap' = [snap EXCEPT ![t] = @ \ {c}]
                             /\ IF snap[t] = {c} THEN Continue(t, <<>>) ELSE UNCHANGED <<work, at>>
    BY <1>2 DEF SendVoiceEvent
  <2>2. {c} \in SUBSET Conns /\ "voice event" \in Panics
    BY DEF TypeOK, ThreadsTyped, Panics
  <2>3. buf' \in [Conns -> 0..Cap] /\ panic' \in Panics
    BY <2>1, <2>2, TrySendType
  <2>4. work[t] # <<>>
    BY <1>2 DEF SendVoiceEvent, Do
  <2>5. work' \in [Threads -> Seq(Ops)] /\ at' \in [Threads -> Objs \cup {NoRoom}]
    BY <2>1, <2>4, QueueTypes, ContinueType DEF TypeOK, ThreadsTyped
  <2>6. snap' \in [Threads -> SUBSET Conns]
    BY <2>1 DEF TypeOK, ThreadsTyped
  <2>7. QED
    BY <1>2, <2>3, <2>5, <2>6
       DEF SendVoiceEvent, TypeOK, RoomsTyped, ConnsTyped, ThreadsTyped, ClockTyped, roomVars, timeVars
<1>3. CASE SendChatHistory(t)
  <2>1. snap[t] \in SUBSET Conns /\ "history" \in Panics
    BY DEF TypeOK, ThreadsTyped, Panics
  <2>2. buf' \in [Conns -> 0..Cap] /\ panic' \in Panics
    BY <1>3, <2>1, TrySendType DEF SendChatHistory, TypeOK, ConnsTyped
  <2>3. work' \in [Threads -> Seq(Ops)] /\ at' \in [Threads -> Objs \cup {NoRoom}]
    BY <1>3, QueueTypes, ContinueType DEF SendChatHistory, Do
  <2>4. QED
    BY <1>3, <2>2, <2>3
       DEF SendChatHistory, TypeOK, RoomsTyped, ConnsTyped, ThreadsTyped, ClockTyped, roomVars, timeVars
<1>4. CASE ScheduleCleanup(t)
  <2>1. work' \in [Threads -> Seq(Ops)] /\ at' \in [Threads -> Objs \cup {NoRoom}]
    BY <1>4, QueueTypes, ContinueType DEF ScheduleCleanup, Do
  <2>2. [since |-> stamp, due |-> now + Grace] \in [since : Nat, due : Nat]
    BY TimeAssumption DEF TypeOK, ThreadsTyped, ClockTyped
  <2>3. timers' \in SUBSET [since : Nat, due : Nat]
    BY <1>4, <2>2 DEF ScheduleCleanup, TypeOK, ClockTyped
  <2>4. QED
    BY <1>4, <2>1, <2>3
       DEF ScheduleCleanup, TypeOK, RoomsTyped, ConnsTyped, ThreadsTyped, ClockTyped, roomVars, connVars
<1>5. QED
  BY <1>1, <1>2, <1>3, <1>4

LEMMA HandlerType ==    \* steps of a message handler
    ASSUME TypeOK, NEW c \in Conns, NEW r \in Objs,
           \/ HandleLeave(c, r) \/ HandleChat(c, r) \/ HandleStart(c, r)
           \/ HandleVoiceStart(c, r) \/ HandleVoiceData(c, r)
    PROVE  TypeOK'
<1> DEFINE t == Handler(c)
<1> USE ThreadsExist
<1>1. CASE HandleLeave(c, r)
  <2>1. work' \in [Threads -> Seq(Ops)] /\ at' \in [Threads -> Objs \cup {NoRoom}]
    BY <1>1, QueueTypes, ContinueType DEF HandleLeave, Using, Do
  <2>2. QED
    BY <1>1, <2>1 DEF HandleLeave, TypeOK, RoomsTyped, ConnsTyped, ThreadsTyped, ClockTyped, Phases, roomVars, timeVars
<1>2. CASE HandleChat(c, r)
  <2>1. PICK op \in {"chat", "reply"} : Continue(t, <<op>>)
    BY <1>2 DEF HandleChat
  <2>2. <<op>> \in Seq(Ops)
    BY QueueTypes DEF Ops, LookupOps, LocalOps
  <2>3. work' \in [Threads -> Seq(Ops)] /\ at' \in [Threads -> Objs \cup {NoRoom}]
    BY <1>2, <2>1, <2>2, ContinueType DEF HandleChat, Using, Do
  <2>4. QED
    BY <1>2, <2>3 DEF HandleChat, TypeOK, RoomsTyped, ConnsTyped, ThreadsTyped, ClockTyped, roomVars, connVars, timeVars
<1>3. CASE HandleStart(c, r)
  <2>1. PICK ops \in Seq(Ops) : Continue(t, ops)
    BY <1>3, QueueTypes DEF HandleStart
  <2>2. work' \in [Threads -> Seq(Ops)] /\ at' \in [Threads -> Objs \cup {NoRoom}]
    BY <1>3, <2>1, ContinueType DEF HandleStart, Using, Do
  <2>3. QED
    BY <1>3, <2>2 DEF HandleStart, TypeOK, RoomsTyped, ConnsTyped, ThreadsTyped, ClockTyped, roomVars, connVars, timeVars
<1>4. CASE HandleVoiceStart(c, r)
  <2>1. "voice" \in Ops
    BY DEF Ops, LookupOps
  <2>2. work' \in [Threads -> Seq(Ops)] /\ at' \in [Threads -> Objs \cup {NoRoom}]
    BY <1>4, <2>1, QueueTypes, ContinueType DEF HandleVoiceStart, Using, Do
  <2>3. recording' \in [Objs -> BOOLEAN]
    BY <1>4 DEF HandleVoiceStart, TypeOK, RoomsTyped
  <2>4. QED
    BY <1>4, <2>2, <2>3 DEF HandleVoiceStart, TypeOK, RoomsTyped, ConnsTyped, ThreadsTyped, ClockTyped, connVars, timeVars
<1>5. CASE HandleVoiceData(c, r)
  <2>1. {d \in clients[r] : IdOf[d] # IdOf[c]} \in SUBSET Conns /\ "locked send" \in Panics
    BY DEF TypeOK, RoomsTyped, Panics
  <2>2. buf' \in [Conns -> 0..Cap] /\ panic' \in Panics
    BY <1>5, <2>1, TrySendType DEF HandleVoiceData, TypeOK, ConnsTyped
  <2>3. work' \in [Threads -> Seq(Ops)] /\ at' \in [Threads -> Objs \cup {NoRoom}]
    BY <1>5, QueueTypes, ContinueType DEF HandleVoiceData, Using, Do
  <2>4. QED
    BY <1>5, <2>2, <2>3 DEF HandleVoiceData, TypeOK, RoomsTyped, ConnsTyped, ThreadsTyped, ClockTyped, roomVars, timeVars
<1>6. QED
  BY <1>1, <1>2, <1>3, <1>4, <1>5

LEMMA StopType ==
    ASSUME TypeOK, NEW c \in Conns, NEW r \in Objs, NEW op, HandleStop(c, r, op)
    PROVE  TypeOK'
<1> DEFINE host == hostId[r] = IdOf[c]
<1> USE ThreadsExist
<1>1. recording' \in [Objs -> BOOLEAN]
  <2>1. (recording[r] /\ ~host) \in BOOLEAN
    OBVIOUS
  <2>2. QED
    BY <2>1, Zenon DEF HandleStop, TypeOK, RoomsTyped
<1>2. work' \in [Threads -> Seq(Ops)]
  <2>1. host \in BOOLEAN /\ VoiceStop(r, host) \in Seq(Ops)
    BY VoiceStopType
  <2>2. work[Spawned(c)] \o VoiceStop(r, host) \in Seq(Ops)
    BY <2>1, AppendedType DEF TypeOK, ThreadsTyped
  <2>3. "state" \in Ops
    BY DEF Ops, LookupOps
  <2>4. (IF host /\ op = "stop" THEN <<"state">> ELSE <<>>) \in Seq(Ops)
    BY <2>3, QueueTypes
  <2>5. QED
    BY <2>2, <2>4 DEF HandleStop, TypeOK, ThreadsTyped
<1>3. at' \in [Threads -> Objs \cup {NoRoom}]
  BY DEF HandleStop, TypeOK, ThreadsTyped
<1>4. QED
  BY <1>1, <1>2, <1>3 DEF HandleStop, TypeOK, RoomsTyped, ConnsTyped, ThreadsTyped, ClockTyped, connVars, timeVars

LEMMA SpawnType ==
    ASSUME TypeOK, NEW c \in Conns,
           \/ RateLimitReply(c) \/ LaunchCompletion(c)
           \/ \E r \in Objs : RoomCompletion(c, r)
    PROVE  TypeOK'
<1> USE ThreadsExist
<1>1. CASE RateLimitReply(c)
  <2>1. {c} \in SUBSET Conns /\ "reply" \in Panics
    BY DEF Panics
  <2>2. buf' \in [Conns -> 0..Cap] /\ panic' \in Panics
    BY <1>1, <2>1, TrySendType DEF RateLimitReply
  <2>3. work' \in [Threads -> Seq(Ops)] /\ at' \in [Threads -> Objs \cup {NoRoom}]
    BY <1>1, QueueTypes, ContinueType DEF RateLimitReply, Do
  <2>4. QED
    BY <1>1, <2>2, <2>3 DEF RateLimitReply, TypeOK, RoomsTyped, ConnsTyped, ThreadsTyped, ClockTyped, roomVars, timeVars
<1>2. CASE LaunchCompletion(c)
  <2>1. work[Handler(c)] \in Seq(Ops) /\ work[Spawned(c)] \in Seq(Ops)
    BY DEF TypeOK, ThreadsTyped
  <2>2. Tail(work[Handler(c)]) \in Seq(Ops)
    BY <1>2, <2>1, TailType DEF LaunchCompletion, Do
  <2>3. "complete" \in Ops
    BY DEF Ops, LookupOps
  <2>4. work[Spawned(c)] \o <<"complete">> \in Seq(Ops)
    BY <2>1, <2>3, QueueTypes, AppendedType
  <2>5. work' \in [Threads -> Seq(Ops)]
    BY <1>2, <2>2, <2>4 DEF LaunchCompletion, TypeOK, ThreadsTyped
  <2>6. QED
    BY <1>2, <2>5 DEF LaunchCompletion, TypeOK, RoomsTyped, ConnsTyped, ThreadsTyped, ClockTyped, roomVars, connVars, timeVars
<1>3. ASSUME NEW r \in Objs, RoomCompletion(c, r)
      PROVE  TypeOK'
  <2>1. PICK ops \in {<<>>, <<"state">>, <<"state", "voice">>} : Continue(Spawned(c), ops)
    BY <1>3 DEF RoomCompletion
  <2>2. ops \in Seq(Ops)
    BY QueueTypes DEF Ops, LookupOps
  <2>3. work' \in [Threads -> Seq(Ops)] /\ at' \in [Threads -> Objs \cup {NoRoom}]
    BY <1>3, <2>1, <2>2, ContinueType DEF RoomCompletion, Using, Do
  <2>4. QED
    BY <1>3, <2>3 DEF RoomCompletion, TypeOK, RoomsTyped, ConnsTyped, ThreadsTyped, ClockTyped, roomVars, connVars, timeVars
<1>4. QED
  BY <1>1, <1>2, <1>3

LEMMA EnvironmentType ==
    ASSUME TypeOK,
           \/ \E c \in Conns : \E op \in Kinds : Message(c, op)
           \/ PrepareScheduledRoom \/ Tick \/ \E tm \in timers : Cleanup(tm)
    PROVE  TypeOK'
<1>1. ASSUME NEW c \in Conns, NEW op \in Kinds, Message(c, op)
      PROVE  TypeOK'
  <2>1. op \in Ops
    BY KindsAssumption DEF Ops, LookupOps
  <2>2. work' \in [Threads -> Seq(Ops)]
    BY <1>1, <2>1, QueueTypes, ThreadsExist DEF Message, TypeOK, ThreadsTyped
  <2>3. sent' \in Nat /\ sent' <= MaxMsgs
    BY <1>1, MsgsAssumption DEF Message, TypeOK, ClockTyped
  <2>4. QED
    BY <1>1, <2>2, <2>3 DEF Message, TypeOK, RoomsTyped, ConnsTyped, ThreadsTyped, ClockTyped, roomVars, connVars
<1>2. CASE PrepareScheduledRoom
  <2>1. PICK r \in Objs : NewRoom(r, NoId, EventHost, {})
    BY <1>2 DEF PrepareScheduledRoom
  <2>2. NoId \in Ids /\ EventHost \in Users
    BY DEF Ids, Users
  <2>3. RoomsTyped'
    BY <2>1, <2>2, NewRoomType
  <2>4. QED
    BY <1>2, <2>3 DEF PrepareScheduledRoom, TypeOK, ConnsTyped, ThreadsTyped, ClockTyped,
                      connVars, threadVars, timeVars
<1>3. CASE Tick
  BY <1>3 DEF Tick, TypeOK, RoomsTyped, ConnsTyped, ThreadsTyped, ClockTyped, roomVars, connVars, threadVars
<1>4. ASSUME NEW tm \in timers, Cleanup(tm)
      PROVE  TypeOK'
  BY <1>4 DEF Cleanup, TypeOK, RoomsTyped, ConnsTyped, ThreadsTyped, ClockTyped, connVars, threadVars
<1>5. QED
  BY <1>1, <1>2, <1>3, <1>4

LEMMA StutterType == TypeOK /\ UNCHANGED vars => TypeOK'
BY DEF TypeOK, RoomsTyped, ConnsTyped, ThreadsTyped, ClockTyped, vars, roomVars, connVars, threadVars, timeVars

(* Next, as the list of its actions.                                       *)
LEMMA NextCases ==
    ASSUME Next
    PROVE  \/ \E c \in Conns : \/ Dial(c) \/ ReadFail(c) \/ WriteOne(c) \/ WriterReturns(c)
           \/ \E c \in Conns : Register(c) \/ Unregister(c) \/ Leave(c)
           \/ \E t \in Threads, r \in Objs :
                \/ BroadcastRoomState(t, r) \/ BroadcastChatMessage(t, r)
                \/ SnapshotClients(t, r)
           \/ \E t \in Threads : \/ Lookup(t) \/ SendVoiceEvent(t)
                                 \/ SendChatHistory(t) \/ ScheduleCleanup(t)
           \/ \E c \in Conns, r \in Objs :
                \/ HandleLeave(c, r) \/ HandleChat(c, r) \/ HandleStart(c, r)
                \/ HandleVoiceStart(c, r) \/ HandleVoiceData(c, r)
           \/ \E c \in Conns, r \in Objs, op \in Messages : HandleStop(c, r, op)
           \/ \E c \in Conns : \/ RateLimitReply(c) \/ LaunchCompletion(c)
                               \/ \E r \in Objs : RoomCompletion(c, r)
           \/ \/ \E c \in Conns : \E op \in Kinds : Message(c, op)
              \/ PrepareScheduledRoom \/ Tick \/ \E tm \in timers : Cleanup(tm)
<1>1. CASE HubRun
  BY <1>1, ThreadsExist, Zenon DEF HubRun
<1>2. CASE \E c \in Conns : HandlerRun(c)
  BY <1>2, ThreadsExist, Zenon DEF HandlerRun
<1>3. CASE \E c \in Conns : SpawnedRun(c)
  BY <1>3, ThreadsExist, Zenon DEF SpawnedRun
<1>4. QED
  BY <1>1, <1>2, <1>3, Zenon DEF Next, HubStep, ConnStep

LEMMA TypeStep == TypeOK /\ [Next]_vars => TypeOK'
<1> SUFFICES ASSUME TypeOK, Next PROVE TypeOK'
  BY StutterType
<1>1. QED
  BY NextCases, ConnType, HubType, BroadcastType, LocalType, HandlerType, StopType,
     SpawnType, EnvironmentType, Zenon

(* Every variable keeps its type, whatever the connections do: the channel *)
(* buffers stay within their capacity, and no thread holds a pointer to    *)
(* something that is not a room object.                                    *)
THEOREM TypeCorrect == Spec => []TypeOK
<1>1. QED
  BY InitType, TypeStep, PTL DEF Spec

(***************************************************************************)
(* Channel safety: ChannelInv is inductive.                                *)
(***************************************************************************)
LEMMA ChannelInit == Init => ChannelInv
BY DEF Init, ChannelInv, OrphansEmpty, MembersAreOpen, LockedUseIsSafe, ClosedByTheEnd,
       Registered

(* Steps that leave the client maps and the channels alone.                *)
LEMMA ChannelFrame ==
    ASSUME ChannelInv, UNCHANGED <<hubRoom, clients, closed>>,
           panic' \notin {"close", "locked send"},
           \A c \in Conns : \/ phase'[c] = phase[c]
                            \/ phase[c] = "new" /\ phase'[c] = "dialing"
                            \/ phase[c] \in Registered /\ phase'[c] \in Registered
    PROVE  ChannelInv'
BY DEF ChannelInv, OrphansEmpty, MembersAreOpen, LockedUseIsSafe, ClosedByTheEnd, Registered

LEMMA ChannelConn ==
    ASSUME TypeOK, ChannelInv, NEW c \in Conns,
           Dial(c) \/ ReadFail(c) \/ WriteOne(c) \/ WriterReturns(c)
    PROVE  ChannelInv'
<1>1. UNCHANGED <<hubRoom, clients, closed, panic>>
  BY DEF Dial, ReadFail, WriteOne, WriterReturns, roomVars
<1>2. panic' \notin {"close", "locked send"}
  BY <1>1 DEF ChannelInv, LockedUseIsSafe
<1>3. \A d \in Conns : \/ phase'[d] = phase[d]
                       \/ phase[d] = "new" /\ phase'[d] = "dialing"
                       \/ phase[d] \in Registered /\ phase'[d] \in Registered
  BY DEF Dial, ReadFail, WriteOne, WriterReturns, TypeOK, ConnsTyped, Registered
<1>4. QED
  BY <1>1, <1>2, <1>3, ChannelFrame

(* A room object that comes into use while h.Rooms has no entry.           *)
LEMMA ChannelNewRoom ==
    ASSUME TypeOK, ChannelInv, hubRoom = NoRoom, NEW r \in Objs, NEW id, NEW user,
           NEW S \in SUBSET Conns, NewRoom(r, id, user, S)
    PROVE  /\ hubRoom' # NoRoom
           /\ clients'[hubRoom'] = S
           /\ OrphansEmpty'
BY NoRoomAssumption DEF TypeOK, RoomsTyped, ChannelInv, OrphansEmpty, NewRoom

(* Taking an existing member out of the room keeps the invariant for       *)
(* everybody else, and closes an open channel.                             *)
LEMMA ChannelRemove ==
    ASSUME TypeOK, ChannelInv, hubRoom # NoRoom, NEW c \in Conns, c \in clients[hubRoom],
           Remove(hubRoom, c)
    PROVE  /\ \A r \in Objs : r # hubRoom => clients'[r] = {}
           /\ clients'[hubRoom] = clients[hubRoom] \ {c}
           /\ closed' = closed \cup {c}
           /\ panic' = panic
BY DEF TypeOK, RoomsTyped, ChannelInv, OrphansEmpty, MembersAreOpen, Remove

LEMMA ChannelHub ==
    ASSUME TypeOK, ChannelInv, NEW c \in Conns,
           Register(c) \/ Unregister(c) \/ Leave(c)
    PROVE  ChannelInv'
<1>1. CASE Register(c)
  <2>1. c \notin closed /\ phase' = [phase EXCEPT ![c] = "live"]
    BY <1>1 DEF Register, ChannelInv, ClosedByTheEnd
  <2>2. UNCHANGED <<closed, panic>>
    BY <1>1 DEF Register
  <2>3. CASE hubRoom = NoRoom
    <3>1. /\ hubRoom' # NoRoom
          /\ clients'[hubRoom'] = {c}
          /\ OrphansEmpty'
      BY <1>1, <2>3, ChannelNewRoom DEF Register
    <3>2. QED
      BY <2>1, <2>2, <2>3, <3>1
         DEF TypeOK, ConnsTyped, ChannelInv, MembersAreOpen, LockedUseIsSafe,
             ClosedByTheEnd, Registered
  <2>4. CASE hubRoom # NoRoom
    <3>1. /\ hubRoom' = hubRoom
          /\ clients' = [clients EXCEPT ![hubRoom] = @ \cup {c}]
      BY <1>1, <2>4 DEF Register
    <3>2. QED
      BY <2>1, <2>2, <2>4, <3>1
         DEF TypeOK, RoomsTyped, ConnsTyped, ChannelInv, OrphansEmpty, MembersAreOpen,
             LockedUseIsSafe, ClosedByTheEnd, Registered
  <2>5. QED
    BY <2>3, <2>4
<1>2. CASE Unregister(c)
  <2>1. hubRoom' = hubRoom /\ phase[c] = "ending" /\ phase' = [phase EXCEPT ![c] = "done"]
    BY <1>2 DEF Unregister
  <2>2. CASE hubRoom # NoRoom /\ c \in clients[hubRoom]
    <3>1. Remove(hubRoom, c)
      BY <1>2, <2>2 DEF Unregister
    <3>2. QED
      BY <2>1, <2>2, <3>1, ChannelRemove
         DEF TypeOK, ConnsTyped, ChannelInv, OrphansEmpty, MembersAreOpen,
             LockedUseIsSafe, ClosedByTheEnd, Registered
  <2>3. CASE ~(hubRoom # NoRoom /\ c \in clients[hubRoom])
    <3>1. UNCHANGED <<clients, closed, panic>>
      BY <1>2, <2>3 DEF Unregister
    <3>2. c \in closed
      BY <2>1, <2>3 DEF ChannelInv, MembersAreOpen, Registered
    <3>3. QED
      BY <2>1, <2>3, <3>1, <3>2
         DEF TypeOK, ConnsTyped, ChannelInv, OrphansEmpty, MembersAreOpen,
             LockedUseIsSafe, ClosedByTheEnd, Registered
  <2>4. QED
    BY <2>2, <2>3
<1>3. CASE Leave(c)
  <2>1. phase[c] = "leaving" /\ phase' = [phase EXCEPT ![c] = "live"]
    BY <1>3 DEF Leave
  <2>2. CASE hubRoom # NoRoom /\ c \in clients[hubRoom]
    <3>1. Remove(hubRoom, c)
      BY <1>3, <2>2 DEF Leave
    <3>2. hubRoom' = IF clients[hubRoom] = {c} THEN NoRoom ELSE hubRoom
      BY <1>3, <2>2 DEF Leave
    <3>3. QED
      BY <2>1, <2>2, <3>1, <3>2, ChannelRemove
         DEF TypeOK, RoomsTyped, ConnsTyped, ChannelInv, OrphansEmpty, MembersAreOpen,
             LockedUseIsSafe, ClosedByTheEnd, Registered
  <2>3. CASE ~(hubRoom # NoRoom /\ c \in clients[hubRoom])
    <3>1. UNCHANGED <<hubRoom, clients, closed, panic>>
      BY <1>3, <2>3 DEF Leave
    <3>2. \A d \in Conns : \/ phase'[d] = phase[d]
                           \/ phase[d] = "new" /\ phase'[d] = "dialing"
                           \/ phase[d] \in Registered /\ phase'[d] \in Registered
      BY <2>1 DEF TypeOK, ConnsTyped, Registered
    <3>3. panic' \notin {"close", "locked send"}
      BY <3>1 DEF ChannelInv, LockedUseIsSafe
    <3>4. QED
      BY <3>1, <3>2, <3>3, ChannelFrame
  <2>4. QED
    BY <2>2, <2>3
<1>4. QED
  BY <1>1, <1>2, <1>3

(* Whatever pointer a thread holds: the clients it finds there are open.   *)
LEMMA MembersOpen ==
    ASSUME TypeOK, ChannelInv, NEW r \in Objs
    PROVE  clients[r] \cap closed = {}
<1> SUFFICES ASSUME NEW c \in clients[r], c \in closed PROVE FALSE
  OBVIOUS
<1>1. c \in Conns
  BY DEF TypeOK, RoomsTyped
<1>2. r = hubRoom /\ hubRoom # NoRoom
  BY NoRoomAssumption DEF ChannelInv, OrphansEmpty
<1>3. QED
  BY <1>1, <1>2 DEF ChannelInv, MembersAreOpen

LEMMA ChannelThreads ==
    ASSUME TypeOK, ChannelInv, NEW t \in Threads
    PROVE  /\ \A r \in Objs : \/ BroadcastRoomState(t, r) \/ BroadcastChatMessage(t, r)
                              \/ SnapshotClients(t, r)
                            => ChannelInv'
           /\ \/ Lookup(t) \/ SendVoiceEvent(t) \/ SendChatHistory(t) \/ ScheduleCleanup(t)
              => ChannelInv'
<1>1. ASSUME NEW r \in Objs
      PROVE  clients[r] \cap closed = {}
  BY MembersOpen
<1>2. panic \notin {"close", "locked send"}
  BY DEF ChannelInv, LockedUseIsSafe
<1>3. ASSUME NEW r \in Objs, BroadcastRoomState(t, r)
      PROVE  ChannelInv'
  <2> DEFINE evicted == clients[r] \cap Full
  <2>1. /\ clients' = [clients EXCEPT ![r] = @ \ evicted]
        /\ closed' = closed \cup evicted
        /\ UNCHANGED <<hubRoom, phase>>
    BY <1>3 DEF BroadcastRoomState
  <2>2. panic' = panic
    BY <1>1, <1>3 DEF BroadcastRoomState
  <2>3. CASE r = hubRoom
    <3>1. /\ clients'[hubRoom] = clients[hubRoom] \ evicted
          /\ \A q \in Objs : q # hubRoom => clients'[q] = clients[q]
          /\ hubRoom # NoRoom
      BY <2>1, <2>3, NoRoomAssumption DEF TypeOK, RoomsTyped
    <3>2. \A c \in evicted : c \in clients[hubRoom]
      BY <2>3
    <3>3. QED
      BY <2>1, <2>2, <3>1, <3>2
         DEF TypeOK, RoomsTyped, ConnsTyped, ChannelInv, OrphansEmpty, MembersAreOpen,
             LockedUseIsSafe, ClosedByTheEnd, Registered
  <2>4. CASE r # hubRoom
    <3>1. evicted = {}
      BY <2>4 DEF ChannelInv, OrphansEmpty
    <3>2. UNCHANGED <<hubRoom, clients, closed>>
      BY <2>1, <3>1 DEF TypeOK, RoomsTyped
    <3>3. QED
      BY <1>2, <2>1, <2>2, <3>2, ChannelFrame
  <2>5. QED
    BY <2>3, <2>4
<1>4. ASSUME NEW r \in Objs, BroadcastChatMessage(t, r)
      PROVE  ChannelInv'
  <2>1. panic' = panic /\ UNCHANGED <<hubRoom, clients, closed, phase>>
    BY <1>1, <1>4 DEF BroadcastChatMessage, TrySend, roomVars
  <2>2. QED
    BY <1>2, <2>1, ChannelFrame
<1>5. ASSUME NEW r \in Objs, SnapshotClients(t, r)
      PROVE  ChannelInv'
  BY <1>2, <1>5, ChannelFrame DEF SnapshotClients, roomVars, connVars
<1>6. CASE Lookup(t)
  BY <1>2, <1>6, ChannelFrame DEF Lookup, roomVars, connVars
<1>7. CASE SendVoiceEvent(t)
  BY <1>2, <1>7, ChannelFrame DEF SendVoiceEvent, TrySend, roomVars
<1>8. CASE SendChatHistory(t)
  BY <1>2, <1>8, ChannelFrame DEF SendChatHistory, TrySend, roomVars
<1>9. CASE ScheduleCleanup(t)
  BY <1>2, <1>9, ChannelFrame DEF ScheduleCleanup, roomVars, connVars
<1>10. QED
  BY <1>3, <1>4, <1>5, <1>6, <1>7, <1>8, <1>9

LEMMA ChannelHandlers ==
    ASSUME TypeOK, ChannelInv, NEW c \in Conns
    PROVE  /\ \A r \in Objs :
                \/ HandleLeave(c, r) \/ HandleChat(c, r) \/ HandleStart(c, r)
                \/ HandleVoiceStart(c, r) \/ HandleVoiceData(c, r)
                \/ \E op \in Messages : HandleStop(c, r, op)
                \/ RoomCompletion(c, r)
                => ChannelInv'
           /\ RateLimitReply(c) \/ LaunchCompletion(c) => ChannelInv'
           /\ \A op \in Kinds : Message(c, op) => ChannelInv'
<1>1. panic \notin {"close", "locked send"}
  BY DEF ChannelInv, LockedUseIsSafe
<1>2. ASSUME NEW r \in Objs, HandleLeave(c, r)
      PROVE  ChannelInv'
  <2>1. UNCHANGED <<hubRoom, clients, closed, panic>>
    BY <1>2 DEF HandleLeave, roomVars
  <2>2. \A d \in Conns : \/ phase'[d] = phase[d]
                         \/ phase[d] \in Registered /\ phase'[d] \in Registered
    BY <1>2 DEF HandleLeave, TypeOK, ConnsTyped, Registered
  <2>3. QED
    BY <1>1, <2>1, <2>2, ChannelFrame
<1>3. ASSUME NEW r \in Objs,
             \/ HandleChat(c, r) \/ HandleStart(c, r) \/ HandleVoiceStart(c, r)
             \/ \E op \in Messages : HandleStop(c, r, op)
             \/ RoomCompletion(c, r)
      PROVE  ChannelInv'
  <2>1. UNCHANGED <<hubRoom, clients, closed, panic, phase>>
    BY <1>3 DEF HandleChat, HandleStart, HandleVoiceStart, HandleStop, RoomCompletion,
                roomVars, connVars
  <2>2. QED
    BY <1>1, <2>1, ChannelFrame
<1>4. ASSUME NEW r \in Objs, HandleVoiceData(c, r)
      PROVE  ChannelInv'
  <2>1. clients[r] \cap closed = {}
    BY MembersOpen
  <2>2. {d \in clients[r] : IdOf[d] # IdOf[c]} \cap closed = {}
    BY <2>1
  <2>3. panic' = panic /\ UNCHANGED <<hubRoom, clients, closed, phase>>
    BY <1>4, <2>2 DEF HandleVoiceData, TrySend, roomVars
  <2>4. QED
    BY <1>1, <2>3, ChannelFrame
<1>5. CASE RateLimitReply(c)
  BY <1>1, <1>5, ChannelFrame DEF RateLimitReply, TrySend, roomVars
<1>6. CASE LaunchCompletion(c)
  BY <1>1, <1>6, ChannelFrame DEF LaunchCompletion, roomVars, connVars
<1>7. ASSUME NEW op \in Kinds, Message(c, op)
      PROVE  ChannelInv'
  BY <1>1, <1>7, ChannelFrame DEF Message, roomVars, connVars
<1>8. QED
  BY <1>2, <1>3, <1>4, <1>5, <1>6, <1>7

LEMMA ChannelClock ==
    ASSUME TypeOK, ChannelInv,
           PrepareScheduledRoom \/ Tick \/ \E tm \in timers : Cleanup(tm)
    PROVE  ChannelInv'
<1>1. panic \notin {"close", "locked send"}
  BY DEF ChannelInv, LockedUseIsSafe
<1>2. CASE PrepareScheduledRoom
  <2>1. PICK r \in Objs : NewRoom(r, NoId, EventHost, {})
    BY <1>2 DEF PrepareScheduledRoom
  <2>2. /\ hubRoom = NoRoom /\ hubRoom' # NoRoom
        /\ clients'[hubRoom'] = {}
        /\ OrphansEmpty'
    BY <1>2, <2>1, ChannelNewRoom DEF PrepareScheduledRoom
  <2>3. UNCHANGED <<closed, panic, phase>>
    BY <1>2 DEF PrepareScheduledRoom, connVars
  <2>4. QED
    BY <2>2, <2>3 DEF ChannelInv, MembersAreOpen, LockedUseIsSafe, ClosedByTheEnd
<1>3. CASE Tick
  BY <1>1, <1>3, ChannelFrame DEF Tick, roomVars, connVars
<1>4. ASSUME NEW tm \in timers, Cleanup(tm)
      PROVE  ChannelInv'
  <2>1. UNCHANGED <<clients, closed, panic, phase>>
    BY <1>4 DEF Cleanup, connVars
  <2>2. hubRoom' = hubRoom \/ (hubRoom' = NoRoom /\ clients[hubRoom] = {})
    BY <1>4 DEF Cleanup
  <2>3. QED
    BY <1>1, <2>1, <2>2
       DEF ChannelInv, OrphansEmpty, MembersAreOpen, LockedUseIsSafe, ClosedByTheEnd
<1>5. QED
  BY <1>2, <1>3, <1>4

LEMMA ChannelStutter == ChannelInv /\ UNCHANGED vars => ChannelInv'
BY DEF ChannelInv, OrphansEmpty, MembersAreOpen, LockedUseIsSafe, ClosedByTheEnd,
       vars, roomVars, connVars

LEMMA ChannelStep == TypeOK /\ ChannelInv /\ [Next]_vars => ChannelInv'
<1> SUFFICES ASSUME TypeOK, ChannelInv, Next PROVE ChannelInv'
  BY ChannelStutter
<1>1. QED
  BY NextCases, ChannelConn, ChannelHub, ChannelThreads, ChannelHandlers, ChannelClock,
     Zenon

(* For every number of connections and every channel capacity: a room      *)
(* object out of h.Rooms has no clients, a connection is a member exactly  *)
(* while it is registered with an open channel, and neither close nor a    *)
(* send under room.Mutex can panic.                                        *)
THEOREM ChannelSafety == Spec => [](OrphansEmpty /\ MembersAreOpen /\ LockedUseIsSafe)
<1>1. TypeOK /\ ChannelInv /\ [Next]_vars => ChannelInv'
  BY ChannelStep
<1>2. ChannelInv => OrphansEmpty /\ MembersAreOpen /\ LockedUseIsSafe
  BY DEF ChannelInv
<1>3. QED
  BY <1>1, <1>2, ChannelInit, TypeCorrect, PTL DEF Spec

-----------------------------------------------------------------------------
(***************************************************************************)
(* The reconnect grace period.                                             *)
(***************************************************************************)
LEMMA GraceInit == Init => GraceInv
BY DEF Init, GraceInv

LEMMA GraceFrame ==
    ASSUME GraceInv, UNCHANGED <<clients, emptySince, lastSeen, timers, stamp, now>>
    PROVE  GraceInv'
BY DEF GraceInv

(* Taking a client out of a room: a mark is set only with the present time.*)
LEMMA GraceRemove ==
    ASSUME TypeOK, GraceInv, NEW r \in Objs, NEW c \in clients[r], Remove(r, c),
           \/ emptySince' = emptySince
           \/ clients[r] = {c} /\ emptySince' = [emptySince EXCEPT ![r] = now]
    PROVE  \A q \in Objs : emptySince'[q] > 0 =>
              clients'[q] = {} /\ emptySince'[q] >= lastSeen'[q]
<1>1. emptySince[r] = 0
  BY DEF TypeOK, RoomsTyped, GraceInv
<1>2. /\ clients' = [clients EXCEPT ![r] = @ \ {c}]
      /\ lastSeen' = [lastSeen EXCEPT ![r] = now]
  BY DEF Remove
<1>3. \A q \in Objs : q # r => /\ emptySince'[q] = emptySince[q]
                               /\ clients'[q] = clients[q]
                               /\ lastSeen'[q] = lastSeen[q]
  BY <1>2 DEF TypeOK, RoomsTyped
<1>4. emptySince'[r] > 0 => clients'[r] = {} /\ emptySince'[r] >= lastSeen'[r]
  BY <1>1, <1>2 DEF TypeOK, RoomsTyped, ClockTyped
<1>5. QED
  BY <1>3, <1>4 DEF GraceInv

LEMMA GraceHub ==
    ASSUME TypeOK, ChannelInv, GraceInv, NEW c \in Conns,
           Register(c) \/ Unregister(c) \/ Leave(c)
    PROVE  GraceInv'
<1>1. UNCHANGED <<timers, now>>
  BY DEF Register, Unregister, Leave, timeVars
<1>2. CASE Register(c)
  <2>1. stamp' = stamp
    BY <1>2 DEF Register
  <2>2. PICK r \in Objs :
           /\ emptySince' = [emptySince EXCEPT ![r] = 0]
           /\ \A q \in Objs : q # r => clients'[q] = clients[q] /\ lastSeen'[q] = lastSeen[q]
    BY <1>2 DEF Register, NewRoom, TypeOK, RoomsTyped
  <2>3. QED
    BY <1>1, <2>1, <2>2 DEF GraceInv, TypeOK, RoomsTyped
<1>3. CASE Unregister(c)
  <2>1. stamp' = now \/ stamp' = 0
    BY <1>3 DEF Unregister
  <2>2. stamp' <= now
    BY <2>1 DEF TypeOK, ClockTyped
  <2>3. CASE hubRoom # NoRoom /\ c \in clients[hubRoom]
    <3>1. /\ Remove(hubRoom, c)
          /\ emptySince' = [emptySince EXCEPT ![hubRoom] =
                                IF clients[hubRoom] = {c} THEN now ELSE @]
      BY <1>3, <2>3 DEF Unregister
    <3>2. \/ emptySince' = emptySince
          \/ clients[hubRoom] = {c} /\ emptySince' = [emptySince EXCEPT ![hubRoom] = now]
      BY <3>1 DEF TypeOK, RoomsTyped
    <3>3. \A q \in Objs : emptySince'[q] > 0 =>
             clients'[q] = {} /\ emptySince'[q] >= lastSeen'[q]
      BY <2>3, <3>1, <3>2, GraceRemove DEF TypeOK, RoomsTyped
    <3>4. QED
      BY <1>1, <2>2, <3>3 DEF GraceInv
  <2>4. CASE ~(hubRoom # NoRoom /\ c \in clients[hubRoom])
    <3>1. UNCHANGED <<clients, emptySince, lastSeen>>
      BY <1>3, <2>4 DEF Unregister
    <3>2. QED
      BY <1>1, <2>2, <3>1 DEF GraceInv
  <2>5. QED
    BY <2>3, <2>4
<1>4. CASE Leave(c)
  <2>1. UNCHANGED <<emptySince, stamp>>
    BY <1>4 DEF Leave
  <2>2. CASE hubRoom # NoRoom /\ c \in clients[hubRoom]
    <3>1. Remove(hubRoom, c)
      BY <1>4, <2>2 DEF Leave
    <3>2. \A q \in Objs : emptySince'[q] > 0 =>
             clients'[q] = {} /\ emptySince'[q] >= lastSeen'[q]
      BY <2>1, <2>2, <3>1, GraceRemove DEF TypeOK, RoomsTyped
    <3>3. QED
      BY <1>1, <2>1, <3>2 DEF GraceInv
  <2>3. CASE ~(hubRoom # NoRoom /\ c \in clients[hubRoom])
    <3>1. UNCHANGED <<clients, lastSeen>>
      BY <1>4, <2>3 DEF Leave
    <3>2. QED
      BY <1>1, <2>1, <3>1, GraceFrame
  <2>4. QED
    BY <2>2, <2>3
<1>5. QED
  BY <1>2, <1>3, <1>4

LEMMA GraceThreads ==
    ASSUME TypeOK, GraceInv, NEW t \in Threads
    PROVE  /\ \A r \in Objs : \/ BroadcastRoomState(t, r) \/ BroadcastChatMessage(t, r)
                              \/ SnapshotClients(t, r)
                             => GraceInv'
           /\ \/ Lookup(t) \/ SendVoiceEvent(t) \/ SendChatHistory(t) \/ ScheduleCleanup(t)
              => GraceInv'
<1>1. ASSUME NEW r \in Objs, BroadcastRoomState(t, r)
      PROVE  GraceInv'
  <2> DEFINE evicted == clients[r] \cap Full
  <2>1. /\ UNCHANGED <<emptySince, stamp, timers, now>>
        /\ clients' = [clients EXCEPT ![r] = @ \ evicted]
        /\ lastSeen' = IF evicted = {} THEN lastSeen ELSE [lastSeen EXCEPT ![r] = now]
    BY <1>1 DEF BroadcastRoomState, timeVars
  <2>2. \A q \in Objs : emptySince[q] > 0 =>
           clients'[q] = {} /\ lastSeen'[q] = lastSeen[q]
    BY <2>1 DEF GraceInv, TypeOK, RoomsTyped
  <2>3. QED
    BY <2>1, <2>2 DEF GraceInv
<1>2. ASSUME NEW r \in Objs, BroadcastChatMessage(t, r) \/ SnapshotClients(t, r)
      PROVE  GraceInv'
  BY <1>2, GraceFrame DEF BroadcastChatMessage, SnapshotClients, roomVars, timeVars
<1>3. CASE Lookup(t) \/ SendVoiceEvent(t) \/ SendChatHistory(t)
  BY <1>3, GraceFrame DEF Lookup, SendVoiceEvent, SendChatHistory, roomVars, timeVars
<1>4. CASE ScheduleCleanup(t)
  <2>1. /\ timers' = IF stamp = 0 THEN timers
                     ELSE timers \cup {[since |-> stamp, due |-> now + Grace]}
        /\ stamp' = 0
        /\ UNCHANGED <<clients, emptySince, lastSeen, now>>
    BY <1>4 DEF ScheduleCleanup, roomVars
  <2>2. stamp # 0 => stamp > 0 /\ now + Grace >= stamp + Grace
    BY TimeAssumption DEF GraceInv, TypeOK, ThreadsTyped, ClockTyped
  <2>3. \A tm \in timers' : tm.since > 0 /\ tm.due >= tm.since + Grace
    BY <2>1, <2>2 DEF GraceInv
  <2>4. QED
    BY <2>1, <2>3 DEF GraceInv, TypeOK, ClockTyped
<1>5. QED
  BY <1>1, <1>2, <1>3, <1>4

LEMMA GraceOthers ==
    ASSUME TypeOK, GraceInv, NEW c \in Conns
    PROVE  /\ \/ Dial(c) \/ ReadFail(c) \/ WriteOne(c) \/ WriterReturns(c)
              \/ RateLimitReply(c) \/ LaunchCompletion(c)
              => GraceInv'
           /\ \A r \in Objs :
                \/ HandleLeave(c, r) \/ HandleChat(c, r) \/ HandleStart(c, r)
                \/ HandleVoiceStart(c, r) \/ HandleVoiceData(c, r)
                \/ \E op \in Messages : HandleStop(c, r, op)
                \/ RoomCompletion(c, r)
                => GraceInv'
           /\ \A op \in Kinds : Message(c, op) => GraceInv'
BY GraceFrame DEF Dial, ReadFail, WriteOne, WriterReturns, RateLimitReply, LaunchCompletion,
   HandleLeave, HandleChat, HandleStart, HandleVoiceStart, HandleVoiceData, HandleStop,
   RoomCompletion, Message, roomVars, threadVars, timeVars

LEMMA GraceClock ==
    ASSUME TypeOK, GraceInv,
           PrepareScheduledRoom \/ Tick \/ \E tm \in timers : Cleanup(tm)
    PROVE  GraceInv'
<1>1. CASE PrepareScheduledRoom
  <2>1. PICK r \in Objs : NewRoom(r, NoId, EventHost, {})
    BY <1>1 DEF PrepareScheduledRoom
  <2>2. /\ UNCHANGED <<stamp, timers, now>>
        /\ \A q \in Objs : q # r => /\ clients'[q] = clients[q]
                                    /\ lastSeen'[q] = lastSeen[q]
                                    /\ emptySince'[q] = emptySince[q]
        /\ emptySince'[r] = 0
    BY <1>1, <2>1 DEF PrepareScheduledRoom, NewRoom, TypeOK, RoomsTyped, threadVars, timeVars
  <2>3. QED
    BY <2>2 DEF GraceInv
<1>2. CASE Tick
  BY <1>2 DEF Tick, GraceInv, TypeOK, ThreadsTyped, ClockTyped, roomVars, threadVars
<1>3. ASSUME NEW tm \in timers, Cleanup(tm)
      PROVE  GraceInv'
  BY <1>3 DEF Cleanup, GraceInv, threadVars
<1>4. QED
  BY <1>1, <1>2, <1>3

LEMMA GraceStep == TypeOK /\ ChannelInv /\ GraceInv /\ [Next]_vars => GraceInv'
<1>1. GraceInv /\ UNCHANGED vars => GraceInv'
  BY GraceFrame DEF vars, roomVars, threadVars, timeVars
<1> SUFFICES ASSUME TypeOK, ChannelInv, GraceInv, Next PROVE GraceInv'
  BY <1>1
<1>2. QED
  BY NextCases, GraceHub, GraceThreads, GraceOthers, GraceClock, Zenon

(* Only an explicit leave or a cleanup takes the room out of h.Rooms.      *)
LEMMA RoomsGoTwoWays ==
    ASSUME TypeOK, ChannelInv, GraceInv, Next, NEW r \in Objs, hubRoom = r, hubRoom' # r
    PROVE  \/ \E c \in Conns : clients[r] = {c} /\ phase[c] = "leaving"
           \/ clients[r] = {} /\ now >= lastSeen[r] + Grace
<1>1. hubRoom # NoRoom
  BY NoRoomAssumption
<1>2. ASSUME NEW c \in Conns, Leave(c)
      PROVE  clients[r] = {c} /\ phase[c] = "leaving"
  BY <1>2 DEF Leave
<1>3. ASSUME NEW tm \in timers, Cleanup(tm)
      PROVE  clients[r] = {} /\ now >= lastSeen[r] + Grace
  <2>1. clients[r] = {} /\ emptySince[r] = tm.since /\ now >= tm.due
    BY <1>3 DEF Cleanup
  <2>2. tm.since > 0 /\ tm.due >= tm.since + Grace
    BY DEF GraceInv
  <2>3. emptySince[r] >= lastSeen[r]
    BY <2>1, <2>2 DEF GraceInv
  <2>4. /\ tm.since \in Nat /\ tm.due \in Nat /\ now \in Nat
        /\ emptySince[r] \in Nat /\ lastSeen[r] \in Nat
    BY DEF TypeOK, RoomsTyped, ClockTyped
  <2>5. QED
    BY <2>1, <2>2, <2>3, <2>4, TimeAssumption
<1>4. ASSUME NEW c \in Conns, Register(c) \/ Unregister(c)
      PROVE  FALSE
  BY <1>1, <1>4 DEF Register, Unregister
<1>5. ~PrepareScheduledRoom
  BY <1>1 DEF PrepareScheduledRoom
<1>6. ASSUME NEW t \in Threads,
             \/ \E q \in Objs : \/ BroadcastRoomState(t, q) \/ BroadcastChatMessage(t, q)
                                \/ SnapshotClients(t, q)
             \/ Lookup(t) \/ SendVoiceEvent(t) \/ SendChatHistory(t) \/ ScheduleCleanup(t)
      PROVE  FALSE
  BY <1>6 DEF BroadcastRoomState, BroadcastChatMessage, SnapshotClients, Lookup,
              SendVoiceEvent, SendChatHistory, ScheduleCleanup, roomVars
<1>7. ASSUME NEW c \in Conns,
             \/ Dial(c) \/ ReadFail(c) \/ WriteOne(c) \/ WriterReturns(c)
             \/ RateLimitReply(c) \/ LaunchCompletion(c)
             \/ \E q \in Objs :
                  \/ HandleLeave(c, q) \/ HandleChat(c, q) \/ HandleStart(c, q)
                  \/ HandleVoiceStart(c, q) \/ HandleVoiceData(c, q)
                  \/ \E op \in Messages : HandleStop(c, q, op)
                  \/ RoomCompletion(c, q)
             \/ \E op \in Kinds : Message(c, op)
      PROVE  FALSE
  BY <1>7 DEF Dial, ReadFail, WriteOne, WriterReturns, RateLimitReply, LaunchCompletion,
     HandleLeave, HandleChat, HandleStart, HandleVoiceStart, HandleVoiceData, HandleStop,
     RoomCompletion, Message, roomVars
<1>8. ~Tick
  BY DEF Tick, roomVars
<1>9. QED
  BY NextCases, <1>2, <1>3, <1>4, <1>5, <1>6, <1>7, <1>8, Zenon

(* A room whose participants dropped out is there for them during the      *)
(* whole grace period, whatever cleanup goroutines of earlier empty spells *)
(* are still pending.                                                      *)
THEOREM GraceRespected == Spec => RoomOutlivesDisconnects
<1>1. TypeOK /\ ChannelInv /\ GraceInv /\ [Next]_vars =>
        [\A r \in Objs : hubRoom = r /\ hubRoom' # r =>
            \/ \E c \in Conns : clients[r] = {c} /\ phase[c] = "leaving"
            \/ clients[r] = {} /\ now >= lastSeen[r] + Grace]_vars
  BY RoomsGoTwoWays DEF vars
<1>2. QED
  BY <1>1, InitType, TypeStep, ChannelInit, ChannelStep, GraceInit, GraceStep, PTL
     DEF Spec, RoomOutlivesDisconnects

(***************************************************************************)
(* A marked room has a cleanup coming.                                     *)
(***************************************************************************)
LEMMA ScheduledInit == Init => MarkedIsScheduled
BY DEF Init, MarkedIsScheduled

(* The rest of the hub loop's queue keeps its schedule entry.              *)
LEMMA ScheduleStays ==
    ASSUME TypeOK, NEW t \in Threads, work[t] # <<>>, Continue(t, <<>>),
           t = HubLoop => Head(work[t]) # "schedule",
           NEW i \in DOMAIN work[HubLoop], work[HubLoop][i] = "schedule"
    PROVE  \E j \in DOMAIN work'[HubLoop] : work'[HubLoop][j] = "schedule"
<1>1. CASE t # HubLoop
  BY <1>1, ThreadsExist DEF Continue, TypeOK, ThreadsTyped
<1>2. CASE t = HubLoop
  <2> DEFINE q == work[HubLoop]
  <2>1. q \in Seq(Ops) /\ q # <<>> /\ Head(q) # "schedule"
    BY <1>2, ThreadsExist DEF TypeOK, ThreadsTyped
  <2>2. i \in 1..Len(q) /\ i # 1
    BY <2>1, HeadTailProperties
  <2>3. /\ Tail(q) \in Seq(Ops) /\ Len(Tail(q)) = Len(q) - 1
        /\ \A k \in 1..Len(Tail(q)) : Tail(q)[k] = q[k + 1]
    BY <2>1, HeadTailProperties
  <2>4. Len(q) \in Nat
    BY <2>1, LenProperties
  <2>5. i - 1 \in 1..Len(Tail(q)) /\ Tail(q)[i - 1] = "schedule"
    BY <2>2, <2>3, <2>4
  <2>6. work'[HubLoop] = Tail(q)
    <3>1. work'[HubLoop] = <<>> \o Tail(q)
      BY <1>2, ThreadsExist DEF Continue, TypeOK, ThreadsTyped
    <3>2. QED
      BY <3>1, <2>3, ConcatEmptySeq
  <2>7. QED
    BY <2>3, <2>5, <2>6
<1>3. QED
  BY <1>1, <1>2

LEMMA ScheduledFrame ==
    ASSUME MarkedIsScheduled, UNCHANGED <<hubRoom, emptySince, timers, stamp>>,
           \A r \in Objs : clients[r] = {} => clients'[r] = {},
           \/ work'[HubLoop] = work[HubLoop]
           \/ \A i \in DOMAIN work[HubLoop] : work[HubLoop][i] = "schedule" =>
                 \E j \in DOMAIN work'[HubLoop] : work'[HubLoop][j] = "schedule"
    PROVE  MarkedIsScheduled'
BY DEF MarkedIsScheduled, CleanupPromised

(* While the hub loop is idle the promise is a pending goroutine.          *)
LEMMA PromisedByTimer ==
    ASSUME HubIdle, NEW since, CleanupPromised(since)
    PROVE  \E tm \in timers : tm.since = since
BY EmptySeq DEF HubIdle, CleanupPromised

LEMMA ScheduledHub ==
    ASSUME TypeOK, MarkedIsScheduled, NEW c \in Conns,
           Register(c) \/ Unregister(c) \/ Leave(c)
    PROVE  MarkedIsScheduled'
<1>1. HubIdle /\ timers' = timers
  BY DEF Register, Unregister, Leave, timeVars
<1>2. CASE Register(c)
  <2>1. PICK r \in Objs : /\ hubRoom' = r
                          /\ emptySince' = [emptySince EXCEPT ![r] = 0]
    BY <1>2 DEF Register, NewRoom, TypeOK, RoomsTyped
  <2>2. QED
    BY <2>1 DEF MarkedIsScheduled, TypeOK, RoomsTyped
<1>3. CASE Unregister(c)
  <2>1. hubRoom' = hubRoom
    BY <1>3 DEF Unregister
  <2>2. ASSUME NEW r \in Objs, r = hubRoom, emptySince'[r] # 0
        PROVE  clients'[r] = {} /\ CleanupPromised(emptySince[r])'
    <3>1. r # NoRoom
      BY NoRoomAssumption
    <3>2. CASE clients[r] = {c}
      <4>1. emptySince'[r] = now /\ stamp' = now /\ clients'[r] = {}
        BY <1>3, <2>2, <3>1, <3>2 DEF Unregister, Remove, TypeOK, RoomsTyped
      <4>2. work'[HubLoop] = <<"state", "chat", "schedule">>
        BY <1>3, <2>2, <3>1, ThreadsExist, ThreadsDiffer DEF Unregister, TypeOK, ThreadsTyped
      <4>3. 3 \in DOMAIN work'[HubLoop] /\ work'[HubLoop][3] = "schedule"
        BY <4>2
      <4>4. QED
        BY <4>1, <4>3 DEF CleanupPromised
    <3>3. CASE clients[r] # {c}
      <4>1. emptySince'[r] = emptySince[r]
        BY <1>3, <2>2, <3>3 DEF Unregister, Remove, TypeOK, RoomsTyped
      <4>2. clients[r] = {} /\ \E tm \in timers : tm.since = emptySince[r]
        BY <1>1, <2>2, <4>1, PromisedByTimer DEF MarkedIsScheduled
      <4>3. clients'[r] = {}
        BY <1>3, <2>2, <4>2 DEF Unregister
      <4>4. QED
        BY <1>1, <4>1, <4>2, <4>3 DEF CleanupPromised
    <3>4. QED
      BY <3>2, <3>3
  <2>3. QED
    BY <2>1, <2>2 DEF MarkedIsScheduled
<1>4. CASE Leave(c)
  <2>1. /\ hubRoom' # hubRoom => hubRoom' = NoRoom
        /\ emptySince' = emptySince
        /\ \A r \in Objs : clients[r] = {} => clients'[r] = {}
    BY <1>4 DEF Leave, Remove, TypeOK, RoomsTyped
  <2>2. ASSUME NEW r \in Objs, r = hubRoom, emptySince[r] # 0
        PROVE  clients'[r] = {} /\ \E tm \in timers' : tm.since = emptySince[r]
    BY <1>1, <2>1, <2>2, PromisedByTimer DEF MarkedIsScheduled
  <2>3. QED
    BY <2>1, <2>2, NoRoomAssumption DEF MarkedIsScheduled, CleanupPromised
<1>5. QED
  BY <1>2, <1>3, <1>4

LEMMA ScheduledThreads ==
    ASSUME TypeOK, MarkedIsScheduled, NEW t \in Threads
    PROVE  /\ \A r \in Objs : \/ BroadcastRoomState(t, r) \/ BroadcastChatMessage(t, r)
                              \/ t # HubLoop /\ SnapshotClients(t, r)
                             => MarkedIsScheduled'
           /\ \/ Lookup(t) \/ SendChatHistory(t) \/ ScheduleCleanup(t)
              \/ t # HubLoop /\ SendVoiceEvent(t)
              => MarkedIsScheduled'
<1>1. ASSUME work[t] # <<>>, Head(work[t]) # "schedule", Continue(t, <<>>)
      PROVE  \A i \in DOMAIN work[HubLoop] : work[HubLoop][i] = "schedule" =>
                \E j \in DOMAIN work'[HubLoop] : work'[HubLoop][j] = "schedule"
  BY <1>1, ScheduleStays
<1>2. \A ops : t # HubLoop /\ Continue(t, ops) => work'[HubLoop] = work[HubLoop]
  BY ThreadsExist DEF Continue, TypeOK, ThreadsTyped
<1>3. ASSUME NEW r \in Objs, BroadcastRoomState(t, r)
      PROVE  MarkedIsScheduled'
  <2>1. /\ UNCHANGED <<hubRoom, emptySince, timers, stamp>>
        /\ \A q \in Objs : clients[q] = {} => clients'[q] = {}
    BY <1>3 DEF BroadcastRoomState, timeVars, TypeOK, RoomsTyped
  <2>2. work[t] # <<>> /\ Head(work[t]) # "schedule" /\ Continue(t, <<>>)
    BY <1>3 DEF BroadcastRoomState, Using, Do
  <2>3. QED
    BY <1>1, <2>1, <2>2, ScheduledFrame
<1>4. ASSUME NEW r \in Objs, BroadcastChatMessage(t, r)
      PROVE  MarkedIsScheduled'
  <2>1. UNCHANGED <<hubRoom, emptySince, timers, stamp, clients>>
    BY <1>4 DEF BroadcastChatMessage, roomVars, timeVars
  <2>2. work[t] # <<>> /\ Head(work[t]) # "schedule" /\ Continue(t, <<>>)
    BY <1>4 DEF BroadcastChatMessage, Using, Do
  <2>3. QED
    BY <1>1, <2>1, <2>2, ScheduledFrame
<1>5. ASSUME NEW r \in Objs, t # HubLoop, SnapshotClients(t, r)
      PROVE  MarkedIsScheduled'
  <2>1. UNCHANGED <<hubRoom, emptySince, timers, stamp, clients>>
    BY <1>5 DEF SnapshotClients, roomVars, timeVars
  <2>2. work'[HubLoop] = work[HubLoop]
    BY <1>2, <1>5 DEF SnapshotClients
  <2>3. QED
    BY <2>1, <2>2, ScheduledFrame
<1>6. CASE t # HubLoop /\ SendVoiceEvent(t)
  <2>1. UNCHANGED <<hubRoom, emptySince, timers, stamp, clients>>
    BY <1>6 DEF SendVoiceEvent, roomVars, timeVars
  <2>2. work'[HubLoop] = work[HubLoop]
    BY <1>2, <1>6 DEF SendVoiceEvent
  <2>3. QED
    BY <2>1, <2>2, ScheduledFrame
<1>7. CASE SendChatHistory(t)
  <2>1. UNCHANGED <<hubRoom, emptySince, timers, stamp, clients>>
    BY <1>7 DEF SendChatHistory, roomVars, timeVars
  <2>2. work[t] # <<>> /\ Head(work[t]) # "schedule" /\ Continue(t, <<>>)
    BY <1>7 DEF SendChatHistory, Do
  <2>3. QED
    BY <1>1, <2>1, <2>2, ScheduledFrame
<1>8. CASE Lookup(t)
  <2>1. UNCHANGED <<hubRoom, emptySince, timers, stamp, clients>>
    BY <1>8 DEF Lookup, roomVars, timeVars
  <2>2. work[t] # <<>> /\ Head(work[t]) # "schedule"
    BY <1>8 DEF Lookup, LookupOps, Messages
  <2>3. CASE Continue(t, <<>>)
    BY <1>1, <2>1, <2>2, <2>3, ScheduledFrame
  <2>4. CASE work' = work
    BY <2>1, <2>4, ScheduledFrame
  <2>5. QED
    BY <1>8, <2>3, <2>4 DEF Lookup
<1>9. CASE ScheduleCleanup(t)
  <2>1. /\ UNCHANGED <<hubRoom, emptySince, clients>>
        /\ timers' = IF stamp = 0 THEN timers
                     ELSE timers \cup {[since |-> stamp, due |-> now + Grace]}
    BY <1>9 DEF ScheduleCleanup, roomVars
  <2>2. \A since : since # 0 /\ CleanupPromised(since) => \E tm \in timers' : tm.since = since
    <3>1. ASSUME NEW since, since # 0, stamp = since
          PROVE  \E tm \in timers' : tm.since = since
      <4>1. [since |-> stamp, due |-> now + Grace] \in timers'
        BY <2>1, <3>1
      <4>2. [since |-> stamp, due |-> now + Grace].since = since
        BY <3>1
      <4>3. QED
        BY <4>1, <4>2
    <3>2. timers \subseteq timers'
      BY <2>1
    <3>3. QED
      BY <3>1, <3>2 DEF CleanupPromised
  <2>3. QED
    BY <2>1, <2>2 DEF MarkedIsScheduled, CleanupPromised
<1>10. QED
  BY <1>3, <1>4, <1>5, <1>6, <1>7, <1>8, <1>9

LEMMA ScheduledConns ==
    ASSUME TypeOK, MarkedIsScheduled, NEW c \in Conns
    PROVE  /\ \/ Dial(c) \/ ReadFail(c) \/ WriteOne(c) \/ WriterReturns(c)
              \/ RateLimitReply(c) \/ LaunchCompletion(c)
              => MarkedIsScheduled'
           /\ \A r \in Objs :
                \/ HandleLeave(c, r) \/ HandleChat(c, r) \/ HandleStart(c, r)
                \/ HandleVoiceStart(c, r) \/ HandleVoiceData(c, r)
                \/ \E op \in Messages : HandleStop(c, r, op)
                \/ RoomCompletion(c, r)
                => MarkedIsScheduled'
           /\ \A op \in Kinds : Message(c, op) => MarkedIsScheduled'
<1>1. \A ops : /\ Continue(Handler(c), ops) => work'[HubLoop] = work[HubLoop]
               /\ Continue(Spawned(c), ops) => work'[HubLoop] = work[HubLoop]
  BY ThreadsExist, ThreadsDiffer DEF Continue, TypeOK, ThreadsTyped
<1>2. CASE Dial(c) \/ ReadFail(c) \/ WriteOne(c) \/ WriterReturns(c)
  BY <1>2, ScheduledFrame
     DEF Dial, ReadFail, WriteOne, WriterReturns, roomVars, threadVars, timeVars
<1>3. CASE RateLimitReply(c)
  BY <1>1, <1>3, ScheduledFrame DEF RateLimitReply, roomVars, timeVars
<1>4. CASE LaunchCompletion(c)
  <2>1. work'[HubLoop] = work[HubLoop]
    BY <1>4, ThreadsExist, ThreadsDiffer DEF LaunchCompletion, TypeOK, ThreadsTyped
  <2>2. QED
    BY <1>4, <2>1, ScheduledFrame DEF LaunchCompletion, roomVars, timeVars
<1>5. ASSUME NEW r \in Objs,
             \/ HandleLeave(c, r) \/ HandleChat(c, r) \/ HandleStart(c, r)
             \/ HandleVoiceStart(c, r) \/ HandleVoiceData(c, r) \/ RoomCompletion(c, r)
      PROVE  MarkedIsScheduled'
  <2>1. UNCHANGED <<hubRoom, emptySince, timers, stamp, clients>>
    BY <1>5 DEF HandleLeave, HandleChat, HandleStart, HandleVoiceStart, HandleVoiceData,
                RoomCompletion, roomVars, timeVars
  <2>2. work'[HubLoop] = work[HubLoop]
    BY <1>1, <1>5 DEF HandleLeave, HandleChat, HandleStart, HandleVoiceStart,
                HandleVoiceData, RoomCompletion
  <2>3. QED
    BY <2>1, <2>2, ScheduledFrame
<1>6. ASSUME NEW r \in Objs, NEW op \in Messages, HandleStop(c, r, op)
      PROVE  MarkedIsScheduled'
  <2>1. work'[HubLoop] = work[HubLoop]
    BY <1>6, ThreadsExist, ThreadsDiffer DEF HandleStop, TypeOK, ThreadsTyped
  <2>2. QED
    BY <1>6, <2>1, ScheduledFrame DEF HandleStop, timeVars
<1>7. ASSUME NEW op \in Kinds, Message(c, op)
      PROVE  MarkedIsScheduled'
  <2>1. work'[HubLoop] = work[HubLoop]
    BY <1>7, ThreadsExist, ThreadsDiffer DEF Message, TypeOK, ThreadsTyped
  <2>2. QED
    BY <1>7, <2>1, ScheduledFrame DEF Message, roomVars
<1>8. QED
  BY <1>2, <1>3, <1>4, <1>5, <1>6, <1>7

LEMMA ScheduledClock ==
    ASSUME TypeOK, MarkedIsScheduled,
           PrepareScheduledRoom \/ Tick \/ \E tm \in timers : Cleanup(tm)
    PROVE  MarkedIsScheduled'
<1>1. CASE PrepareScheduledRoom
  <2>1. PICK r \in Objs : hubRoom' = r /\ emptySince'[r] = 0
    BY <1>1 DEF PrepareScheduledRoom, NewRoom, TypeOK, RoomsTyped
  <2>2. QED
    BY <2>1 DEF MarkedIsScheduled
<1>2. CASE Tick
  BY <1>2, ScheduledFrame DEF Tick, roomVars, threadVars
<1>3. ASSUME NEW tm \in timers, Cleanup(tm)
      PROVE  MarkedIsScheduled'
  <2>1. /\ UNCHANGED <<emptySince, clients, stamp, work>>
        /\ timers' = timers \ {tm}
    BY <1>3 DEF Cleanup, threadVars
  <2>2. ASSUME NEW r \in Objs, hubRoom' = r, emptySince[r] # 0
        PROVE  clients[r] = {} /\ CleanupPromised(emptySince[r])'
    <3>1. hubRoom = r
      BY <1>3, <2>2, NoRoomAssumption DEF Cleanup
    <3>2. clients[r] = {} /\ CleanupPromised(emptySince[r])
      BY <2>2, <3>1 DEF MarkedIsScheduled
    <3>3. emptySince[r] # tm.since
      BY <1>3, <2>2, <3>1, <3>2, NoRoomAssumption DEF Cleanup
    <3>4. QED
      BY <2>1, <3>2, <3>3 DEF CleanupPromised
  <2>3. QED
    BY <2>1, <2>2 DEF MarkedIsScheduled, CleanupPromised
<1>4. QED
  BY <1>1, <1>2, <1>3

LEMMA ScheduledStep == TypeOK /\ MarkedIsScheduled /\ [Next]_vars => MarkedIsScheduled'
<1>1. MarkedIsScheduled /\ UNCHANGED vars => MarkedIsScheduled'
  BY ScheduledFrame DEF vars, roomVars, threadVars, timeVars
<1> SUFFICES ASSUME TypeOK, MarkedIsScheduled, Next PROVE MarkedIsScheduled'
  BY <1>1
<1>2. \A c \in Conns : Handler(c) # HubLoop /\ Spawned(c) # HubLoop
  BY ThreadsDiffer
<1>3. CASE HubRun
  BY <1>3, ThreadsExist, ScheduledThreads, Zenon DEF HubRun
<1>4. CASE \E c \in Conns : HandlerRun(c)
  BY <1>2, <1>4, ThreadsExist, ScheduledThreads, ScheduledConns, Zenon DEF HandlerRun
<1>5. CASE \E c \in Conns : SpawnedRun(c)
  BY <1>2, <1>5, ThreadsExist, ScheduledThreads, ScheduledConns, Zenon DEF SpawnedRun
<1>6. QED
  BY <1>3, <1>4, <1>5, ScheduledHub, ScheduledConns, ScheduledClock, Zenon
     DEF Next, HubStep, ConnStep

(* No room marked empty is forgotten: the goroutine that will delete it is *)
(* pending, or the hub loop is on its way to spawn it.                     *)
THEOREM CleanupScheduled == Spec => []MarkedIsScheduled
<1>1. QED
  BY InitType, TypeStep, ScheduledInit, ScheduledStep, PTL DEF Spec

(* A room object that was replaced or deleted never has a client again: a  *)
(* handler that still holds it adds nobody to it.                          *)
THEOREM OrphansStayEmpty == Spec => []OrphansEmpty
<1>1. QED
  BY ChannelSafety, PTL

=============================================================================
