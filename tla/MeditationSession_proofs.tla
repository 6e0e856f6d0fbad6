---------------------- MODULE MeditationSession_proofs ----------------------
(***************************************************************************)
(* Theorems about MeditationSession, for any number of host connections,   *)
(* any durations, and any number of starts and crashes.                    *)
(***************************************************************************)
EXTENDS MeditationSession, TLAPS

(* A duration that time.Duration holds is not changed by the conversion.   *)
LEMMA WrapHeld ==
    ASSUME NEW d \in Int, Holds(d)
    PROVE  Wrap(d) = d
<1> DEFINE M == 2 * MaxDuration
           x == d + MaxDuration
<1>1. M \in Nat /\ M > 0 /\ x \in Nat /\ x < M
  BY WidthAssumption DEF Holds
<1>2. \A y \in Nat, n \in Nat : n > 0 /\ y < n => y % n = y
  OBVIOUS
<1>3. x % M = x
  <2> HIDE DEF x, M
  <2> QED BY <1>1, <1>2
<1>4. MaxDuration \in Int
  BY WidthAssumption
<1> QED BY <1>3, <1>4 DEF Wrap

(* The bounded actions, one by one.                                        *)
LEMMA NextCases ==
    ASSUME Next
    PROVE  \/ \E h \in Hosts, dur \in Durations, withVoice \in BOOLEAN :
                 Start(h, dur, withVoice)
           \/ \E h \in Hosts : \/ Stop(h) \/ VoiceStart(h) \/ VoiceStop(h)
                               \/ Persist(h, "persist start", "launch")
                               \/ Launch(h)
                               \/ Persist(h, "persist stop", "complete event")
                               \/ CompleteEvent(h)
           \/ HubTraffic
           \/ Persist(Hub, "persist", "idle")
           \/ \E tm \in timers : Expire(tm) \/ TimerPersist(tm) \/ TimerEvent(tm)
           \/ Tick \/ Crash \/ Restart
BY Zenon DEF Next, HostMessage, HostStep, TimerStep

-----------------------------------------------------------------------------
LEMMA TypeInit == Init => TypeOK
BY EventAssumption
DEF Init, TypeOK, ClockTyped, SessionTyped, VoiceTyped, ThreadsTyped, TimersTyped,
    Sessions, StartArgs, Lobby, NoVoice, NoArg, Statuses, Paths

LEMMA RecordingEndTyped ==
    ASSUME TypeOK
    PROVE  RecordingEnd \in [path : Paths, end : {"none", "registered", "removed", "lost"}]
BY DEF TypeOK, VoiceTyped, RecordingEnd

LEMMA NoVoiceTyped ==
    ASSUME TypeOK
    PROVE  NoVoice \in [file : BOOLEAN, path : Paths, since : 0..now]
BY DEF TypeOK, ClockTyped, NoVoice, Paths

(* A goroutine that moves on keeps the type of the set of goroutines.      *)
LEMMA TimerTyped ==
    ASSUME TypeOK, NEW s, s.at \in 0..now, s.dur \in Int,
           NEW where \in {"waiting", "persist", "complete event"}
    PROVE  Timer(s, where) \in [at : 0..now, dur : Int,
                                pc : {"waiting", "persist", "complete event"}]
BY DEF Timer

(* A group of variables that does not change keeps its type.               *)
LEMMA TypeFrame ==
    ASSUME TypeOK
    PROVE  /\ UNCHANGED <<up, event, now, counters>> => ClockTyped'
           /\ UNCHANGED <<now, room, row>> => SessionTyped'
           /\ UNCHANGED <<now, voice, recorded>> => VoiceTyped'
           /\ UNCHANGED <<now, pc, arg>> => ThreadsTyped'
           /\ UNCHANGED <<now, timers, started>> => TimersTyped'
<1> QED
  BY DEF TypeOK, ClockTyped, SessionTyped, VoiceTyped, ThreadsTyped, TimersTyped,
         Sessions, StartArgs, counters

LEMMA TypeNext ==
    ASSUME TypeOK, [Next]_vars
    PROVE  TypeOK'
<1>1. ASSUME NEW h \in Hosts, NEW dur \in Durations, NEW withVoice \in BOOLEAN,
             Start(h, dur, withVoice)
      PROVE  TypeOK'
  <2> DEFINE s == [at |-> now, dur |-> dur]
  <2>1. /\ up' = up /\ now' = now /\ event' = event /\ row' = row
        /\ timers' = timers /\ recorded' = recorded
        /\ arg' = [arg EXCEPT ![h] = s] /\ started' = started \cup {s}
        /\ pc' = [pc EXCEPT ![h] = "persist start"]
    BY <1>1 DEF Start, Goto
  <2>2. /\ room' = [status |-> "playing", startedAt |-> now, duration |-> dur,
                    withVoice |-> withVoice]
        /\ voice' = [voice EXCEPT !.path = IF withVoice THEN "track" ELSE "none",
                                  !.since = IF withVoice THEN now ELSE 0]
    BY <1>1, Zenon DEF Start
  <2>3. now \in 0..now /\ 0 \in 0..now /\ dur \in Int
    BY DurationsAssumption DEF TypeOK, ClockTyped
  <2>4. s \in StartArgs
    BY <2>3 DEF StartArgs
  <2>5. ClockTyped'
    <3>1. up' \in BOOLEAN /\ event' \in BOOLEAN
      BY <2>1 DEF TypeOK, ClockTyped
    <3>0. voices' = voices /\ crashes' = crashes /\ starts' = starts + 1 /\ now' = now
      BY <1>1 DEF Start
    <3>2. crashes' \in Nat /\ starts' \in Nat /\ voices' \in Nat /\ now' \in Nat /\ now' > 0
      BY <3>0 DEF TypeOK, ClockTyped
    <3> QED BY <3>1, <3>2 DEF ClockTyped
  <2>6. SessionTyped'
    BY <2>1, <2>2, <2>3 DEF TypeOK, SessionTyped, Sessions, Statuses
  <2>7. VoiceTyped'
    BY <2>1, <2>2, <2>3 DEF TypeOK, VoiceTyped, Paths
  <2>8. ThreadsTyped'
    BY <2>1, <2>4 DEF TypeOK, ThreadsTyped, StartArgs, Threads
  <2>9. TimersTyped'
    BY <2>1, <2>4 DEF TypeOK, TimersTyped, StartArgs
  <2> QED BY <2>5, <2>6, <2>7, <2>8, <2>9 DEF TypeOK
<1>2. ASSUME NEW h \in Hosts, Stop(h)
      PROVE  TypeOK'
  <2>2. SessionTyped'
    <3>1. /\ room' = [room EXCEPT !.status = "finished", !.startedAt = 0, !.withVoice = FALSE]
          /\ row' = row /\ now' = now
      BY <1>2 DEF Stop
    <3>2. 0 \in 0..now
      BY DEF TypeOK, ClockTyped
    <3> QED BY <3>1, <3>2 DEF TypeOK, SessionTyped, Sessions, Statuses
  <2>3. VoiceTyped'
    <3>1. now' = now /\ recorded' = RecordingEnd /\ voice' = NoVoice
      BY <1>2 DEF Stop
    <3> QED BY <3>1, NoVoiceTyped, RecordingEndTyped DEF VoiceTyped
  <2>4. ThreadsTyped'
    BY <1>2 DEF Stop, TypeOK, ThreadsTyped, ClockTyped, StartArgs, NoArg, Threads, Goto
  <2> QED BY <1>2, <2>2, <2>3, <2>4, TypeFrame DEF Stop, counters, TypeOK
<1>3. ASSUME NEW h \in Hosts, VoiceStart(h)
      PROVE  TypeOK'
  <2>1. ClockTyped'
    BY <1>3 DEF VoiceStart, TypeOK, ClockTyped, counters
  <2>3. VoiceTyped'
    BY <1>3 DEF VoiceStart, TypeOK, VoiceTyped, ClockTyped, Paths, NoVoice
  <2> QED BY <1>3, <2>1, <2>3, TypeFrame DEF VoiceStart, counters, TypeOK
<1>4. ASSUME NEW h \in Hosts, VoiceStop(h)
      PROVE  TypeOK'
  <2>3. VoiceTyped'
    BY <1>4, RecordingEndTyped DEF VoiceStop, TypeOK, VoiceTyped, ClockTyped, Paths, NoVoice, StopRecording
  <2> QED BY <1>4, <2>3, TypeFrame DEF VoiceStop, counters, TypeOK
<1>5. ASSUME NEW t \in Threads, NEW from,
             NEW to \in {"idle", "launch", "complete event"}, Persist(t, from, to)
      PROVE  TypeOK'
  <2>2. SessionTyped'
    BY <1>5 DEF Persist, TypeOK, SessionTyped, ClockTyped, Sessions, Statuses
  <2>4. ThreadsTyped'
    BY <1>5 DEF Persist, TypeOK, ThreadsTyped, ClockTyped, StartArgs, NoArg, Threads, Goto
  <2> QED BY <1>5, <2>2, <2>4, TypeFrame DEF Persist, counters, TypeOK
<1>6. ASSUME NEW h \in Hosts, Launch(h)
      PROVE  TypeOK'
  <2>4. ThreadsTyped'
    <3>1. /\ now' = now /\ arg' = [arg EXCEPT ![h] = NoArg]
          /\ pc' = [pc EXCEPT ![h] = "idle"]
      BY <1>6 DEF Launch, Goto
    <3>2. NoArg \in StartArgs
      BY DEF TypeOK, ClockTyped, NoArg, StartArgs
    <3> QED BY <3>1, <3>2 DEF TypeOK, ThreadsTyped, StartArgs, Threads
  <2>5. TimersTyped'
    <3>1. /\ now' = now /\ started' = started
          /\ timers' = timers \cup {Timer(arg[h], "waiting")}
      BY <1>6 DEF Launch
    <3>2. arg[h].at \in 0..now /\ arg[h].dur \in Int
      BY DEF TypeOK, ThreadsTyped, StartArgs, Threads
    <3>3. Timer(arg[h], "waiting") \in [at : 0..now, dur : Int,
                                       pc : {"waiting", "persist", "complete event"}]
      BY <3>2, TimerTyped
    <3> QED BY <3>1, <3>3 DEF TypeOK, TimersTyped, StartArgs
  <2> QED BY <1>6, <2>4, <2>5, TypeFrame DEF Launch, counters, TypeOK
<1>7. ASSUME NEW h \in Hosts, CompleteEvent(h)
      PROVE  TypeOK'
  <2>1. ClockTyped'
    BY <1>7 DEF CompleteEvent, TypeOK, ClockTyped, counters
  <2>4. ThreadsTyped'
    BY <1>7 DEF CompleteEvent, TypeOK, ThreadsTyped, ClockTyped, StartArgs, NoArg, Threads, Goto
  <2> QED BY <1>7, <2>1, <2>4, TypeFrame DEF CompleteEvent, counters, TypeOK
<1>8. CASE HubTraffic
  <2>3. VoiceTyped'
    <3>1. now' = now /\ (StopRecording \/ UNCHANGED <<voice, recorded>>)
      BY <1>8 DEF HubTraffic
    <3> QED BY <3>1, RecordingEndTyped, NoVoiceTyped DEF TypeOK, VoiceTyped, StopRecording
  <2>4. ThreadsTyped'
    BY <1>8 DEF HubTraffic, TypeOK, ThreadsTyped, ClockTyped, StartArgs, NoArg, Threads, Goto
  <2> QED BY <1>8, <2>3, <2>4, TypeFrame DEF HubTraffic, counters, TypeOK
<1>9. ASSUME NEW tm \in timers, Expire(tm)
      PROVE  TypeOK'
  <2>2. SessionTyped'
    BY <1>9 DEF Expire, TypeOK, SessionTyped, ClockTyped, Sessions, Statuses
  <2>3. VoiceTyped'
    <3>1. /\ now' = now /\ recorded' = recorded
          /\ voice' \in {voice, [voice EXCEPT !.path = "none", !.since = 0]}
      BY <1>9 DEF Expire
    <3>2. 0 \in 0..now
      BY DEF TypeOK, ClockTyped
    <3> QED BY <3>1, <3>2 DEF TypeOK, VoiceTyped, Paths
  <2>5. TimersTyped'
    <3>1. /\ now' = now /\ started' = started
          /\ timers' \in {timers \ {tm}, (timers \ {tm}) \cup {Timer(tm, "persist")}}
      BY <1>9 DEF Expire
    <3>2. tm.at \in 0..now /\ tm.dur \in Int
      BY DEF TypeOK, TimersTyped
    <3> QED BY <3>1, <3>2, TimerTyped DEF TypeOK, TimersTyped, StartArgs
  <2> QED BY <1>9, <2>2, <2>3, <2>5, TypeFrame DEF Expire, counters, TypeOK
<1>10. ASSUME NEW tm \in timers, TimerPersist(tm)
       PROVE  TypeOK'
  <2>2. SessionTyped'
    BY <1>10 DEF TimerPersist, TypeOK, SessionTyped, ClockTyped, Sessions, Statuses
  <2>5. TimersTyped'
    <3>1. /\ now' = now /\ started' = started
          /\ timers' = (timers \ {tm}) \cup {Timer(tm, "complete event")}
      BY <1>10 DEF TimerPersist
    <3>2. tm.at \in 0..now /\ tm.dur \in Int
      BY DEF TypeOK, TimersTyped
    <3> QED BY <3>1, <3>2, TimerTyped DEF TypeOK, TimersTyped, StartArgs
  <2> QED BY <1>10, <2>2, <2>5, TypeFrame DEF TimerPersist, counters, TypeOK
<1>11. ASSUME NEW tm \in timers, TimerEvent(tm)
       PROVE  TypeOK'
  <2>1. ClockTyped'
    BY <1>11 DEF TimerEvent, TypeOK, ClockTyped, counters
  <2>5. TimersTyped'
    BY <1>11 DEF TimerEvent, TypeOK, TimersTyped, ClockTyped, StartArgs, Threads
  <2> QED BY <1>11, <2>1, <2>5, TypeFrame DEF TimerEvent, counters, TypeOK
<1>12. CASE Tick
  <2>0. 0..now \subseteq 0..now'
    BY <1>12 DEF Tick, TypeOK, ClockTyped
  <2>1. ClockTyped'
    BY <1>12 DEF Tick, TypeOK, ClockTyped, counters
  <2>2. SessionTyped'
    BY <1>12 DEF Tick, TypeOK, SessionTyped, ClockTyped, Sessions, Statuses
  <2>3. VoiceTyped'
    BY <1>12 DEF Tick, TypeOK, VoiceTyped, ClockTyped, Paths, NoVoice
  <2>4. ThreadsTyped'
    <3>1. pc' = pc /\ arg' = arg
      BY <1>12 DEF Tick
    <3>2. StartArgs \subseteq StartArgs'
      BY <2>0 DEF StartArgs
    <3> QED BY <3>1, <3>2 DEF TypeOK, ThreadsTyped, Threads
  <2>5. TimersTyped'
    <3>1. timers' = timers /\ started' = started
      BY <1>12 DEF Tick
    <3> QED BY <3>1, <2>0 DEF TypeOK, TimersTyped, StartArgs
  <2> QED BY <1>12, <2>1, <2>2, <2>3, <2>4, <2>5 DEF TypeOK
<1>13. CASE Crash
  <2>1. ClockTyped'
    <3>1. /\ up' = FALSE /\ event' = event /\ now' = now
          /\ starts' = starts /\ voices' = voices /\ crashes' = crashes + 1
      BY <1>13 DEF Crash
    <3>2. up' \in BOOLEAN /\ event' \in BOOLEAN
      BY <3>1 DEF TypeOK, ClockTyped
    <3>3. crashes' \in Nat /\ starts' \in Nat /\ voices' \in Nat /\ now' \in Nat /\ now' > 0
      BY <3>1 DEF TypeOK, ClockTyped
    <3> QED BY <3>2, <3>3 DEF ClockTyped
  <2>2. SessionTyped'
    BY <1>13 DEF Crash, TypeOK, SessionTyped, ClockTyped, Sessions, Statuses, Lobby
  <2>3. VoiceTyped'
    BY <1>13 DEF Crash, TypeOK, VoiceTyped, ClockTyped, Paths, NoVoice
  <2>4. ThreadsTyped'
    <3>1. /\ now' = now
          /\ pc' = [t \in Threads |-> "idle"] /\ arg' = [t \in Threads |-> NoArg]
      BY <1>13 DEF Crash
    <3>2. NoArg \in StartArgs'
      BY <3>1 DEF TypeOK, ClockTyped, NoArg, StartArgs
    <3> QED BY <3>1, <3>2 DEF ThreadsTyped, Threads
  <2>5. TimersTyped'
    BY <1>13 DEF Crash, TypeOK, TimersTyped, ClockTyped, StartArgs, Threads
  <2> QED BY <1>13, <2>1, <2>2, <2>3, <2>4, <2>5 DEF TypeOK
<1>14. CASE Restart
  <2>1. ClockTyped'
    BY <1>14 DEF Restart, TypeOK, ClockTyped, counters
  <2>2. SessionTyped'
    BY <1>14 DEF Restart, TypeOK, SessionTyped, ClockTyped, Sessions, Statuses, Lobby
  <2>3. VoiceTyped'
    BY <1>14 DEF Restart, TypeOK, VoiceTyped, ClockTyped, Paths, NoVoice, SessionTyped, Sessions
  <2>4. ThreadsTyped'
    BY <1>14 DEF Restart, TypeOK, ThreadsTyped, ClockTyped, StartArgs, NoArg, Threads
  <2>5. TimersTyped'
    <3> DEFINE tm == [at |-> row.startedAt, dur |-> row.duration, pc |-> "waiting"]
    <3>1. now' = now /\ started' = started /\ timers' \in {{}, {tm}}
      BY <1>14 DEF Restart
    <3>2. tm \in [at : 0..now, dur : Int, pc : {"waiting", "persist", "complete event"}]
      BY DEF TypeOK, SessionTyped, Sessions
    <3> QED BY <3>1, <3>2 DEF TypeOK, TimersTyped, StartArgs
  <2> QED BY <1>14, <2>1, <2>2, <2>3, <2>4, <2>5 DEF TypeOK
<1>15. CASE UNCHANGED vars
  BY <1>15, TypeFrame DEF vars, counters, TypeOK
<1>16. Hub \in Threads /\ Hosts \subseteq Threads
  BY DEF Threads
<1>17. CASE Next
  BY NextCases, <1>17, <1>16, <1>1, <1>2, <1>3, <1>4, <1>5, <1>6, <1>7, <1>8, <1>9,
     <1>10, <1>11, <1>12, <1>13, <1>14, Zenon
<1> QED BY <1>15, <1>17

(* Every variable keeps its type: a StartedAt, the start of a recording    *)
(* and what the goroutines remember never lie in the future.               *)
THEOREM TypeCorrect == Spec => []TypeOK
<1> QED BY TypeInit, TypeNext, PTL DEF Spec
-----------------------------------------------------------------------------
(* A thread that leaves a step without a save takes no save along.         *)
LEMMA PendingKept ==
    ASSUME TypeOK, NEW t \in Threads, NEW label,
           pc[t] \notin {"persist", "persist start", "persist stop"},
           Goto(t, label), timers \subseteq timers', SavePending
    PROVE  SavePending'
BY DEF SavePending, Goto, TypeOK, ThreadsTyped

LEMMA PendingBegun ==
    ASSUME TypeOK, NEW t \in Threads,
           NEW label \in {"persist", "persist start", "persist stop"}, Goto(t, label)
    PROVE  SavePending'
BY DEF SavePending, Goto, TypeOK, ThreadsTyped

LEMMA RowNext ==
    ASSUME TypeOK, RowMatches, [Next]_vars
    PROVE  RowMatches'
<1>0. Hub \in Threads /\ Hosts \subseteq Threads
  BY DEF Threads
<1>1. ASSUME NEW h \in Hosts, NEW dur \in Durations, NEW withVoice \in BOOLEAN,
             Start(h, dur, withVoice)
      PROVE  RowMatches'
  <2>1. Goto(h, "persist start")
    BY <1>1 DEF Start
  <2> QED BY <2>1, <1>0, PendingBegun DEF RowMatches
<1>2. ASSUME NEW h \in Hosts, Stop(h)
      PROVE  RowMatches'
  <2>1. Goto(h, "persist stop")
    BY <1>2 DEF Stop
  <2> QED BY <2>1, <1>0, PendingBegun DEF RowMatches
<1>3. ASSUME NEW h \in Hosts, VoiceStart(h) \/ VoiceStop(h)
      PROVE  RowMatches'
  BY <1>3 DEF VoiceStart, VoiceStop, RowMatches, SavePending
<1>4. ASSUME NEW t \in Threads, NEW from, NEW to, Persist(t, from, to)
      PROVE  RowMatches'
  BY <1>4 DEF Persist, RowMatches
<1>5. ASSUME NEW h \in Hosts, Launch(h)
      PROVE  RowMatches'
  <2>1. /\ pc[h] = "launch" /\ Goto(h, "idle") /\ timers \subseteq timers'
        /\ UNCHANGED <<up, row, room>>
    BY <1>5 DEF Launch
  <2> QED BY <2>1, <1>0, PendingKept DEF RowMatches
<1>6. ASSUME NEW h \in Hosts, CompleteEvent(h)
      PROVE  RowMatches'
  <2>1. /\ pc[h] = "complete event" /\ Goto(h, "idle") /\ timers' = timers
        /\ UNCHANGED <<up, row, room>>
    BY <1>6 DEF CompleteEvent
  <2> QED BY <2>1, <1>0, PendingKept DEF RowMatches
<1>7. CASE HubTraffic
  <2>1. Goto(Hub, "persist")
    BY <1>7 DEF HubTraffic
  <2> QED BY <2>1, <1>0, PendingBegun DEF RowMatches
<1>8. ASSUME NEW tm \in timers, Expire(tm)
      PROVE  RowMatches'
  <2>1. CASE room.status = "playing" /\ room.startedAt = tm.at
    <3>1. Timer(tm, "persist") \in timers' /\ Timer(tm, "persist").pc = "persist"
      BY <1>8, <2>1 DEF Expire, Timer
    <3> QED BY <3>1 DEF RowMatches, SavePending
  <2>2. CASE ~(room.status = "playing" /\ room.startedAt = tm.at)
    <3>1. /\ tm.pc = "waiting" /\ timers' = timers \ {tm} /\ pc' = pc
          /\ UNCHANGED <<up, row, room>>
      BY <1>8, <2>2 DEF Expire
    <3> QED BY <3>1 DEF RowMatches, SavePending
  <2> QED BY <2>1, <2>2
<1>9. ASSUME NEW tm \in timers, TimerPersist(tm)
      PROVE  RowMatches'
  BY <1>9 DEF TimerPersist, RowMatches
<1>10. ASSUME NEW tm \in timers, TimerEvent(tm)
       PROVE  RowMatches'
  <2>1. /\ tm.pc = "complete event" /\ timers' = timers \ {tm} /\ pc' = pc
        /\ UNCHANGED <<up, row, room>>
    BY <1>10 DEF TimerEvent
  <2> QED BY <2>1 DEF RowMatches, SavePending
<1>11. CASE Tick
  BY <1>11 DEF Tick, RowMatches, SavePending
<1>12. CASE Crash
  BY <1>12 DEF Crash, RowMatches
<1>13. CASE Restart
  BY <1>13 DEF Restart, RowMatches
<1>14. CASE UNCHANGED vars
  BY <1>14 DEF vars, RowMatches, SavePending
<1>15. CASE Next
  BY NextCases, <1>15, <1>0, <1>1, <1>2, <1>3, <1>4, <1>5, <1>6, <1>7, <1>8, <1>9,
     <1>10, <1>11, <1>12, <1>13, Zenon
<1> QED BY <1>14, <1>15

(* At every instant at which the process may die, the row of the room is   *)
(* its state in memory unless some thread still has to save it.            *)
THEOREM RowIsCurrent == Spec => []RowMatches
<1>1. Init => RowMatches
  BY DEF Init, RowMatches
<1> QED BY <1>1, RowNext, TypeCorrect, PTL DEF Spec

-----------------------------------------------------------------------------
LEMMA TimerNext ==
    ASSUME TypeOK, PlayingHasTimer, [Next]_vars
    PROVE  PlayingHasTimer'
<1>0. Hub \in Threads /\ Hosts \subseteq Threads /\ Hub \notin Hosts
  BY HubAssumption DEF Threads
<1>1. ASSUME NEW h \in Hosts, NEW dur \in Durations, NEW withVoice \in BOOLEAN,
             Start(h, dur, withVoice)
      PROVE  PlayingHasTimer'
  <2>1. /\ room'.startedAt = now /\ room'.duration = dur
        /\ pc' = [pc EXCEPT ![h] = "persist start"]
        /\ arg' = [arg EXCEPT ![h] = [at |-> now, dur |-> dur]]
    BY <1>1 DEF Start, Goto
  <2>2. pc'[h] = "persist start" /\ arg'[h] = [at |-> now, dur |-> dur]
    BY <2>1, <1>0 DEF TypeOK, ThreadsTyped
  <2>3. Matches(arg'[h], room')
    <3>1. arg'[h].at = now /\ arg'[h].dur = dur
      <4> DEFINE s == [at |-> now, dur |-> dur]
      <4>1. s.at = now /\ s.dur = dur
        OBVIOUS
      <4>2. arg'[h] = s
        BY <2>2
      <4> HIDE DEF s
      <4> QED BY <4>1, <4>2
    <3>2. room'.startedAt = now /\ room'.duration = dur
      BY <2>1
    <3> QED BY <3>1, <3>2 DEF Matches
  <2> QED BY <2>2, <2>3 DEF PlayingHasTimer
<1>2. ASSUME NEW h \in Hosts, Stop(h)
      PROVE  PlayingHasTimer'
  BY <1>2 DEF Stop, PlayingHasTimer, Playing, TypeOK, SessionTyped, Sessions
<1>3. ASSUME NEW h \in Hosts, VoiceStart(h) \/ VoiceStop(h)
      PROVE  PlayingHasTimer'
  BY <1>3 DEF VoiceStart, VoiceStop, PlayingHasTimer, Playing, Matches
<1>4. ASSUME NEW t \in Threads,
             \/ Persist(t, "persist start", "launch")
             \/ Persist(t, "persist stop", "complete event")
             \/ Persist(t, "persist", "idle")
      PROVE  PlayingHasTimer'
  <2>1. /\ UNCHANGED <<up, room, arg, timers>>
        /\ \/ pc[t] = "persist start" /\ pc' = [pc EXCEPT ![t] = "launch"]
           \/ pc[t] \in {"persist stop", "persist"} /\ pc' = [pc EXCEPT ![t] = pc'[t]]
    BY <1>4 DEF Persist, Goto, TypeOK, ThreadsTyped
  <2>2. \A h \in Hosts : pc[h] \in {"persist start", "launch"}
                            => pc'[h] \in {"persist start", "launch"}
    BY <2>1, <1>0 DEF TypeOK, ThreadsTyped
  <2> QED BY <2>1, <2>2 DEF PlayingHasTimer, Playing, Matches
<1>5. ASSUME NEW h \in Hosts, Launch(h)
      PROVE  PlayingHasTimer'
  <2>1. /\ UNCHANGED <<up, room>>
        /\ timers' = timers \cup {Timer(arg[h], "waiting")}
        /\ pc' = [pc EXCEPT ![h] = "idle"] /\ arg' = [arg EXCEPT ![h] = NoArg]
    BY <1>5 DEF Launch, Goto
  <2>2. \A g \in Hosts : g # h => pc'[g] = pc[g] /\ arg'[g] = arg[g]
    BY <2>1, <1>0 DEF TypeOK, ThreadsTyped
  <2>3. /\ Timer(arg[h], "waiting").pc = "waiting"
        /\ Timer(arg[h], "waiting").at = arg[h].at
        /\ Timer(arg[h], "waiting").dur = arg[h].dur
    BY DEF Timer
  <2>4. SUFFICES ASSUME up', Playing'
                 PROVE  \/ \E tm \in timers' : tm.pc = "waiting" /\ Matches(tm, room')
                        \/ \E g \in Hosts : /\ pc'[g] \in {"persist start", "launch"}
                                            /\ Matches(arg'[g], room')
    BY DEF PlayingHasTimer
  <2>5. \/ \E tm \in timers : tm.pc = "waiting" /\ Matches(tm, room)
        \/ \E g \in Hosts : pc[g] \in {"persist start", "launch"} /\ Matches(arg[g], room)
    BY <2>1, <2>4 DEF PlayingHasTimer, Playing
  <2>6. ASSUME NEW tm \in timers, tm.pc = "waiting" /\ Matches(tm, room)
        PROVE  \E m \in timers' : m.pc = "waiting" /\ Matches(m, room')
    BY <2>6, <2>1 DEF Matches
  <2>7. ASSUME NEW g \in Hosts, pc[g] \in {"persist start", "launch"} /\ Matches(arg[g], room)
        PROVE  \/ \E tm \in timers' : tm.pc = "waiting" /\ Matches(tm, room')
               \/ pc'[g] \in {"persist start", "launch"} /\ Matches(arg'[g], room')
    <3>1. CASE g = h
      <4>1. Timer(arg[h], "waiting") \in timers'
        BY <2>1
      <4>2. Matches(Timer(arg[h], "waiting"), room')
        BY <2>7, <3>1, <2>1, <2>3 DEF Matches, Timer
      <4> QED BY <4>1, <4>2, <2>3
    <3>2. CASE g # h
      BY <2>7, <3>2, <2>1, <2>2 DEF Matches
    <3> QED BY <3>1, <3>2
  <2> QED BY <2>5, <2>6, <2>7
<1>6. ASSUME NEW t \in Threads, NEW label, Goto(t, label), pc[t] \notin {"persist start", "launch"},
             UNCHANGED <<up, room, arg, timers>>
      PROVE  PlayingHasTimer'
  <2>1. \A h \in Hosts : h # t => pc'[h] = pc[h]
    BY <1>6, <1>0 DEF Goto, TypeOK, ThreadsTyped
  <2> QED BY <1>6, <2>1 DEF PlayingHasTimer, Playing, Matches
<1>7. ASSUME NEW h \in Hosts, CompleteEvent(h)
      PROVE  PlayingHasTimer'
  BY <1>7, <1>6, <1>0 DEF CompleteEvent
<1>8. CASE HubTraffic
  BY <1>8, <1>6, <1>0 DEF HubTraffic
<1>9. ASSUME NEW tm \in timers, Expire(tm)
      PROVE  PlayingHasTimer'
  <2>1. CASE room.status = "playing" /\ room.startedAt = tm.at
    BY <1>9, <2>1 DEF Expire, PlayingHasTimer, Playing, TypeOK, SessionTyped, Sessions
  <2>2. CASE ~(room.status = "playing" /\ room.startedAt = tm.at)
    <3>1. timers' = timers \ {tm} /\ UNCHANGED <<up, room, pc, arg>>
      BY <1>9, <2>2 DEF Expire
    <3> QED BY <3>1, <2>2 DEF PlayingHasTimer, Playing, Matches
  <2> QED BY <2>1, <2>2
<1>10. ASSUME NEW tm \in timers, TimerPersist(tm) \/ TimerEvent(tm)
       PROVE  PlayingHasTimer'
  <2>1. /\ tm.pc # "waiting" /\ timers \ {tm} \subseteq timers'
        /\ UNCHANGED <<up, room, pc, arg>>
    BY <1>10 DEF TimerPersist, TimerEvent
  <2> QED BY <2>1 DEF PlayingHasTimer, Playing, Matches
<1>11. CASE Tick
  BY <1>11 DEF Tick, PlayingHasTimer, Playing, Matches
<1>12. CASE Crash
  BY <1>12 DEF Crash, PlayingHasTimer
<1>13. CASE Restart
  <2> DEFINE tm == [at |-> row.startedAt, dur |-> row.duration, pc |-> "waiting"]
  <2>1. /\ room'.startedAt = row.startedAt /\ room'.duration = row.duration
        /\ room'.status = "playing" => timers' = {tm}
    BY <1>13 DEF Restart, TypeOK, SessionTyped, Sessions
  <2>2. tm.pc = "waiting" /\ Matches(tm, room')
    BY <2>1 DEF Matches
  <2>3. Playing' => tm \in timers'
    BY <2>1 DEF Playing
  <2> QED BY <2>2, <2>3 DEF PlayingHasTimer
<1>14. CASE UNCHANGED vars
  BY <1>14 DEF vars, PlayingHasTimer, Playing, Matches
<1>15. CASE Next
  BY NextCases, <1>15, <1>0, <1>1, <1>2, <1>3, <1>4, <1>5, <1>7, <1>8, <1>9,
     <1>10, <1>11, <1>12, <1>13, Zenon
<1> QED BY <1>14, <1>15

(* A session that plays always has the goroutine that will end it, whatever*)
(* stops, restarts and crashes came before.                                *)
THEOREM SessionWillEnd == Spec => []PlayingHasTimer
<1>1. Init => PlayingHasTimer
  <2>1. \A withVoice \in BOOLEAN : Lobby(withVoice).status = "lobby"
    BY DEF Lobby
  <2> QED BY <2>1 DEF Init, PlayingHasTimer, Playing
<1> QED BY <1>1, TimerNext, TypeCorrect, PTL DEF Spec
-----------------------------------------------------------------------------
(* What is remembered of a session, in memory, in the row and by the       *)
(* goroutines, is a start that took place.  With EndedOnTime, inductive.   *)
StartOf(s) == [at |-> s.at, dur |-> s.dur]
SessionStart(x) == [at |-> x.startedAt, dur |-> x.duration]

StartsKnown ==
    /\ \A tm \in timers : StartOf(tm) \in started
    /\ \A h \in Hosts : pc[h] \in {"persist start", "launch"} => arg[h] \in started
    /\ room.status = "playing" => SessionStart(room) \in started
    /\ row.status = "playing" => SessionStart(row) \in started

OnTime(x, known, time) ==
    x.status = "finished" /\ x.startedAt # 0 =>
        \E s \in known : s.at = x.startedAt /\ (Holds(s.dur) => time >= s.at + s.dur)

LEMMA EndedOnTimeParts ==
    EndedOnTime <=> OnTime(room, started, now) /\ OnTime(row, started, now)
BY DEF EndedOnTime, OnTime

(* Starts are never forgotten and the clock does not go back.              *)
LEMMA OnTimeKept ==
    ASSUME TypeOK, NEW x, OnTime(x, started, now),
           started \subseteq started', now' \in Nat, now <= now'
    PROVE  OnTime(x, started', now')
<1>1. \A s \in started : s.at \in Int /\ s.dur \in Int
  <2>1. \A s \in StartArgs : s.at \in Int /\ s.dur \in Int
    BY DEF StartArgs
  <2> QED BY <2>1 DEF TypeOK, TimersTyped
<1>2. now \in Int
  BY DEF TypeOK, ClockTyped
<1> QED BY <1>1, <1>2 DEF OnTime

(* A session that ends because a duration is over ends on time.            *)
LEMMA OverIsOnTime ==
    ASSUME TypeOK, NEW s \in started, NEW x, x.startedAt = s.at, now >= s.at + Wrap(s.dur)
    PROVE  OnTime(x, started, now)
<1>1. s.dur \in Int
  BY DEF TypeOK, TimersTyped, StartArgs
<1>2. Holds(s.dur) => now >= s.at + s.dur
  BY <1>1, WrapHeld
<1> QED BY <1>2 DEF OnTime

LEMMA StartsInit == Init => StartsKnown /\ EndedOnTime
<1> SUFFICES ASSUME Init PROVE StartsKnown /\ EndedOnTime
  OBVIOUS
<1>1. \A withVoice \in BOOLEAN : Lobby(withVoice).status = "lobby"
  BY DEF Lobby
<1>2. /\ room.status = "lobby" /\ row.status = "lobby" /\ timers = {}
      /\ \A h \in Hosts : pc[h] = "idle"
  BY <1>1 DEF Init, Threads
<1> QED BY <1>2 DEF StartsKnown, EndedOnTime

LEMMA StartsNext ==
    ASSUME TypeOK, StartsKnown, EndedOnTime, [Next]_vars
    PROVE  StartsKnown' /\ EndedOnTime'
<1> DEFINE Goal == StartsKnown' /\ EndedOnTime'
<1> SUFFICES Goal
  OBVIOUS
<1>0. Hub \in Threads /\ Hosts \subseteq Threads /\ Hub \notin Hosts
  BY HubAssumption DEF Threads
<1>a. /\ OnTime(room, started, now) /\ OnTime(row, started, now)
      /\ now \in Nat
  BY EndedOnTimeParts DEF TypeOK, ClockTyped
<1>b. ASSUME OnTime(room', started', now'), OnTime(row', started', now')
      PROVE  EndedOnTime'
  BY <1>b DEF EndedOnTime, OnTime
(* Room, row and clock as they were: only the threads' part is to be shown. *)
<1>c. ASSUME UNCHANGED <<room, row, started, now>>,
             \A tm \in timers' : StartOf(tm) \in started,
             \A h \in Hosts : pc'[h] \in {"persist start", "launch"} => arg'[h] \in started
      PROVE  Goal
  BY <1>c DEF StartsKnown, SessionStart, EndedOnTime
<1>d. ASSUME NEW t \in Threads, NEW label, Goto(t, label),
             label \notin {"persist start", "launch"}, arg' = arg
      PROVE  \A h \in Hosts : pc'[h] \in {"persist start", "launch"} => arg'[h] \in started
  BY <1>d, <1>0 DEF Goto, StartsKnown, TypeOK, ThreadsTyped
<1>1. ASSUME NEW h \in Hosts, NEW dur \in Durations, NEW withVoice \in BOOLEAN,
             Start(h, dur, withVoice)
      PROVE  Goal
  <2> DEFINE s == [at |-> now, dur |-> dur]
  <2>1. /\ started' = started \cup {s} /\ now' = now
        /\ UNCHANGED <<row, timers>>
        /\ pc' = [pc EXCEPT ![h] = "persist start"] /\ arg' = [arg EXCEPT ![h] = s]
    BY <1>1 DEF Start, Goto
  <2>2. room'.status = "playing" /\ SessionStart(room') = s
    BY <1>1 DEF Start, SessionStart
  <2>3. \A g \in Hosts : pc'[g] \in {"persist start", "launch"} => arg'[g] \in started'
    <3> HIDE DEF s
    <3> QED BY <2>1, <1>0 DEF StartsKnown, TypeOK, ThreadsTyped
  <2>4. StartsKnown'
    <3>1. row'.status = "playing" => SessionStart(row') \in started'
      BY <2>1 DEF StartsKnown
    <3>2. \A tm \in timers' : StartOf(tm) \in started'
      BY <2>1 DEF StartsKnown
    <3>3. SessionStart(room') \in started'
      BY <2>1, <2>2
    <3> QED BY <3>1, <3>2, <3>3, <2>3 DEF StartsKnown
  <2>5. OnTime(row', started', now')
    <3>1. started \subseteq started' /\ now' = now /\ row' = row
      BY <2>1
    <3> QED BY <3>1, <1>a, OnTimeKept
  <2>6. OnTime(room', started', now')
    BY <2>2 DEF OnTime
  <2> QED BY <2>4, <2>5, <2>6, <1>b
<1>2. ASSUME NEW h \in Hosts, Stop(h)
      PROVE  Goal
  <2>1. /\ UNCHANGED <<row, started, now, timers, arg>> /\ Goto(h, "persist stop")
        /\ room' = [room EXCEPT !.status = "finished", !.startedAt = 0, !.withVoice = FALSE]
    BY <1>2 DEF Stop
  <2>2. room'.status = "finished" /\ room'.startedAt = 0
    BY <2>1 DEF TypeOK, SessionTyped, Sessions
  <2>3. StartsKnown'
    BY <2>1, <2>2, <1>d, <1>0 DEF StartsKnown
  <2>4. OnTime(room', started', now') /\ OnTime(row', started', now')
    BY <2>1, <2>2, <1>a DEF OnTime
  <2> QED BY <2>3, <2>4, <1>b
<1>3. ASSUME NEW h \in Hosts, VoiceStart(h) \/ VoiceStop(h)
      PROVE  Goal
  <2>1. UNCHANGED <<room, row, started, now, timers, pc, arg>>
    BY <1>3 DEF VoiceStart, VoiceStop
  <2> QED BY <2>1, <1>c DEF StartsKnown
<1>4. ASSUME NEW t \in Threads,
             \/ Persist(t, "persist start", "launch")
             \/ Persist(t, "persist stop", "complete event")
             \/ Persist(t, "persist", "idle")
      PROVE  Goal
  <2>1. /\ UNCHANGED <<room, started, now, timers, arg>> /\ row' = room
        /\ \/ pc[t] = "persist start" /\ pc' = [pc EXCEPT ![t] = "launch"]
           \/ pc' = [pc EXCEPT ![t] = "complete event"]
           \/ pc' = [pc EXCEPT ![t] = "idle"]
    BY <1>4 DEF Persist, Goto
  <2>2. \A h \in Hosts : pc'[h] \in {"persist start", "launch"}
                            => pc[h] \in {"persist start", "launch"}
    BY <2>1, <1>0 DEF TypeOK, ThreadsTyped
  <2>3. StartsKnown'
    BY <2>1, <2>2 DEF StartsKnown
  <2> QED BY <2>1, <2>3, <1>a, <1>b
<1>5. ASSUME NEW h \in Hosts, Launch(h)
      PROVE  Goal
  <2>1. /\ UNCHANGED <<room, row, started, now>> /\ pc[h] = "launch"
        /\ timers' = timers \cup {Timer(arg[h], "waiting")}
        /\ pc' = [pc EXCEPT ![h] = "idle"] /\ arg' = [arg EXCEPT ![h] = NoArg]
    BY <1>5 DEF Launch, Goto
  <2>2. arg[h] \in started /\ arg[h] \in StartArgs
    BY <2>1, <1>0 DEF StartsKnown, TypeOK, ThreadsTyped
  <2>3. StartOf(Timer(arg[h], "waiting")) = arg[h]
    BY <2>2 DEF StartOf, Timer, StartArgs
  <2>4. \A g \in Hosts : pc'[g] \in {"persist start", "launch"} =>
            pc[g] \in {"persist start", "launch"} /\ arg'[g] = arg[g]
    BY <2>1, <1>0 DEF TypeOK, ThreadsTyped
  <2>5. \A tm \in timers' : StartOf(tm) \in started
    BY <2>1, <2>2, <2>3 DEF StartsKnown
  <2> QED BY <2>1, <2>4, <2>5, <1>c DEF StartsKnown
<1>6. ASSUME NEW h \in Hosts, CompleteEvent(h)
      PROVE  Goal
  <2>1. UNCHANGED <<room, row, started, now, timers, arg>> /\ Goto(h, "idle")
    BY <1>6 DEF CompleteEvent
  <2> QED BY <2>1, <1>0, <1>c, <1>d DEF StartsKnown
<1>7. CASE HubTraffic
  <2>1. UNCHANGED <<room, row, started, now, timers, arg>> /\ Goto(Hub, "persist")
    BY <1>7 DEF HubTraffic
  <2> QED BY <2>1, <1>0, <1>c, <1>d DEF StartsKnown
<1>8. ASSUME NEW tm \in timers, Expire(tm)
      PROVE  Goal
  <2>1. UNCHANGED <<row, started, now, pc, arg>> /\ now >= tm.at + Wrap(tm.dur)
    BY <1>8 DEF Expire
  <2>2. StartOf(tm) \in started /\ StartOf(tm).at = tm.at /\ StartOf(tm).dur = tm.dur
    BY DEF StartsKnown, StartOf
  <2>3. CASE room.status = "playing" /\ room.startedAt = tm.at
    <3>1. /\ room' = [room EXCEPT !.status = "finished"]
          /\ timers' = (timers \ {tm}) \cup {Timer(tm, "persist")}
      BY <1>8, <2>3 DEF Expire
    <3>2. room'.status = "finished" /\ room'.startedAt = tm.at
      BY <3>1, <2>3 DEF TypeOK, SessionTyped, Sessions
    <3>3. StartOf(Timer(tm, "persist")) = StartOf(tm)
      BY DEF StartOf, Timer
    <3>4. StartsKnown'
      BY <2>1, <2>2, <3>1, <3>2, <3>3 DEF StartsKnown
    <3>5. OnTime(room', started, now)
      BY <2>1, <2>2, <3>2, OverIsOnTime
    <3> QED BY <2>1, <3>4, <3>5, <1>a, <1>b
  <2>4. CASE ~(room.status = "playing" /\ room.startedAt = tm.at)
    <3>1. timers' = timers \ {tm} /\ UNCHANGED room
      BY <1>8, <2>4 DEF Expire
    <3> QED BY <2>1, <3>1, <1>c DEF StartsKnown
  <2> QED BY <2>3, <2>4
<1>9. ASSUME NEW tm \in timers, TimerPersist(tm)
      PROVE  Goal
  <2>1. /\ UNCHANGED <<room, started, now, pc, arg>> /\ row' = room
        /\ timers' = (timers \ {tm}) \cup {Timer(tm, "complete event")}
    BY <1>9 DEF TimerPersist
  <2>2. StartOf(Timer(tm, "complete event")) = StartOf(tm)
    BY DEF StartOf, Timer
  <2>3. StartsKnown'
    BY <2>1, <2>2 DEF StartsKnown
  <2> QED BY <2>1, <2>3, <1>a, <1>b
<1>10. ASSUME NEW tm \in timers, TimerEvent(tm)
       PROVE  Goal
  <2>1. UNCHANGED <<room, row, started, now, pc, arg>> /\ timers' = timers \ {tm}
    BY <1>10 DEF TimerEvent
  <2> QED BY <2>1, <1>c DEF StartsKnown
<1>11. CASE Tick
  <2>1. UNCHANGED <<room, row, started, timers, pc, arg>> /\ now' = now + 1
    BY <1>11 DEF Tick
  <2>2. OnTime(room', started', now') /\ OnTime(row', started', now')
    BY <2>1, <1>a, OnTimeKept
  <2> QED BY <2>1, <2>2, <1>b DEF StartsKnown
<1>12. CASE Crash
  <2>1. /\ UNCHANGED <<row, started, now>> /\ timers' = {} /\ room' = Lobby(FALSE)
        /\ pc' = [t \in Threads |-> "idle"]
    BY <1>12 DEF Crash
  <2>2. room'.status = "lobby"
    BY <2>1 DEF Lobby
  <2>3. StartsKnown'
    BY <2>1, <2>2, <1>0 DEF StartsKnown
  <2>4. OnTime(room', started', now') /\ OnTime(row', started', now')
    BY <2>1, <2>2, <1>a DEF OnTime
  <2> QED BY <2>3, <2>4, <1>b
<1>13. CASE Restart
  <2> DEFINE over == row.status = "playing" /\ row.startedAt + row.duration <= now
             tm == [at |-> row.startedAt, dur |-> row.duration, pc |-> "waiting"]
  <2>1. /\ UNCHANGED <<started, now, pc, arg>> /\ row' = room'
        /\ room' = [row EXCEPT !.status = IF over THEN "finished" ELSE @]
        /\ timers' = IF row.status = "playing" /\ ~over THEN {tm} ELSE {}
    BY <1>13 DEF Restart
  <2>2. /\ room'.status = IF over THEN "finished" ELSE row.status
        /\ SessionStart(room') = SessionStart(row)
        /\ room'.startedAt = row.startedAt
    BY <2>1 DEF TypeOK, SessionTyped, Sessions, SessionStart
  <2>3. StartOf(tm) = SessionStart(row)
    BY DEF StartOf, SessionStart
  <2>4. StartsKnown'
    <3>1. \A m \in timers' : row.status = "playing" /\ m = tm
      BY <2>1
    <3>2. \A m \in timers' : StartOf(m) \in started'
      BY <3>1, <2>1, <2>3 DEF StartsKnown
    <3>3. room'.status = "playing" => SessionStart(room') \in started'
      BY <2>1, <2>2 DEF StartsKnown
    <3> HIDE DEF tm, over
    <3> QED BY <2>1, <3>2, <3>3 DEF StartsKnown
  <2>5. OnTime(room', started, now)
    <3>1. CASE over
      <4> DEFINE s == SessionStart(row)
      <4>1. s \in started /\ s.at = row.startedAt /\ s.dur = row.duration
        BY <3>1 DEF StartsKnown, SessionStart
      <4>2. s.at \in Int /\ s.dur \in Int
        BY <4>1 DEF TypeOK, SessionTyped, Sessions
      <4>3. now >= s.at + s.dur
        BY <3>1, <4>1, <4>2, <1>a
      <4>4. room'.startedAt = s.at
        BY <4>1, <2>2
      <4> HIDE DEF s
      <4> QED BY <4>1, <4>3, <4>4 DEF OnTime
    <3>2. CASE ~over
      BY <3>2, <2>2, <1>a DEF OnTime
    <3> QED BY <3>1, <3>2
  <2> QED BY <2>1, <2>4, <2>5, <1>b
<1>14. CASE UNCHANGED vars
  BY <1>14, <1>c DEF vars, StartsKnown
<1>15. CASE Next
  <2> HIDE DEF Goal
  <2> QED
    BY NextCases, <1>15, <1>0, <1>1, <1>2, <1>3, <1>4, <1>5, <1>6, <1>7, <1>8, <1>9,
       <1>10, <1>11, <1>12, <1>13, Zenon
<1> QED BY <1>14, <1>15

(* No session is cut short, neither by the timer of an earlier session nor *)
(* by a restart.                                                           *)
THEOREM SessionsLastTheirTime == Spec => []EndedOnTime
<1> QED BY StartsInit, StartsNext, TypeCorrect, PTL DEF Spec

-----------------------------------------------------------------------------
(* The event of a finished room has its removal ahead of it: a stop that   *)
(* has not completed it yet, or the goroutine that ended the session.      *)
EventOwed ==
    \/ \E t \in Threads : pc[t] \in {"persist stop", "complete event"}
    \/ \E tm \in timers : tm.pc \in {"persist", "complete event"}

GoneInv == crashes = 0 => up /\ (room.status = "finished" /\ event => EventOwed)

LEMMA OwedKept ==
    ASSUME TypeOK, NEW t \in Threads, NEW label,
           pc[t] \notin {"persist stop", "complete event"},
           Goto(t, label), timers \subseteq timers', EventOwed
    PROVE  EventOwed'
BY DEF EventOwed, Goto, TypeOK, ThreadsTyped

LEMMA OwedBegun ==
    ASSUME TypeOK, NEW t \in Threads,
           NEW label \in {"persist stop", "complete event"}, Goto(t, label)
    PROVE  EventOwed'
BY DEF EventOwed, Goto, TypeOK, ThreadsTyped

LEMMA OwedTimers ==
    ASSUME EventOwed, pc' = pc, NEW tm \in timers, tm.pc = "waiting",
           timers \ {tm} \subseteq timers'
    PROVE  EventOwed'
BY DEF EventOwed

LEMMA GoneNext ==
    ASSUME TypeOK, GoneInv, [Next]_vars
    PROVE  GoneInv'
<1>0. Hub \in Threads /\ Hosts \subseteq Threads
  BY DEF Threads
<1>1. ASSUME NEW h \in Hosts, NEW dur \in Durations, NEW withVoice \in BOOLEAN,
             Start(h, dur, withVoice)
      PROVE  GoneInv'
  BY <1>1 DEF Start, GoneInv
<1>2. ASSUME NEW h \in Hosts, Stop(h)
      PROVE  GoneInv'
  <2>1. Goto(h, "persist stop") /\ UNCHANGED <<up, crashes>>
    BY <1>2 DEF Stop, counters
  <2> QED BY <2>1, <1>0, OwedBegun DEF GoneInv
<1>3. ASSUME NEW h \in Hosts, VoiceStart(h) \/ VoiceStop(h)
      PROVE  GoneInv'
  BY <1>3 DEF VoiceStart, VoiceStop, GoneInv, EventOwed, counters
<1>4. ASSUME NEW t \in Threads, NEW from \in {"persist start", "persist"}, NEW to,
             Persist(t, from, to)
      PROVE  GoneInv'
  <2>1. /\ pc[t] \notin {"persist stop", "complete event"}
        /\ Goto(t, to) /\ timers' = timers /\ UNCHANGED <<up, room, event, crashes>>
    BY <1>4 DEF Persist, counters
  <2> QED BY <2>1, OwedKept DEF GoneInv
<1>5. ASSUME NEW h \in Hosts, Persist(h, "persist stop", "complete event")
      PROVE  GoneInv'
  <2>1. Goto(h, "complete event") /\ UNCHANGED <<up, crashes>>
    BY <1>5 DEF Persist, counters
  <2> QED BY <2>1, <1>0, OwedBegun DEF GoneInv
<1>6. ASSUME NEW h \in Hosts, Launch(h)
      PROVE  GoneInv'
  <2>1. /\ pc[h] = "launch" /\ Goto(h, "idle") /\ timers \subseteq timers'
        /\ UNCHANGED <<up, room, event, crashes>>
    BY <1>6 DEF Launch, counters
  <2> QED BY <2>1, <1>0, OwedKept DEF GoneInv
<1>7. ASSUME NEW h \in Hosts, CompleteEvent(h)
      PROVE  GoneInv'
  BY <1>7 DEF CompleteEvent, GoneInv, counters
<1>8. CASE HubTraffic
  <2>1. /\ pc[Hub] = "idle" /\ Goto(Hub, "persist") /\ timers' = timers
        /\ UNCHANGED <<up, room, event, crashes>>
    BY <1>8 DEF HubTraffic, counters
  <2> QED BY <2>1, <1>0, OwedKept DEF GoneInv
<1>9. ASSUME NEW tm \in timers, Expire(tm)
      PROVE  GoneInv'
  <2>0. /\ tm.pc = "waiting" /\ timers \ {tm} \subseteq timers' /\ pc' = pc
        /\ UNCHANGED <<up, event, crashes>>
    BY <1>9 DEF Expire, counters
  <2>1. CASE room.status = "playing" /\ room.startedAt = tm.at
    <3>1. Timer(tm, "persist") \in timers' /\ Timer(tm, "persist").pc = "persist"
      BY <1>9, <2>1 DEF Expire, Timer
    <3> QED BY <3>1, <2>0 DEF GoneInv, EventOwed
  <2>2. CASE ~(room.status = "playing" /\ room.startedAt = tm.at)
    <3>1. room' = room
      BY <1>9, <2>2 DEF Expire
    <3> QED BY <3>1, <2>0, OwedTimers DEF GoneInv
  <2> QED BY <2>1, <2>2
<1>10. ASSUME NEW tm \in timers, TimerPersist(tm)
       PROVE  GoneInv'
  <2>1. /\ Timer(tm, "complete event") \in timers'
        /\ Timer(tm, "complete event").pc = "complete event"
        /\ UNCHANGED <<up, crashes>>
    BY <1>10 DEF TimerPersist, Timer, counters
  <2> QED BY <2>1 DEF GoneInv, EventOwed
<1>11. ASSUME NEW tm \in timers, TimerEvent(tm)
       PROVE  GoneInv'
  BY <1>11 DEF TimerEvent, GoneInv, counters
<1>12. CASE Tick
  BY <1>12 DEF Tick, GoneInv, EventOwed, counters
<1>13. CASE Crash
  <2>1. crashes \in Nat /\ crashes' = crashes + 1
    BY <1>13 DEF Crash, TypeOK, ClockTyped
  <2>2. crashes' # 0
    BY <2>1
  <2> QED BY <2>2 DEF GoneInv
<1>14. CASE Restart
  BY <1>14 DEF Restart, GoneInv, counters
<1>15. CASE UNCHANGED vars
  BY <1>15 DEF vars, GoneInv, EventOwed, counters
<1>16. CASE Next
  BY NextCases, <1>16, <1>0, <1>1, <1>2, <1>3, <1>4, <1>5, <1>6, <1>7, <1>8, <1>9,
     <1>10, <1>11, <1>12, <1>13, <1>14, Zenon
<1> QED BY <1>15, <1>16

(* As long as the process does not die, a finished room whose event is     *)
(* still listed has somebody on the way to complete it; when nobody has    *)
(* anything left to do, the event is gone.                                 *)
THEOREM FinishedEventsGo == Spec => []EventGoneUncrashed
<1>1. Init => GoneInv
  BY DEF Init, GoneInv, Lobby
<1>2. GoneInv => EventGoneUncrashed
  BY DEF GoneInv, EventOwed, EventGoneUncrashed, EventGone, Settled
<1> QED BY <1>1, <1>2, GoneNext, TypeCorrect, PTL DEF Spec

=============================================================================
