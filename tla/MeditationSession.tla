------------------------- MODULE MeditationSession -------------------------
(***************************************************************************)
(* The meditation of one room: lobby, playing, finished.  The host starts  *)
(* and stops it and records a live voice (handleIncomingMessage in         *)
(* src/backend/room/client.go), a goroutine per start ends it when its     *)
(* duration is over (scheduleRoomCompletion in persistence.go), every      *)
(* change is saved by PersistRoom, finishing removes the scheduled event   *)
(* of the room, and a restart of the server loads the row back             *)
(* (LoadPersistentRooms).                                                  *)
(*                                                                         *)
(* Each handler changes the Room under room.Mutex, releases the lock, and  *)
(* then writes to the database in further steps: between two of them other *)
(* threads run and the process may crash.  PersistRoom itself holds        *)
(* room.Mutex during its upsert, so it is one step that copies the Room.   *)
(* Several connections may carry the host's client id (a reopened tab),    *)
(* and each has its own handler thread.                                    *)
(***************************************************************************)
EXTENDS Integers, FiniteSets

CONSTANTS
    Hosts,       \* connections with Client.ID = Room.HostID
    Hub,         \* the hub loop, which saves the room on joins and departures
    Durations,   \* durations a start message may carry, in ticks; not validated
    MaxDuration, \* time.Duration holds -MaxDuration .. MaxDuration - 1
    EventExists, \* whether a scheduled event belongs to the room
    MaxTime,     \* bound: the clock, and the ends of the meditations
    MaxStarts,   \* bound: start messages
    MaxVoice,    \* bound: voice_start messages
    MaxCrashes   \* bound: crashes of the process

ASSUME HubAssumption       == Hub \notin Hosts
ASSUME DurationsAssumption == Durations \subseteq Int
ASSUME WidthAssumption     == MaxDuration \in Nat /\ MaxDuration > 0
ASSUME EventAssumption     == EventExists \in BOOLEAN
ASSUME BoundsAssumption    == {MaxTime, MaxStarts, MaxVoice, MaxCrashes} \subseteq Nat

VARIABLES
    up, now,
    room,        \* the persisted fields of Room
    voice,       \* VoiceFile # nil, what VoiceFilePath names, VoiceStartedAt
    row,         \* the row of the room in table rooms
    event,       \* a row of meditation_events has this room_id
    pc, arg,     \* per thread: where it is, and the start it remembers
    timers,      \* scheduleRoomCompletion goroutines
    started,     \* history: the meditations started
    recorded,    \* history: what became of the last live recording
    starts, voices, crashes

Threads == Hosts \cup {Hub}
counters == <<starts, voices, crashes>>
vars == <<up, now, room, voice, row, event, pc, arg, timers, started, recorded,
          counters>>

Statuses == {"lobby", "playing", "finished"}
Paths    == {"none", "recording", "track"}   \* "", the file opened, a library track
Lobby(withVoice) == [status |-> "lobby", startedAt |-> 0, duration |-> 1,
                     withVoice |-> withVoice]
NoVoice == [file |-> FALSE, path |-> "none", since |-> 0]
NoArg   == [at |-> 0, dur |-> 0]

Timer(s, where) == [at |-> s.at, dur |-> s.dur, pc |-> where]
Goto(t, label)  == pc' = [pc EXCEPT ![t] = label]

(* time.Duration(duration) * time.Second                                   *)
Wrap(d) == ((d + MaxDuration) % (2 * MaxDuration)) - MaxDuration

(* stopVoiceRecordingLocked: with an open file, a track is registered if   *)
(* VoiceStartedAt yields a positive duration; otherwise what VoiceFilePath *)
(* names is removed.                                                       *)
RecordingEnd ==
    IF voice.file
      THEN [path |-> voice.path,
            end |-> IF voice.since > 0 /\ now > voice.since THEN "registered"
                    ELSE IF voice.path # "none" THEN "removed" ELSE "lost"]
      ELSE recorded

StopRecording ==
    /\ recorded' = RecordingEnd
    /\ voice' = IF voice.file THEN NoVoice ELSE voice

-----------------------------------------------------------------------------
Init ==
    /\ up = TRUE
    /\ now = 1
    /\ \E withVoice \in BOOLEAN : room = Lobby(withVoice)
    /\ voice = NoVoice
    /\ row = room
    /\ event = EventExists
    /\ pc = [t \in Threads |-> "idle"]
    /\ arg = [t \in Threads |-> NoArg]
    /\ timers = {}
    /\ started = {}
    /\ recorded = [path |-> "none", end |-> "none"]
    /\ starts = 0 /\ voices = 0 /\ crashes = 0

(* "start"; withVoice: a pre-recorded voice was chosen.  The fields of a   *)
(* live recording are overwritten, its file is not closed.                 *)
Start(h, dur, withVoice) ==
    /\ up /\ pc[h] = "idle"
    /\ starts < MaxStarts /\ now + Wrap(dur) <= MaxTime
    /\ room' = [status |-> "playing", startedAt |-> now, duration |-> dur,
                withVoice |-> withVoice]
    /\ voice' = [voice EXCEPT !.path = IF withVoice THEN "track" ELSE "none",
                              !.since = IF withVoice THEN now ELSE 0]
    /\ arg' = [arg EXCEPT ![h] = [at |-> now, dur |-> dur]]
    /\ started' = started \cup {[at |-> now, dur |-> dur]}
    /\ starts' = starts + 1
    /\ Goto(h, "persist start")
    /\ UNCHANGED <<up, now, row, event, timers, recorded, voices, crashes>>

(* "stop": ends the recording, then the session.                           *)
Stop(h) ==
    /\ up /\ pc[h] = "idle"
    /\ room' = [room EXCEPT !.status = "finished", !.startedAt = 0, !.withVoice = FALSE]
    /\ recorded' = RecordingEnd /\ voice' = NoVoice
    /\ Goto(h, "persist stop")
    /\ UNCHANGED <<up, now, row, event, arg, timers, started, counters>>

(* PersistRoom, under room.Mutex.                                          *)
Persist(t, from, to) ==
    /\ up /\ pc[t] = from
    /\ row' = room
    /\ Goto(t, to)
    /\ UNCHANGED <<up, now, room, voice, event, arg, timers, started, recorded, counters>>

(* Mutant of Launch: one goroutine per room is thought enough.             *)
LaunchOnce(h) ==
    /\ up /\ pc[h] = "launch"
    /\ timers' = IF timers = {} THEN {Timer(arg[h], "waiting")} ELSE timers
    /\ arg' = [arg EXCEPT ![h] = NoArg]
    /\ Goto(h, "idle")
    /\ UNCHANGED <<up, now, room, voice, row, event, started, recorded, counters>>

(* go scheduleRoomCompletion, after the broadcasts.                        *)
Launch(h) ==
    /\ up /\ pc[h] = "launch"
    /\ timers' = timers \cup {Timer(arg[h], "waiting")}
    /\ arg' = [arg EXCEPT ![h] = NoArg]
    /\ Goto(h, "idle")
    /\ UNCHANGED <<up, now, room, voice, row, event, started, recorded, counters>>

(* CompleteMeditationEventByRoom, one transaction.                         *)
CompleteEvent(h) ==
    /\ up /\ pc[h] = "complete event"
    /\ event' = FALSE
    /\ Goto(h, "idle")
    /\ UNCHANGED <<up, now, room, voice, row, arg, timers, started, recorded, counters>>

(* "voice_start": a recording under way is replaced; the file may fail to  *)
(* open, path and time are set all the same.                               *)
VoiceStart(h) ==
    /\ up /\ pc[h] = "idle" /\ voices < MaxVoice
    /\ \E opened \in BOOLEAN :
         voice' = [file |-> opened, path |-> "recording", since |-> now]
    /\ voices' = voices + 1
    /\ UNCHANGED <<up, now, room, row, event, pc, arg, timers, started, recorded,
                   starts, crashes>>

VoiceStop(h) ==
    /\ up /\ pc[h] = "idle"
    /\ StopRecording
    /\ UNCHANGED <<up, now, room, row, event, pc, arg, timers, started, counters>>

(* Register, Unregister: somebody comes or goes and the room is saved.  If *)
(* it is the host who goes the recording ends.                             *)
HubTraffic ==
    /\ up /\ pc[Hub] = "idle"
    /\ StopRecording \/ UNCHANGED <<voice, recorded>>
    /\ Goto(Hub, "persist")
    /\ UNCHANGED <<up, now, room, row, event, arg, timers, started, counters>>

-----------------------------------------------------------------------------
(* Mutants of Expire: the session is not compared; it is not saved.        *)
ExpireAs(tm, current, next) ==
    /\ up /\ tm \in timers /\ tm.pc = "waiting" /\ now >= tm.at + Wrap(tm.dur)
    /\ IF current
         THEN /\ room' = [room EXCEPT !.status = "finished"]
              /\ voice' = [voice EXCEPT !.path = "none", !.since = 0]
              /\ timers' = (timers \ {tm}) \cup {Timer(tm, next)}
         ELSE /\ timers' = timers \ {tm}
              /\ UNCHANGED <<room, voice>>
    /\ UNCHANGED <<up, now, row, event, pc, arg, started, recorded, counters>>
ExpireAnySession(tm) == ExpireAs(tm, room.status = "playing", "persist")
ExpireUnsaved(tm)    == ExpireAs(tm, room.status = "playing" /\ room.startedAt = tm.at,
                                 "complete event")

(* Mutant of Expire: an open recording is waited for.                      *)
ExpireUnrecorded(tm) ==
    /\ up /\ tm \in timers /\ tm.pc = "waiting" /\ now >= tm.at + Wrap(tm.dur) /\ ~voice.file
    /\ IF room.status = "playing" /\ room.startedAt = tm.at
         THEN /\ room' = [room EXCEPT !.status = "finished"]
              /\ voice' = [voice EXCEPT !.path = "none", !.since = 0]
              /\ timers' = (timers \ {tm}) \cup {Timer(tm, "persist")}
         ELSE /\ timers' = timers \ {tm}
              /\ UNCHANGED <<room, voice>>
    /\ UNCHANGED <<up, now, row, event, pc, arg, started, recorded, counters>>

(* scheduleRoomCompletion: ends the session it was started for, if that is *)
(* still the current one, and leaves an open recording file open.          *)
Expire(tm) ==
    /\ up /\ tm \in timers /\ tm.pc = "waiting" /\ now >= tm.at + Wrap(tm.dur)
    /\ IF room.status = "playing" /\ room.startedAt = tm.at
         THEN /\ room' = [room EXCEPT !.status = "finished"]
              /\ voice' = [voice EXCEPT !.path = "none", !.since = 0]
              /\ timers' = (timers \ {tm}) \cup {Timer(tm, "persist")}
         ELSE /\ timers' = timers \ {tm}
              /\ UNCHANGED <<room, voice>>
    /\ UNCHANGED <<up, now, row, event, pc, arg, started, recorded, counters>>

(* Mutant of TimerPersist: the goroutine ends with the save.               *)
TimerPersistLast(tm) ==
    /\ up /\ tm \in timers /\ tm.pc = "persist"
    /\ row' = room
    /\ timers' = timers \ {tm}
    /\ UNCHANGED <<up, now, room, voice, event, pc, arg, started, recorded, counters>>

TimerPersist(tm) ==
    /\ up /\ tm \in timers /\ tm.pc = "persist"
    /\ row' = room
    /\ timers' = (timers \ {tm}) \cup {Timer(tm, "complete event")}
    /\ UNCHANGED <<up, now, room, voice, event, pc, arg, started, recorded, counters>>

TimerEvent(tm) ==
    /\ up /\ tm \in timers /\ tm.pc = "complete event"
    /\ event' = FALSE
    /\ timers' = timers \ {tm}
    /\ UNCHANGED <<up, now, room, voice, row, pc, arg, started, recorded, counters>>

-----------------------------------------------------------------------------
Tick ==
    /\ now < MaxTime
    /\ now' = now + 1
    /\ UNCHANGED <<up, room, voice, row, event, pc, arg, timers, started, recorded, counters>>

(* Everything in memory is lost; connections and goroutines end.           *)
Crash ==
    /\ up /\ crashes < MaxCrashes
    /\ up' = FALSE
    /\ crashes' = crashes + 1
    /\ room' = Lobby(FALSE) /\ voice' = NoVoice
    /\ pc' = [t \in Threads |-> "idle"]
    /\ arg' = [t \in Threads |-> NoArg]
    /\ timers' = {}
    /\ UNCHANGED <<now, row, event, started, recorded, starts, voices>>

(* LoadPersistentRooms, before the hub and the listener run.  The expiry   *)
(* is computed in int64 milliseconds here.                                 *)
Restart ==
    /\ ~up
    /\ up' = TRUE
    /\ LET over   == row.status = "playing" /\ row.startedAt + row.duration <= now
           resume == row.status = "playing" /\ ~over
       IN /\ room' = [row EXCEPT !.status = IF over THEN "finished" ELSE @]
          /\ row' = room'
          /\ voice' = IF resume /\ row.withVoice
                        THEN [file |-> FALSE, path |-> "track", since |-> row.startedAt]
                        ELSE NoVoice
          /\ timers' = IF resume
                         THEN {[at |-> row.startedAt, dur |-> row.duration, pc |-> "waiting"]}
                         ELSE {}
    /\ UNCHANGED <<now, event, pc, arg, started, recorded, counters>>

-----------------------------------------------------------------------------
HostStep(h) ==            \* the handler carries on
    \/ Persist(h, "persist start", "launch")
    \/ Launch(h)
    \/ Persist(h, "persist stop", "complete event")
    \/ CompleteEvent(h)

HostMessage(h) ==         \* the handler takes the next message
    \/ \E dur \in Durations, withVoice \in BOOLEAN : Start(h, dur, withVoice)
    \/ Stop(h) \/ VoiceStart(h) \/ VoiceStop(h)

TimerStep(tm) == Expire(tm) \/ TimerPersist(tm) \/ TimerEvent(tm)

Next ==
    \/ \E h \in Hosts : HostMessage(h) \/ HostStep(h)
    \/ HubTraffic
    \/ Persist(Hub, "persist", "idle")
    \/ \E tm \in timers : TimerStep(tm)
    \/ Tick \/ Crash \/ Restart

Spec == Init /\ [][Next]_vars

(* Handlers and goroutines run on, time passes, and the container runtime  *)
(* restarts the process ("restart: unless-stopped").                       *)
FairSpec ==
    /\ Spec
    /\ \A h \in Hosts : WF_vars(HostStep(h))
    /\ WF_vars(Persist(Hub, "persist", "idle"))
    /\ WF_vars(\E tm \in timers : TimerStep(tm))
    /\ WF_vars(Tick)
    /\ WF_vars(Restart)

-----------------------------------------------------------------------------
Sessions == [status : Statuses, startedAt : 0..now, duration : Int, withVoice : BOOLEAN]
StartArgs == [at : 0..now, dur : Int]

ClockTyped   == /\ up \in BOOLEAN /\ event \in BOOLEAN
                /\ now \in Nat /\ now > 0
                /\ starts \in Nat /\ voices \in Nat /\ crashes \in Nat
SessionTyped == room \in Sessions /\ row \in Sessions
VoiceTyped   == /\ voice \in [file : BOOLEAN, path : Paths, since : 0..now]
                /\ recorded \in [path : Paths,
                                 end : {"none", "registered", "removed", "lost"}]
ThreadsTyped == /\ pc \in [Threads -> {"idle", "persist", "persist start", "launch",
                                       "persist stop", "complete event"}]
                /\ arg \in [Threads -> StartArgs]
TimersTyped  == /\ timers \in SUBSET [at : 0..now, dur : Int,
                                      pc : {"waiting", "persist", "complete event"}]
                /\ started \in SUBSET StartArgs

(* A StartedAt, the start of a recording and what the goroutines remember  *)
(* are of the right kind and never lie in the future.                      *)
TypeOK == ClockTyped /\ SessionTyped /\ VoiceTyped /\ ThreadsTyped /\ TimersTyped

Playing == room.status = "playing"

(* The row of the room is its state in memory, except while some thread    *)
(* still has a PersistRoom ahead: what a crash loses is at most the change *)
(* whose save had not run, whatever the order of concurrent saves.         *)
SavePending ==
    \/ \E t \in Threads : pc[t] \in {"persist", "persist start", "persist stop"}
    \/ \E tm \in timers : tm.pc = "persist"

RowMatches == up => row = room \/ SavePending

(* A session that plays has a goroutine that will end it at its own end,   *)
(* or the handler that started it is about to launch one; also after a     *)
(* crash and LoadPersistentRooms.                                          *)
Matches(s, r) == s.at = r.startedAt /\ s.dur = r.duration

PlayingHasTimer ==
    up /\ Playing =>
        \/ \E tm \in timers : tm.pc = "waiting" /\ Matches(tm, room)
        \/ \E h \in Hosts : pc[h] \in {"persist start", "launch"} /\ Matches(arg[h], room)

(* A session ends on its own, in memory or in the row, only when the time  *)
(* of a start with its StartedAt is over: the timer of a session that was  *)
(* stopped or replaced never cuts the next one short, and neither does a   *)
(* restart.  (A duration time.Duration cannot hold is excepted: it wraps.) *)
Holds(d) == d \in -MaxDuration .. MaxDuration - 1

EndedOnTime ==
    \A x \in {room, row} :
        x.status = "finished" /\ x.startedAt # 0 =>
            \E s \in started : s.at = x.startedAt /\ (Holds(s.dur) => now >= s.at + s.dur)

(* CompleteMeditationEventByRoom "removes a scheduled event from the       *)
(* upcoming poster as soon as its actual room finishes": when the server   *)
(* has nothing left to do, no finished room has its event still listed.    *)
Settled == (\A t \in Threads : pc[t] = "idle") /\ \A tm \in timers : tm.pc = "waiting"

EventGone == up /\ Settled /\ room.status = "finished" => ~event

(* It holds as long as the process does.                                   *)
EventGoneUncrashed == crashes = 0 => EventGone

(* Every session ends, with or without its host, across a crash.           *)
PlayingEnds ==
    \A t \in 1..MaxTime :
        (up /\ Playing /\ room.startedAt = t) ~> (up /\ ~(Playing /\ room.startedAt = t))
=============================================================================
