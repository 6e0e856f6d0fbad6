-------------------------- MODULE RoomMedia_proofs --------------------------
(* TLAPS proofs about what is heard in a room: RoomPlayer, for every set   *)
(* of tracks and any number of sessions, and RoomVoice, for any number of  *)
(* captures, chunks and messages under way.                                *)
EXTENDS RoomPlayer, RoomVoice, SequenceTheorems, TLAPS

(***************************************************************************)
(* The audio element.                                                      *)
(***************************************************************************)
LEMMA MediaIsThere == \A a \in Media : a # NoAudio
<1>1. \A a \in Media : a.src # NoTrack
  BY TrackAssumption DEF Media
<1>2. NoAudio.src = NoTrack
  BY DEF NoAudio
<1>3. QED
  BY <1>1, <1>2

LEMMA LoadingMedia ==
    ASSUME NEW t \in Tracks, NEW muted \in BOOLEAN
    PROVE  /\ Loading(t, muted) \in Media
           /\ Loading(t, muted).src = t /\ Loading(t, muted).muted = muted
           /\ ~Loading(t, muted).loaded /\ Loading(t, muted).failed = "no"
BY SessionAssumption DEF Loading, Media

LEMMA TunedMedia ==
    ASSUME NEW current \in {NoAudio} \cup Media, NEW r, r.track \in Tracks, isMuted \in BOOLEAN
    PROVE  /\ Tuned(current, r) \in Media
           /\ Tuned(current, r).src = r.track /\ Tuned(current, r).muted = isMuted
<1>1. CASE current.src = r.track
  <2>1. current \in Media
    BY <1>1, TrackAssumption DEF NoAudio
  <2>2. Tuned(current, r) = [current EXCEPT !.muted = isMuted]
    BY <1>1 DEF Tuned
  <2>3. QED
    BY <1>1, <2>1, <2>2 DEF Media
<1>2. CASE current.src # r.track
  <2>1. Tuned(current, r) = Loading(r.track, isMuted)
    BY <1>2 DEF Tuned
  <2>2. QED
    BY <2>1, LoadingMedia
<1>3. QED
  BY <1>1, <1>2

LEMMA SyncedMedia ==
    ASSUME NEW a \in Media, NEW s \in 0 .. MaxSessions
    PROVE  /\ Synced(a, s) \in Media
           /\ Synced(a, s).src = a.src /\ Synced(a, s).muted = a.muted
           /\ Synced(a, s).loaded = a.loaded /\ Synced(a, s).failed = a.failed
           /\ a.loaded => Synced(a, s).at = s
<1>1. CASE a.loaded
  <2>1. Synced(a, s) = [a EXCEPT !.at = s]
    BY <1>1 DEF Synced
  <2>2. QED
    BY <2>1 DEF Media
<1>2. CASE ~a.loaded
  <2>1. Synced(a, s) = a
    BY <1>2 DEF Synced
  <2>2. QED
    BY <1>2, <2>1
<1>3. QED
  BY <1>1, <1>2

LEMMA PausedMedia ==
    ASSUME NEW a \in Media, NEW p \in BOOLEAN
    PROVE  LET b == [a EXCEPT !.paused = p]
           IN  /\ b \in Media
               /\ b.src = a.src /\ b.muted = a.muted /\ b.loaded = a.loaded
               /\ b.at = a.at /\ b.failed = a.failed
BY DEF Media

LEMMA MutedMedia ==
    ASSUME NEW a \in Media, NEW m \in BOOLEAN
    PROVE  LET b == [a EXCEPT !.muted = m]
           IN  /\ b \in Media /\ b.muted = m
               /\ b.src = a.src /\ b.loaded = a.loaded /\ b.at = a.at /\ b.failed = a.failed
BY DEF Media

(***************************************************************************)
(* The invariant.  What is playing depends on what is still to be loaded:  *)
(* during a session the element has its track, and the listener that seeks *)
(* last is that session's.                                                 *)
(***************************************************************************)
Known(r) == r.status = "playing" => r.track \in Tracks /\ r.startedAt # 0

Quiet == ~isPlaying => audio = NoAudio

Seeks == /\ ready.effect = roomState.startedAt
         /\ ready.forcedLast /\ ready.forced # 0 => ready.forced = roomState.startedAt

InStep ==
    isPlaying /\ ~over =>
        /\ audio \in Media /\ audio.src = roomState.track
        /\ audio.loaded => audio.at = roomState.startedAt
        /\ Seeks

PlayerInv ==
    /\ TypeOK /\ Known(server) /\ Known(roomState)
    /\ MuteIsHeld /\ Quiet /\ InStep

LEMMA InStepSuffices == PlayerInv => MusicIsInStep
BY DEF PlayerInv, MusicIsInStep, Quiet, InStep, Sounding

(***************************************************************************)
(* The audio effect.                                                       *)
(***************************************************************************)
LEMMA CleanedType ==
    ASSUME NEW current \in {NoAudio} \cup Media, ready \in Listeners
    PROVE  Cleaned(current) \in Listeners
BY SessionAssumption DEF Cleaned, NoSeek, Listeners

(* With a session, whatever the browser answers to play().                 *)
LEMMA EffectPlays ==
    ASSUME NEW current \in {NoAudio} \cup Media, ready \in Listeners, isMuted \in BOOLEAN,
           autoplayBlocked \in BOOLEAN, audioLoadError \in BOOLEAN,
           NEW r \in RoomStates, Known(r), r.status = "playing", over' = FALSE,
           ready' = [Cleaned(current) EXCEPT !.effect = r.startedAt, !.forcedLast = FALSE],
           LET a == Synced(Tuned(current, r), r.startedAt) IN Refused(a) \/ Plays(a) \/ Rejected(a)
    PROVE  /\ audio' \in Media /\ ready' \in Listeners /\ pending' \in BOOLEAN
           /\ autoplayBlocked' \in BOOLEAN /\ audioLoadError' \in BOOLEAN
           /\ audio'.muted = isMuted /\ audio'.src = r.track
           /\ audio'.loaded => audio'.at = r.startedAt
           /\ ready'.effect = r.startedAt /\ ~ready'.forcedLast
<1> DEFINE t == Tuned(current, r)
           a == Synced(t, r.startedAt)
<1>1. r.track \in Tracks /\ r.startedAt \in 0 .. MaxSessions
  BY DEF Known, RoomStates
<1>2. t \in Media /\ t.src = r.track /\ t.muted = isMuted
  BY <1>1, TunedMedia
<1>3. /\ a \in Media /\ a.src = t.src /\ a.muted = t.muted
      /\ a.loaded = t.loaded /\ (t.loaded => a.at = r.startedAt)
  BY <1>1, <1>2, SyncedMedia
<1>4. Refused(a) \/ Plays(a) \/ Rejected(a)
  OBVIOUS
<1> HIDE DEF t, a
<1>5. /\ audio' = a \/ audio' = [a EXCEPT !.paused = FALSE]
      /\ pending' \in BOOLEAN /\ autoplayBlocked' \in BOOLEAN /\ audioLoadError' \in BOOLEAN
  BY <1>4 DEF Refused, Plays, Rejected
<1>6. /\ audio' \in Media /\ audio'.src = a.src /\ audio'.muted = a.muted
      /\ audio'.loaded = a.loaded /\ audio'.at = a.at
  BY <1>3, <1>5 DEF Media
<1>7. ready' \in Listeners /\ ready'.effect = r.startedAt /\ ~ready'.forcedLast
  <2>1. Cleaned(current) \in Listeners
    BY CleanedType
  <2>2. QED
    BY <1>1, <2>1 DEF Listeners
<1>8. audio'.muted = isMuted /\ audio'.src = r.track
  BY <1>2, <1>3, <1>6
<1>9. audio'.loaded => audio'.at = r.startedAt
  BY <1>3, <1>6
<1>10. QED
  BY <1>5, <1>6, <1>7, <1>8, <1>9

(* After an effect everything is in step with the state it ran for.        *)
LEMMA EffectKeeps ==
    ASSUME TypeOK, NEW current \in {NoAudio} \cup Media,
           current # NoAudio => current.muted = isMuted,
           NEW r \in RoomStates, Known(r), Effect(current, r),
           inRoom' = TRUE, roomState' = r, isMuted' = isMuted
    PROVE  /\ over' \in BOOLEAN /\ audio' \in {NoAudio} \cup Media /\ ready' \in Listeners
           /\ pending' \in BOOLEAN /\ autoplayBlocked' \in BOOLEAN /\ audioLoadError' \in BOOLEAN
           /\ MuteIsHeld' /\ Quiet' /\ InStep'
<1>1. /\ ready \in Listeners /\ isMuted \in BOOLEAN
      /\ autoplayBlocked \in BOOLEAN /\ audioLoadError \in BOOLEAN
  BY DEF TypeOK
<1>2. isPlaying' <=> r.status = "playing"
  BY DEF isPlaying
<1>3. CASE /\ r.status = "playing" /\ over' = FALSE
           /\ ready' = [Cleaned(current) EXCEPT !.effect = r.startedAt, !.forcedLast = FALSE]
           /\ LET a == Synced(Tuned(current, r), r.startedAt)
              IN  Refused(a) \/ Plays(a) \/ Rejected(a)
  <2>1. /\ audio' \in Media /\ ready' \in Listeners /\ pending' \in BOOLEAN
        /\ autoplayBlocked' \in BOOLEAN /\ audioLoadError' \in BOOLEAN
        /\ audio'.muted = isMuted /\ audio'.src = r.track
        /\ audio'.loaded => audio'.at = r.startedAt
        /\ ready'.effect = r.startedAt /\ ~ready'.forcedLast
    BY <1>1, <1>3, EffectPlays
  <2>2. MuteIsHeld' /\ Quiet' /\ InStep'
    BY <1>2, <1>3, <2>1 DEF MuteIsHeld, Quiet, InStep, Seeks
  <2>3. QED
    BY <1>3, <2>1, <2>2
<1>4. CASE /\ r.status = "playing" /\ over' = TRUE
           /\ ready' = Cleaned(current)
           /\ audio' = IF current = NoAudio THEN NoAudio ELSE [current EXCEPT !.paused = TRUE]
           /\ pending' = FALSE
           /\ UNCHANGED notices
  <2>1. ready' \in Listeners
    BY <1>1, <1>4, CleanedType
  <2>2. audio' \in {NoAudio} \cup Media /\ (audio' # NoAudio => audio'.muted = isMuted)
    BY <1>4 DEF Media
  <2>3. MuteIsHeld' /\ Quiet' /\ InStep'
    BY <1>2, <1>4, <2>2 DEF MuteIsHeld, Quiet, InStep
  <2>4. QED
    BY <1>1, <1>4, <2>1, <2>2, <2>3 DEF notices
<1>5. CASE /\ r.status # "playing" /\ over' = FALSE
           /\ audio' = NoAudio /\ ready' = NoSeek /\ pending' = FALSE
           /\ autoplayBlocked' = FALSE /\ audioLoadError' = FALSE
  <2>1. ready' \in Listeners
    BY <1>5, SessionAssumption DEF NoSeek, Listeners
  <2>2. MuteIsHeld' /\ Quiet' /\ InStep'
    BY <1>2, <1>5 DEF MuteIsHeld, Quiet, InStep
  <2>3. QED
    BY <1>5, <2>1, <2>2
<1>6. QED
  BY <1>3, <1>4, <1>5 DEF Effect

(***************************************************************************)
(* Steps.                                                                  *)
(***************************************************************************)
LEMMA ServerSteps ==
    ASSUME PlayerInv, Ends \/ \E t \in Tracks : Starts(t)
    PROVE  PlayerInv'
<1>1. UNCHANGED <<inRoom, roomState, over, audio, ready, pending, isMuted, autoplayBlocked, audioLoadError>>
  BY DEF Ends, Starts, player, notices
<1>2. server' \in RoomStates /\ sessions' \in 0 .. MaxSessions /\ Known(server)'
  <2>1. CASE Ends
    <3>1. server \in RoomStates /\ sessions \in 0 .. MaxSessions
      BY DEF PlayerInv, TypeOK
    <3>2. /\ sessions' = sessions
          /\ server' = State("finished", NoTrack, 0) \/ server' = [server EXCEPT !.status = "finished"]
      BY <2>1 DEF Ends
    <3>3. State("finished", NoTrack, 0) \in RoomStates
          /\ State("finished", NoTrack, 0).status = "finished"
      BY SessionAssumption DEF State, RoomStates
    <3>4. server'.status = "finished" /\ server' \in RoomStates
      BY <3>1, <3>2, <3>3 DEF RoomStates
    <3>5. QED
      BY <3>1, <3>2, <3>4 DEF Known
  <2>2. CASE \E t \in Tracks : Starts(t)
    <3>1. PICK t \in Tracks : Starts(t)
      BY <2>2
    <3>2. /\ sessions' = sessions + 1 /\ sessions < MaxSessions
          /\ server' = State("playing", t, sessions + 1)
      BY <3>1 DEF Starts
    <3>3. sessions' \in 0 .. MaxSessions /\ sessions' # 0
      BY <3>2, SessionAssumption DEF PlayerInv, TypeOK
    <3>4. QED
      BY <3>2, <3>3 DEF State, RoomStates, Known
  <2>3. QED
    BY <2>1, <2>2
<1>3. TypeOK'
  BY <1>1, <1>2 DEF PlayerInv, TypeOK
<1>4. QED
  BY <1>1, <1>2, <1>3 DEF PlayerInv, MuteIsHeld, Quiet, InStep, Seeks, isPlaying, Known

LEMMA ArrivalSteps ==
    ASSUME PlayerInv, RoomStateArrives \/ Enter
    PROVE  PlayerInv'
<1>1. /\ TypeOK /\ server \in RoomStates /\ Known(server)
      /\ audio \in {NoAudio} \cup Media /\ (audio # NoAudio => audio.muted = isMuted)
  BY DEF PlayerInv, TypeOK, MuteIsHeld
<1>2. /\ inRoom' = TRUE /\ roomState' = server
      /\ UNCHANGED <<server, sessions, isMuted>>
  <2>1. CASE RoomStateArrives
    BY <2>1 DEF RoomStateArrives, PlayerInv, TypeOK
  <2>2. CASE Enter
    BY <2>2 DEF Enter
  <2>3. QED
    BY <2>1, <2>2
<1>3. Effect(audio, server) \/ Effect(NoAudio, server)
  BY DEF RoomStateArrives, Enter
<1>4. /\ over' \in BOOLEAN /\ audio' \in {NoAudio} \cup Media /\ ready' \in Listeners
      /\ pending' \in BOOLEAN /\ autoplayBlocked' \in BOOLEAN /\ audioLoadError' \in BOOLEAN
      /\ MuteIsHeld' /\ Quiet' /\ InStep'
  <2>1. CASE Effect(audio, server)
    BY <1>1, <1>2, <2>1, EffectKeeps
  <2>2. CASE Effect(NoAudio, server)
    BY <1>1, <1>2, <2>2, EffectKeeps
  <2>3. QED
    BY <1>3, <2>1, <2>2
<1>5. TypeOK'
  BY <1>1, <1>2, <1>4 DEF TypeOK
<1>6. Known(server)' /\ Known(roomState)'
  BY <1>1, <1>2 DEF Known
<1>7. QED
  BY <1>4, <1>5, <1>6 DEF PlayerInv

LEMMA LeaveStep ==
    ASSUME PlayerInv, Leave
    PROVE  PlayerInv'
<1>1. /\ inRoom' = FALSE /\ roomState' = Waiting /\ UNCHANGED <<server, sessions>>
      /\ over' = FALSE /\ audio' = NoAudio /\ ready' = NoSeek /\ pending' = FALSE
      /\ isMuted' = FALSE /\ autoplayBlocked' = FALSE /\ audioLoadError' = FALSE
  BY DEF Leave
<1>2. Waiting \in RoomStates /\ NoSeek \in Listeners /\ Waiting.status = "waiting"
  BY SessionAssumption DEF Waiting, State, RoomStates, NoSeek, Listeners
<1>3. TypeOK'
  BY <1>1, <1>2 DEF PlayerInv, TypeOK
<1>4. QED
  BY <1>1, <1>2, <1>3 DEF PlayerInv, MuteIsHeld, Quiet, InStep, isPlaying, Known

(* The browser loads the source: the last listener's seek stays.           *)
LEMMA LoadedStep ==
    ASSUME PlayerInv, Loaded
    PROVE  PlayerInv'
<1>1. /\ audio \in Media
      /\ audio' = [audio EXCEPT !.loaded = TRUE, !.at = LastSeek]
      /\ ready' = [ready EXCEPT !.forced = 0] /\ ready \in Listeners
      /\ UNCHANGED <<server, sessions, inRoom, roomState, over, pending, isMuted,
                     autoplayBlocked, audioLoadError>>
  BY DEF Loaded, PlayerInv, TypeOK, notices
<1>2. LastSeek \in 0 .. MaxSessions
  BY <1>1 DEF LastSeek, Listeners
<1>3. /\ audio' \in Media /\ audio'.src = audio.src /\ audio'.muted = audio.muted
      /\ audio'.at = LastSeek
  BY <1>1, <1>2 DEF Media
<1>4. /\ ready' \in Listeners /\ ready'.effect = ready.effect
      /\ ready'.forced = 0 /\ ready'.forcedLast = ready.forcedLast
  BY <1>1, SessionAssumption DEF Listeners
<1>5. TypeOK'
  BY <1>1, <1>3, <1>4 DEF PlayerInv, TypeOK
<1>6. MuteIsHeld' /\ Quiet'
  BY <1>1, <1>3, MediaIsThere DEF PlayerInv, MuteIsHeld, Quiet, isPlaying
<1>7. InStep'
  <2> SUFFICES ASSUME isPlaying, ~over
      PROVE  /\ audio' \in Media /\ audio'.src = roomState.track
             /\ audio'.at = roomState.startedAt /\ Seeks'
    BY <1>1 DEF InStep, isPlaying
  <2>1. audio.src = roomState.track /\ Seeks
    BY DEF PlayerInv, InStep
  <2>2. roomState.startedAt # 0
    BY DEF isPlaying, PlayerInv, Known
  <2>3. LastSeek = roomState.startedAt
    BY <2>1, <2>2 DEF LastSeek, Seeks
  <2>4. Seeks'
    BY <1>1, <1>4, <2>1 DEF Seeks
  <2>5. QED
    BY <1>3, <2>1, <2>3, <2>4
<1>8. QED
  BY <1>1, <1>5, <1>6, <1>7 DEF PlayerInv, Known

(* Promises and failures touch neither source, position nor mute.          *)
LEMMA SettledSteps ==
    ASSUME PlayerInv, Started \/ Fails
    PROVE  PlayerInv'
<1>1. /\ UNCHANGED <<server, sessions, inRoom, roomState, over, ready, isMuted>>
      /\ pending' = FALSE
      /\ \/ UNCHANGED audio
         \/ /\ audio # NoAudio
            /\ audio' = [audio EXCEPT !.failed = IF audio.loaded THEN "broken" ELSE "unsupported"]
  BY DEF Started, Fails
<1>2. autoplayBlocked' \in BOOLEAN /\ audioLoadError' \in BOOLEAN
  BY DEF Started, Fails
<1>3. /\ audio' \in {NoAudio} \cup Media
      /\ audio' \in Media <=> audio \in Media
      /\ audio \in Media => /\ audio'.src = audio.src /\ audio'.muted = audio.muted
                            /\ audio'.loaded = audio.loaded /\ audio'.at = audio.at
      /\ audio = NoAudio => audio' = NoAudio
  <2>1. audio \in {NoAudio} \cup Media
    BY DEF PlayerInv, TypeOK
  <2>2. CASE UNCHANGED audio
    BY <2>1, <2>2
  <2>3. CASE /\ audio # NoAudio
             /\ audio' = [audio EXCEPT !.failed = IF audio.loaded THEN "broken" ELSE "unsupported"]
    BY <2>1, <2>3 DEF Media
  <2>4. QED
    BY <1>1, <2>2, <2>3
<1>4. TypeOK'
  BY <1>1, <1>2, <1>3 DEF PlayerInv, TypeOK
<1>5. MuteIsHeld'
  BY <1>1, <1>3 DEF PlayerInv, TypeOK, MuteIsHeld
<1>6. Quiet' /\ InStep'
  BY <1>1, <1>3 DEF PlayerInv, Quiet, InStep, Seeks, isPlaying
<1>7. QED
  BY <1>1, <1>4, <1>5, <1>6 DEF PlayerInv, Known

(* Whoever forces the sound hears the session on screen.                   *)
LEMMA ForceStep ==
    ASSUME PlayerInv, forcePlayAudio
    PROVE  PlayerInv'
<1> DEFINE a == Synced(Forced, roomState.startedAt)
           there == IF audio = NoAudio THEN NoSeek ELSE ready
<1>1. /\ isPlaying /\ isMuted' = FALSE /\ pending' = TRUE
      /\ audio' = [a EXCEPT !.paused = FALSE]
      /\ ready' = IF a.loaded THEN there
                  ELSE [there EXCEPT !.forced = roomState.startedAt, !.forcedLast = TRUE]
      /\ UNCHANGED <<server, sessions, inRoom, roomState, over, autoplayBlocked, audioLoadError>>
  BY DEF forcePlayAudio, notices
<1>2. /\ roomState.track \in Tracks /\ roomState.startedAt \in 0 .. MaxSessions
      /\ audio \in {NoAudio} \cup Media /\ ready \in Listeners
  BY <1>1 DEF PlayerInv, TypeOK, Known, isPlaying, RoomStates
<1>3. Forced \in Media /\ Forced.muted = FALSE
  <2>1. CASE audio = NoAudio \/ audio.failed # "no"
    BY <1>2, <2>1, LoadingMedia DEF Forced
  <2>2. CASE ~(audio = NoAudio \/ audio.failed # "no")
    BY <1>2, <2>2 DEF Forced, Media
  <2>3. QED
    BY <2>1, <2>2
<1>4. ~over => Forced.src = roomState.track
  <2>1. CASE audio = NoAudio \/ audio.failed # "no"
    BY <1>2, <2>1, LoadingMedia DEF Forced
  <2>2. CASE ~(audio = NoAudio \/ audio.failed # "no")
    BY <1>1, <2>2 DEF Forced, Media, PlayerInv, InStep
  <2>3. QED
    BY <2>1, <2>2
<1>5. /\ a \in Media /\ a.src = Forced.src /\ a.muted = FALSE
      /\ a.loaded => a.at = roomState.startedAt
  <2>1. Forced.loaded => Synced(Forced, roomState.startedAt).at = roomState.startedAt
    BY <1>2, <1>3, SyncedMedia
  <2>2. QED
    BY <1>2, <1>3, <2>1, SyncedMedia
<1>6. there \in Listeners
  BY <1>2, SessionAssumption DEF NoSeek, Listeners
<1>7. ~over => there = ready /\ Seeks
  BY <1>1, MediaIsThere DEF PlayerInv, InStep
<1> HIDE DEF a, there
<1>8. /\ audio' \in Media /\ audio'.src = a.src /\ audio'.muted = FALSE
      /\ audio'.loaded = a.loaded /\ audio'.at = a.at
  BY <1>1, <1>5 DEF Media
<1>9. ready' \in Listeners
  BY <1>1, <1>2, <1>6 DEF Listeners
<1>10. TypeOK'
  BY <1>1, <1>8, <1>9 DEF PlayerInv, TypeOK
<1>11. MuteIsHeld' /\ Quiet' /\ Known(server)' /\ Known(roomState)'
  BY <1>1, <1>8 DEF PlayerInv, MuteIsHeld, Quiet, isPlaying, Known
<1>12. ~over => Seeks'
  <2>1. CASE a.loaded
    BY <1>1, <1>7, <2>1 DEF Seeks
  <2>2. CASE ~a.loaded
    BY <1>1, <1>2, <1>6, <1>7, <2>2 DEF Seeks, Listeners
  <2>3. QED
    BY <2>1, <2>2
<1>13. InStep'
  BY <1>1, <1>4, <1>5, <1>8, <1>12 DEF InStep
<1>14. QED
  BY <1>10, <1>11, <1>13 DEF PlayerInv

LEMMA MuteStep ==
    ASSUME PlayerInv, toggleMute
    PROVE  PlayerInv'
<1>1. CASE forcePlayAudio
  BY <1>1, ForceStep
<1>2. CASE /\ isMuted' = ~isMuted /\ MutedTo(isMuted')
           /\ UNCHANGED <<server, sessions, inRoom, roomState, over, ready, pending, notices>>
  <2>1. audio \in {NoAudio} \cup Media /\ isMuted' \in BOOLEAN
    BY <1>2 DEF PlayerInv, TypeOK
  <2>2. /\ audio' \in {NoAudio} \cup Media
        /\ audio = NoAudio => audio' = NoAudio
        /\ audio \in Media => /\ audio' \in Media /\ audio'.muted = isMuted'
                              /\ audio'.src = audio.src
                              /\ audio'.loaded = audio.loaded /\ audio'.at = audio.at
    <3>1. CASE audio = NoAudio
      BY <1>2, <3>1, MediaIsThere DEF MutedTo
    <3>2. CASE audio \in Media
      BY <1>2, <2>1, <3>2, MediaIsThere DEF MutedTo, Media
    <3>3. QED
      BY <2>1, <3>1, <3>2
  <2>3. TypeOK'
    BY <1>2, <2>1, <2>2 DEF PlayerInv, TypeOK, notices
  <2>4. MuteIsHeld' /\ Quiet' /\ InStep'
    BY <1>2, <2>1, <2>2 DEF PlayerInv, MuteIsHeld, Quiet, InStep, Seeks, isPlaying
  <2>5. QED
    BY <1>2, <2>3, <2>4 DEF PlayerInv, Known
<1>3. QED
  BY <1>1, <1>2 DEF toggleMute

-----------------------------------------------------------------------------
LEMMA PlayerInit == Init => PlayerInv
<1> SUFFICES ASSUME Init PROVE PlayerInv
  OBVIOUS
<1>1. Waiting \in RoomStates /\ NoSeek \in Listeners /\ Waiting.status = "waiting"
      /\ sessions \in 0 .. MaxSessions
  BY SessionAssumption DEF Init, Waiting, State, RoomStates, NoSeek, Listeners
<1>2. TypeOK
  BY <1>1 DEF Init, TypeOK
<1>3. QED
  BY <1>1, <1>2 DEF Init, PlayerInv, MuteIsHeld, Quiet, InStep, isPlaying, Known

LEMMA PlayerStep == PlayerInv /\ [Next]_playerVars => PlayerInv'
<1> SUFFICES ASSUME PlayerInv, [Next]_playerVars PROVE PlayerInv'
  OBVIOUS
<1>1. CASE User
  BY <1>1, LeaveStep, ArrivalSteps, ForceStep, MuteStep, ServerSteps
     DEF User, enableSound, stopMeditation, startMeditation
<1>2. CASE Browser
  BY <1>2, LoadedStep, SettledSteps DEF Browser
<1>3. CASE RoomStateArrives
  BY <1>3, ArrivalSteps
<1>4. CASE Elsewhere
  BY <1>4, ServerSteps DEF Elsewhere
<1>5. CASE UNCHANGED playerVars
  BY <1>5 DEF PlayerInv, TypeOK, MuteIsHeld, Quiet, InStep, Seeks, isPlaying, Known,
              playerVars, player, notices
<1>6. QED
  BY <1>1, <1>2, <1>3, <1>4, <1>5 DEF Next

LEMMA PlayerInvariant == Spec => []PlayerInv
<1>1. QED
  BY PlayerInit, PlayerStep, PTL DEF Spec

(* The variables of the music effect keep their types (MeditationRoom.tsx).*)
THEOREM PlayerTypes == Spec => []TypeOK
<1>1. PlayerInv => TypeOK
  BY DEF PlayerInv
<1>2. QED
  BY <1>1, PlayerInvariant, PTL

(* Whatever sessions replace each other and whatever was still loading or  *)
(* forced: the track that the element of the mounted room sounds is that   *)
(* of the session on screen, and its position once it is loaded (the audio *)
(* effect, syncAudioPosition and forcePlayAudio).  The element of a room   *)
(* left during a session is not followed.                                  *)
THEOREM MusicInStep == Spec => []MusicIsInStep
<1>1. PlayerInv => MusicIsInStep
  BY InStepSuffices
<1>2. QED
  BY <1>1, PlayerInvariant, PTL

(* Every element the effect makes or keeps is as muted as the button says. *)
THEOREM MuteHeld == Spec => []MuteIsHeld
<1>1. PlayerInv => MuteIsHeld
  BY DEF PlayerInv
<1>2. QED
  BY <1>1, PlayerInvariant, PTL


-----------------------------------------------------------------------------
(***************************************************************************)
(* Live voice: the queue of a source and the messages to it.               *)
(***************************************************************************)
Increasing(q) == \A i, j \in DOMAIN q : i < j => q[i] < q[j]

(* What was played, p, and what waits, q, are one line: in order, and no   *)
(* chunk stands further back than its number.                              *)
Line(p, q) ==
    /\ Increasing(p) /\ Increasing(q)
    /\ \A i \in DOMAIN p, j \in DOMAIN q : p[i] < q[j]
    /\ \A i \in DOMAIN p : p[i] >= i
    /\ \A j \in DOMAIN q : q[j] >= Len(p) + j

(* Chunk n comes after everything in q.                                    *)
After(q, n) == \A i \in DOMAIN q : q[i] < n

LEMMA LineQueued ==
    ASSUME NEW p \in Seq(Nat), NEW q \in Seq(Nat), NEW n \in Nat,
           Line(p, q), After(p, n), After(q, n), n > 0
    PROVE  Line(p, Append(q, n))
<1> DEFINE r == Append(q, n)
<1>1. /\ Len(p) \in Nat /\ Len(q) \in Nat
      /\ DOMAIN p = 1 .. Len(p) /\ DOMAIN q = 1 .. Len(q)
      /\ \A i \in DOMAIN p : p[i] \in Nat
      /\ \A i \in DOMAIN q : q[i] \in Nat
  BY ElementOfSeq, LenProperties
<1>2. /\ DOMAIN r = 1 .. Len(q) + 1 /\ r[Len(q) + 1] = n
      /\ \A i \in DOMAIN q : r[i] = q[i]
  BY <1>1, AppendProperties
<1>3. \A i \in DOMAIN r : i \in DOMAIN q \/ i = Len(q) + 1
  BY <1>1, <1>2
<1>4. n >= Len(p) + (Len(q) + 1)
  <2>1. CASE Len(q) > 0
    <3>1. Len(q) \in DOMAIN q
      BY <1>1, <2>1
    <3>2. q[Len(q)] >= Len(p) + Len(q) /\ q[Len(q)] < n
      BY <3>1 DEF Line, After
    <3>3. QED
      BY <1>1, <3>1, <3>2
  <2>2. CASE Len(q) = 0 /\ Len(p) > 0
    <3>1. Len(p) \in DOMAIN p
      BY <1>1, <2>2
    <3>2. p[Len(p)] >= Len(p) /\ p[Len(p)] < n
      BY <3>1 DEF Line, After
    <3>3. QED
      BY <1>1, <2>2, <3>1, <3>2
  <2>3. CASE Len(q) = 0 /\ Len(p) = 0
    BY <2>3
  <2>4. QED
    BY <1>1, <2>1, <2>2, <2>3
<1>5. Increasing(r)
  <2>1. ASSUME NEW i \in DOMAIN r, NEW j \in DOMAIN r, i < j PROVE r[i] < r[j]
    <3>1. i \in DOMAIN q /\ r[i] = q[i]
      BY <1>1, <1>2, <2>1
    <3>2. CASE j \in DOMAIN q
      BY <1>2, <2>1, <3>1, <3>2 DEF Line, Increasing
    <3>3. CASE j = Len(q) + 1
      BY <1>2, <3>1, <3>3 DEF After
    <3>4. QED
      BY <1>3, <3>2, <3>3
  <2>2. QED
    BY <2>1 DEF Increasing
<1>6. \A i \in DOMAIN p, j \in DOMAIN r : p[i] < r[j]
  BY <1>2, <1>3 DEF Line, After
<1>7. \A j \in DOMAIN r : r[j] >= Len(p) + j
  BY <1>2, <1>3, <1>4 DEF Line
<1>8. QED
  BY <1>5, <1>6, <1>7 DEF Line

(* The first of the queue leaves it, played or not.                        *)
LEMMA LineTaken ==
    ASSUME NEW p \in Seq(Nat), NEW q \in Seq(Nat), q # <<>>, Line(p, q)
    PROVE  Line(p, Tail(q)) /\ Line(Append(p, Head(q)), Tail(q))
<1> DEFINE t == Tail(q)
           r == Append(p, Head(q))
<1>1. /\ Len(p) \in Nat /\ Len(q) \in Nat
      /\ DOMAIN p = 1 .. Len(p) /\ DOMAIN q = 1 .. Len(q)
      /\ \A i \in DOMAIN p : p[i] \in Nat
      /\ \A i \in DOMAIN q : q[i] \in Nat
  BY ElementOfSeq, LenProperties
<1>2. /\ t \in Seq(Nat) /\ Len(t) = Len(q) - 1
      /\ \A i \in 1 .. Len(t) : t[i] = q[i + 1]
      /\ Head(q) = q[1] /\ Len(q) > 0
  BY HeadTailProperties, EmptySeq
<1>3. DOMAIN t = 1 .. Len(q) - 1
  BY <1>2, LenProperties
<1>4. \A i \in DOMAIN t : i \in Int /\ i + 1 \in DOMAIN q /\ t[i] = q[i + 1] /\ i + 1 > 1
  BY <1>1, <1>2, <1>3
<1>5. 1 \in DOMAIN q
  BY <1>1, <1>2
<1>6. /\ DOMAIN r = 1 .. Len(p) + 1 /\ r[Len(p) + 1] = q[1] /\ Len(r) = Len(p) + 1
      /\ \A i \in DOMAIN p : r[i] = p[i]
  BY <1>1, <1>2, <1>5, AppendProperties
<1>7. \A i \in DOMAIN r : i \in Int /\ (i \in DOMAIN p \/ i = Len(p) + 1)
  BY <1>1, <1>6
<1> HIDE DEF t, r
<1>8. Increasing(t)
  <2>1. ASSUME NEW i \in DOMAIN t, NEW j \in DOMAIN t, i < j PROVE t[i] < t[j]
    <3>1. i + 1 < j + 1
      BY <1>4, <2>1
    <3>2. q[i + 1] < q[j + 1]
      BY <1>4, <3>1 DEF Line, Increasing
    <3>3. QED
      BY <1>4, <3>2
  <2>2. QED
    BY <2>1 DEF Increasing
<1>9. Increasing(r)
  <2>1. ASSUME NEW i \in DOMAIN r, NEW j \in DOMAIN r, i < j PROVE r[i] < r[j]
    <3>1. i \in DOMAIN p /\ r[i] = p[i]
      BY <1>1, <1>6, <1>7, <2>1
    <3>2. CASE j \in DOMAIN p
      BY <1>6, <2>1, <3>1, <3>2 DEF Line, Increasing
    <3>3. CASE j = Len(p) + 1
      BY <1>5, <1>6, <3>1, <3>3 DEF Line
    <3>4. QED
      BY <1>7, <3>2, <3>3
  <2>2. QED
    BY <2>1 DEF Increasing
<1>10. \A i \in DOMAIN p, j \in DOMAIN t : p[i] < t[j]
  BY <1>4 DEF Line
<1>11. \A j \in DOMAIN t : q[1] < t[j]
  BY <1>4, <1>5 DEF Line, Increasing
<1>12. \A i \in DOMAIN r, j \in DOMAIN t : r[i] < t[j]
  BY <1>6, <1>7, <1>10, <1>11
<1>13. \A j \in DOMAIN t : t[j] >= Len(p) + (j + 1)
  BY <1>4 DEF Line
<1>14. \A j \in DOMAIN t : t[j] >= Len(p) + j /\ t[j] >= Len(r) + j
  <2>1. \A j \in DOMAIN t : t[j] \in Nat
    BY <1>1, <1>4
  <2>2. QED
    BY <1>1, <1>4, <1>6, <1>13, <2>1
<1>15. q[1] >= Len(p) + 1
  BY <1>5 DEF Line
<1>16. \A i \in DOMAIN r : r[i] >= i
  BY <1>6, <1>7, <1>15 DEF Line
<1>17. Line(p, t)
  BY <1>8, <1>10, <1>14 DEF Line
<1>18. Line(r, t)
  BY <1>8, <1>9, <1>12, <1>14, <1>16 DEF Line
<1>19. QED
  BY <1>17, <1>18 DEF t, r

(* A chunk that goes past an empty queue.                                  *)
LEMMA LinePlayed ==
    ASSUME NEW p \in Seq(Nat), NEW n \in Nat, Line(p, <<>>), After(p, n), n > 0
    PROVE  Line(Append(p, n), <<>>)
<1> DEFINE q == Append(<<>>, n)
<1>1. <<>> \in Seq(Nat) /\ After(<<>>, n)
  BY DEF After
<1>2. q \in Seq(Nat) /\ q # <<>> /\ Head(q) = n /\ Tail(q) = <<>>
  OBVIOUS
<1>3. Line(p, q)
  BY <1>1, LineQueued
<1>4. QED
  <2> HIDE DEF q
  <2>1. QED
    BY <1>2, <1>3, LineTaken

LEMMA LineIsShort ==
    ASSUME NEW n \in Nat, NEW p \in Seq(1 .. n), NEW q \in Seq(1 .. n), Line(p, q)
    PROVE  Len(q) + Len(p) <= n
<1>1. /\ Len(p) \in Nat /\ Len(q) \in Nat
      /\ DOMAIN p = 1 .. Len(p) /\ DOMAIN q = 1 .. Len(q)
      /\ \A i \in DOMAIN p : p[i] \in 1 .. n
      /\ \A i \in DOMAIN q : q[i] \in 1 .. n
  BY ElementOfSeq, LenProperties
<1>2. CASE Len(q) > 0
  <2>1. Len(q) \in DOMAIN q
    BY <1>1, <1>2
  <2>2. q[Len(q)] >= Len(p) + Len(q)
    BY <2>1 DEF Line
  <2>3. QED
    BY <1>1, <2>1, <2>2
<1>3. CASE Len(q) = 0 /\ Len(p) > 0
  <2>1. Len(p) \in DOMAIN p
    BY <1>1, <1>3
  <2>2. p[Len(p)] >= Len(p)
    BY <2>1 DEF Line
  <2>3. QED
    BY <1>1, <1>3, <2>1, <2>2
<1>4. CASE Len(q) = 0 /\ Len(p) = 0
  BY <1>4
<1>5. QED
  BY <1>1, <1>2, <1>3, <1>4

(***************************************************************************)
(* What a source holds, and the messages on their way to it.               *)
(***************************************************************************)
Given(src) == Range(src.played) \cup Range(src.queue)

(* The chunks on the wire are in order, and newer than those in C.         *)
Orderly(w, C) ==
    /\ \A i, j \in DOMAIN w :
          i < j /\ w[i].kind = "chunk" /\ w[j].kind = "chunk" => w[i].n < w[j].n
    /\ \A i \in DOMAIN w : w[i].kind = "chunk" => \A c \in C : c < w[i].n

LEMMA RangesKept ==
    ASSUME NEW S, NEW q \in Seq(S), NEW e \in S
    PROVE  /\ Range(Append(q, e)) = Range(q) \cup {e}
           /\ q # <<>> => Head(q) \in Range(q) /\ Range(Tail(q)) \subseteq Range(q)
<1>1. /\ Len(q) \in Nat /\ DOMAIN q = 1 .. Len(q)
      /\ DOMAIN Append(q, e) = 1 .. Len(q) + 1
      /\ Append(q, e)[Len(q) + 1] = e
      /\ \A i \in 1 .. Len(q) : Append(q, e)[i] = q[i]
  BY LenProperties, AppendProperties
<1>2. Range(Append(q, e)) = Range(q) \cup {e}
  <2>1. ASSUME NEW x \in Range(Append(q, e)) PROVE x \in Range(q) \cup {e}
    <3>1. PICK i \in 1 .. Len(q) + 1 : x = Append(q, e)[i]
      BY <1>1, <2>1 DEF Range
    <3>2. i \in 1 .. Len(q) \/ i = Len(q) + 1
      BY <1>1
    <3>3. QED
      BY <1>1, <3>1, <3>2 DEF Range
  <2>2. ASSUME NEW x \in Range(q) \cup {e} PROVE x \in Range(Append(q, e))
    <3>1. CASE x = e
      <4>1. Len(q) + 1 \in 1 .. Len(q) + 1
        BY <1>1
      <4>2. QED
        BY <1>1, <3>1, <4>1 DEF Range
    <3>2. CASE x \in Range(q)
      <4>1. PICK i \in 1 .. Len(q) : x = q[i]
        BY <1>1, <3>2 DEF Range
      <4>2. i \in 1 .. Len(q) + 1
        BY <1>1
      <4>3. QED
        BY <1>1, <4>1, <4>2 DEF Range
    <3>3. QED
      BY <3>1, <3>2
  <2>3. QED
    BY <2>1, <2>2
<1>3. ASSUME q # <<>>
      PROVE  Head(q) \in Range(q) /\ Range(Tail(q)) \subseteq Range(q)
  <2>1. /\ Tail(q) \in Seq(S) /\ Len(Tail(q)) = Len(q) - 1
        /\ \A i \in 1 .. Len(Tail(q)) : Tail(q)[i] = q[i + 1]
        /\ Head(q) = q[1] /\ 1 \in 1 .. Len(q)
    BY <1>1, <1>3, HeadTailProperties, EmptySeq
  <2>2. DOMAIN Tail(q) = 1 .. Len(q) - 1
    BY <2>1, LenProperties
  <2>3. \A i \in DOMAIN Tail(q) : i + 1 \in DOMAIN q /\ Tail(q)[i] = q[i + 1]
    BY <1>1, <2>1, <2>2
  <2>4. QED
    BY <1>1, <2>1, <2>3 DEF Range
<1>4. QED
  BY <1>2, <1>3

LEMMA WireExtended ==
    ASSUME NEW S, NEW w \in Seq(S), NEW m \in S, NEW C, Orderly(w, C),
           m.kind = "chunk" =>
               /\ \A c \in C : c < m.n
               /\ \A i \in DOMAIN w : w[i].kind = "chunk" => w[i].n < m.n
    PROVE  Orderly(Append(w, m), C)
<1> DEFINE v == Append(w, m)
<1>1. /\ Len(w) \in Nat /\ DOMAIN w = 1 .. Len(w) /\ DOMAIN v = 1 .. Len(w) + 1
      /\ v[Len(w) + 1] = m /\ \A i \in DOMAIN w : v[i] = w[i]
  BY LenProperties, AppendProperties
<1>2. \A i \in DOMAIN v : i \in Int /\ (i \in DOMAIN w \/ i = Len(w) + 1)
  BY <1>1
<1> HIDE DEF v
<1>3. ASSUME NEW i \in DOMAIN v, NEW j \in DOMAIN v, i < j,
             v[i].kind = "chunk", v[j].kind = "chunk"
      PROVE  v[i].n < v[j].n
  <2>1. i \in DOMAIN w /\ v[i] = w[i]
    BY <1>1, <1>2, <1>3
  <2>2. CASE j \in DOMAIN w
    BY <1>1, <1>3, <2>1, <2>2 DEF Orderly
  <2>3. CASE j = Len(w) + 1
    BY <1>1, <1>3, <2>1, <2>3
  <2>4. QED
    BY <1>2, <2>2, <2>3
<1>4. \A i \in DOMAIN v : v[i].kind = "chunk" => \A c \in C : c < v[i].n
  BY <1>1, <1>2 DEF Orderly
<1>5. Orderly(v, C)
  BY <1>3, <1>4 DEF Orderly
<1>6. QED
  BY <1>5 DEF v

LEMMA WireShortened ==
    ASSUME NEW S, NEW w \in Seq(S), w # <<>>, NEW C, Orderly(w, C)
    PROVE  /\ Orderly(Tail(w), C)
           /\ Head(w).kind = "chunk" =>
                 /\ \A c \in C : c < Head(w).n
                 /\ Orderly(Tail(w), C \cup {Head(w).n})
<1> DEFINE v == Tail(w)
<1>1. /\ v \in Seq(S) /\ Len(v) = Len(w) - 1 /\ \A i \in 1 .. Len(v) : v[i] = w[i + 1]
      /\ Head(w) = w[1] /\ Len(w) \in Nat /\ Len(w) > 0 /\ DOMAIN w = 1 .. Len(w)
  BY HeadTailProperties, EmptySeq, LenProperties
<1>2. DOMAIN v = 1 .. Len(w) - 1
  BY <1>1, LenProperties
<1>3. \A i \in DOMAIN v : i \in Int /\ i + 1 \in DOMAIN w /\ v[i] = w[i + 1] /\ 1 < i + 1
  BY <1>1, <1>2
<1>4. 1 \in DOMAIN w
  BY <1>1
<1> HIDE DEF v
<1>5. ASSUME NEW i \in DOMAIN v, NEW j \in DOMAIN v, i < j,
             v[i].kind = "chunk", v[j].kind = "chunk"
      PROVE  v[i].n < v[j].n
  <2>1. i + 1 < j + 1
    BY <1>3, <1>5
  <2>2. QED
    BY <1>3, <1>5, <2>1 DEF Orderly
<1>6. \A i \in DOMAIN v : v[i].kind = "chunk" => \A c \in C : c < v[i].n
  BY <1>3 DEF Orderly
<1>7. Orderly(v, C)
  BY <1>5, <1>6 DEF Orderly
<1>8. ASSUME Head(w).kind = "chunk"
      PROVE  (\A c \in C : c < Head(w).n) /\ Orderly(v, C \cup {Head(w).n})
  <2>1. \A c \in C : c < Head(w).n
    BY <1>1, <1>4, <1>8 DEF Orderly
  <2>2. \A i \in DOMAIN v : v[i].kind = "chunk" => Head(w).n < v[i].n
    BY <1>1, <1>3, <1>4, <1>8 DEF Orderly
  <2>3. QED
    BY <1>5, <1>6, <2>1, <2>2 DEF Orderly
<1>9. QED
  BY <1>7, <1>8 DEF v

InLine(src) == src \in Sources /\ Line(src.played, src.queue)

LEMMA SourceParts ==
    ASSUME NEW s \in Sources, chunks \in Nat
    PROVE  /\ s.played \in Seq(1 .. chunks) /\ s.queue \in Seq(1 .. chunks)
           /\ s.played \in Seq(Nat) /\ s.queue \in Seq(Nat)
<1>1. s.played \in Seq(1 .. chunks) /\ s.queue \in Seq(1 .. chunks)
  BY DEF Sources
<1>2. 1 .. chunks \subseteq Nat
  OBVIOUS
<1>3. QED
  BY <1>1, <1>2, SeqMonotonic

LEMMA NothingGiven ==
    /\ InLine(Opening) /\ InLine(Absent)
    /\ Given(Opening) = {} /\ Given(Absent) = {}
<1>0. <<>> \in Seq(1 .. chunks)
  BY EmptySeq
<1>1. /\ Absent \in Sources /\ Absent.queue = <<>> /\ Absent.played = <<>>
  BY <1>0 DEF Absent, Sources
<1>2. /\ Opening \in Sources /\ Opening.queue = <<>> /\ Opening.played = <<>>
  BY <1>1 DEF Opening, Sources
<1>3. Line(<<>>, <<>>) /\ Range(<<>>) = {}
  BY DEF Line, Increasing, Range
<1>4. QED
  BY <1>1, <1>2, <1>3 DEF InLine, Given

LEMMA ShiftedInLine ==
    ASSUME chunks \in Nat, NEW src, InLine(src), src.queue # <<>>,
           NEW s \in Shifted(src, src.queue)
    PROVE  InLine(s) /\ Given(s) \subseteq Given(src)
<1> DEFINE q == src.queue
           p == src.played
<1>1. src \in Sources /\ Line(p, q)
  BY DEF InLine
<1>2. p \in Seq(1 .. chunks) /\ q \in Seq(1 .. chunks) /\ p \in Seq(Nat) /\ q \in Seq(Nat)
  BY <1>1, SourceParts
<1>3. /\ Tail(q) \in Seq(1 .. chunks) /\ Head(q) \in 1 .. chunks
      /\ Append(p, Head(q)) \in Seq(1 .. chunks)
  BY <1>2, HeadTailProperties, AppendProperties
<1>4. Line(p, Tail(q)) /\ Line(Append(p, Head(q)), Tail(q))
  BY <1>1, <1>2, LineTaken
<1>5. /\ Range(Tail(q)) \subseteq Range(q) /\ Head(q) \in Range(q)
      /\ Range(Append(p, Head(q))) = Range(p) \cup {Head(q)}
  BY <1>2, <1>3, RangesKept
<1>6. CASE s = [src EXCEPT !.queue = Tail(q), !.updating = TRUE,
                           !.played = Append(@, Head(q))]
  <2>1. s \in Sources /\ s.queue = Tail(q) /\ s.played = Append(p, Head(q))
    BY <1>1, <1>3, <1>6 DEF Sources
  <2>2. QED
    BY <1>4, <1>5, <2>1 DEF InLine, Given
<1>7. CASE s = [src EXCEPT !.queue = Tail(q), !.broken = TRUE]
  <2>1. s \in Sources /\ s.queue = Tail(q) /\ s.played = p
    BY <1>1, <1>3, <1>7 DEF Sources
  <2>2. QED
    BY <1>4, <1>5, <2>1 DEF InLine, Given
<1>8. QED
  BY <1>6, <1>7 DEF Shifted

LEMMA ReceivedInLine ==
    ASSUME chunks \in Nat, NEW src, InLine(src), NEW n \in 1 .. chunks,
           \A c \in Given(src) : c < n, NEW s \in Received(src, n)
    PROVE  InLine(s) /\ Given(s) \subseteq Given(src) \cup {n}
<1> DEFINE q == src.queue
           p == src.played
<1>1. src \in Sources /\ Line(p, q)
  BY DEF InLine
<1>2. p \in Seq(1 .. chunks) /\ q \in Seq(1 .. chunks) /\ p \in Seq(Nat) /\ q \in Seq(Nat)
  BY <1>1, SourceParts
<1>3. After(p, n) /\ After(q, n) /\ n \in Nat /\ n > 0
  BY DEF After, Given, Range
<1>4. /\ Append(q, n) \in Seq(1 .. chunks) /\ Range(Append(q, n)) = Range(q) \cup {n}
      /\ Append(p, n) \in Seq(1 .. chunks) /\ Range(Append(p, n)) = Range(p) \cup {n}
  BY <1>2, RangesKept, AppendProperties
<1>5. Line(p, Append(q, n))
  BY <1>1, <1>2, <1>3, LineQueued
<1>6. CASE s.queue = Append(q, n) /\ s.played = p /\ s \in Sources
  BY <1>4, <1>5, <1>6 DEF InLine, Given
<1>7. CASE q = <<>> /\ s = [src EXCEPT !.updating = TRUE, !.played = Append(@, n)]
  <2>1. s \in Sources /\ s.queue = q /\ s.played = Append(p, n)
    BY <1>1, <1>4, <1>7 DEF Sources
  <2>2. Line(Append(p, n), q)
    BY <1>1, <1>2, <1>3, <1>7, LinePlayed
  <2>3. QED
    BY <1>4, <2>1, <2>2 DEF InLine, Given
<1>8. \/ s = [src EXCEPT !.queue = Append(@, n)]
      \/ s = [src EXCEPT !.queue = Append(@, n), !.broken = TRUE]
      \/ q = <<>> /\ s = [src EXCEPT !.updating = TRUE, !.played = Append(@, n)]
  BY DEF Received
<1>9. \/ s.queue = Append(q, n) /\ s.played = p /\ s \in Sources
      \/ q = <<>> /\ s = [src EXCEPT !.updating = TRUE, !.played = Append(@, n)]
  BY <1>1, <1>4, <1>8 DEF Sources
<1>10. QED
  BY <1>6, <1>7, <1>9

(***************************************************************************)
(* The invariant of the playback: what a source holds is one line, and the *)
(* chunks on the wire come after it.                                       *)
(***************************************************************************)
Listening == voiceNarrator \in BOOLEAN /\ InLine(source)

HearInv == RelayTyped /\ Listening /\ Orderly(wire, Given(source))
VoiceInv == HostTyped /\ HearInv

LEMMA VoiceTypesFollow == VoiceInv => VoiceTypeOK
<1> SUFFICES ASSUME VoiceInv PROVE VoiceTypeOK
  OBVIOUS
<1>1. chunks \in Nat
  BY VoiceAssumption DEF VoiceInv, HearInv, RelayTyped
<1>2. source \in Sources /\ Line(source.played, source.queue)
  BY DEF VoiceInv, HearInv, Listening, InLine
<1>3. Len(source.queue) + Len(source.played) <= chunks
  BY <1>1, <1>2, SourceParts, LineIsShort
<1>4. QED
  BY <1>2, <1>3 DEF VoiceInv, HearInv, Listening, ListenerTyped, VoiceTypeOK

LEMMA OrderFollows == VoiceInv => PlayedInOrder
BY DEF VoiceInv, HearInv, Listening, InLine, Line, Increasing, PlayedInOrder

LEMMA VoiceCases ==
    ASSUME VoiceNext
    PROVE  \/ useMic \/ stopMicrophone \/ handleMicDeviceChange \/ closeMicModal
           \/ startMicrophoneWithDevice \/ unmount
           \/ \E c \in calls : Enumerated(c)
           \/ \E c \in calls : TestCaptured(c)
           \/ \E c \in calls : StartCaptured(c)
           \/ \E c \in calls : Recording(c)
           \/ \E c \in calls : RecorderFails(c)
           \/ \E c \in calls : StartFails(c)
           \/ ondataavailable \/ handleVoiceData
           \/ SessionStop \/ BroadcastStop \/ BroadcastIdle
           \/ onVoiceEvent \/ onVoiceData \/ effect \/ handleSourceOpen \/ updateend
BY Zenon DEF VoiceNext, HostActs, ListenerActs

(* More chunks are more that may be relayed and held.                      *)
LEMMA ChunksGrow ==
    ASSUME chunks \in Nat, chunks' \in Nat, chunks <= chunks'
    PROVE  Sources \subseteq Sources' /\ Messages \subseteq Messages'
<1>1. 1 .. chunks \subseteq 1 .. chunks'
  OBVIOUS
<1>2. \A q \in Seq(1 .. chunks) : q \in Seq(1 .. chunks')
  BY <1>1, SeqMonotonic
<1>3. QED
  BY <1>1, <1>2 DEF Sources, Messages

(* A message joins the wire.                                               *)
ChunksBound == reading \in Nat /\ chunks \in Nat /\ reading + chunks <= MaxChunks

LEMMA HearSend ==
    ASSUME HearInv, NEW m \in Messages', Len(wire) < MaxWire, wire' = Append(wire, m),
           ChunksBound', chunks <= chunks',
           m.kind = "chunk" => chunks < m.n,
           voiceFile' \in BOOLEAN, stops' \in Nat, UNCHANGED listener
    PROVE  HearInv'
<1>1. /\ chunks \in Nat /\ chunks' \in Nat /\ MaxWire \in Nat
      /\ wire \in Seq(Messages) /\ UNCHANGED <<voiceNarrator, source>>
  BY VoiceAssumption DEF HearInv, RelayTyped, listener, ChunksBound
<1>2. Sources \subseteq Sources' /\ Messages \subseteq Messages'
  BY <1>1, ChunksGrow
<1>3. wire \in Seq(Messages')
  BY <1>1, <1>2, SeqMonotonic
<1>4. /\ wire' \in Seq(Messages') /\ Len(wire') = Len(wire) + 1
      /\ Len(wire) \in Nat
  BY <1>3, AppendProperties, LenProperties
<1>5. RelayTyped'
  BY <1>1, <1>4 DEF RelayTyped, ChunksBound
<1>6. Listening'
  BY <1>1, <1>2 DEF HearInv, Listening, InLine
<1>7. \A c \in Given(source) : c \in 1 .. chunks
  <2>1. source.played \in Seq(1 .. chunks) /\ source.queue \in Seq(1 .. chunks)
    BY <1>1, SourceParts DEF HearInv, Listening, InLine
  <2>2. QED
    BY <2>1, RangeOfSeq DEF Given
<1>8. \A i \in DOMAIN wire : wire[i] \in Messages
  BY <1>1, ElementOfSeq, LenProperties
<1>9. m.kind = "chunk" => /\ \A c \in Given(source) : c < m.n
                          /\ \A i \in DOMAIN wire : wire[i].kind = "chunk" => wire[i].n < m.n
  <2> SUFFICES ASSUME m.kind = "chunk"
               PROVE  /\ \A c \in Given(source) : c < m.n
                      /\ \A i \in DOMAIN wire : wire[i].kind = "chunk" => wire[i].n < m.n
    OBVIOUS
  <2>1. m.n \in Nat /\ chunks < m.n
    BY <1>1 DEF Messages
  <2>2. \A i \in DOMAIN wire : wire[i].kind = "chunk" => wire[i].n \in 1 .. chunks
    BY <1>8 DEF Messages
  <2>3. QED
    BY <1>1, <1>7, <2>1, <2>2
<1>10. Orderly(wire', Given(source))
  BY <1>3, <1>9, WireExtended DEF HearInv
<1>11. QED
  BY <1>1, <1>5, <1>6, <1>10 DEF HearInv

(* The message is lost, or none was sent.                                  *)
LEMMA HearNothing ==
    ASSUME HearInv, wire' = wire, ChunksBound', chunks <= chunks',
           voiceFile' \in BOOLEAN, stops' \in Nat, UNCHANGED listener
    PROVE  HearInv'
<1>1. chunks \in Nat /\ chunks' \in Nat
  BY DEF HearInv, RelayTyped, ChunksBound
<1>2. Sources \subseteq Sources' /\ Messages \subseteq Messages'
  BY <1>1, ChunksGrow
<1>3. wire' \in Seq(Messages')
  BY <1>2, SeqMonotonic DEF HearInv, RelayTyped
<1>4. RelayTyped'
  BY <1>3 DEF HearInv, RelayTyped, ChunksBound
<1>5. QED
  BY <1>2, <1>4 DEF HearInv, Listening, InLine, listener

LEMMA HearRelayed ==
    ASSUME HearInv, NEW m \in Messages', wire' = Relayed(m),
           ChunksBound', chunks <= chunks',
           m.kind = "chunk" => chunks < m.n,
           voiceFile' \in BOOLEAN, stops' \in Nat, UNCHANGED listener
    PROVE  HearInv'
<1>1. CASE Len(wire) < MaxWire
  <2>1. wire' = Append(wire, m)
    BY <1>1 DEF Relayed
  <2>2. QED
    BY <1>1, <2>1, HearSend
<1>2. CASE ~(Len(wire) < MaxWire)
  <2>1. wire' = wire
    BY <1>2 DEF Relayed
  <2>2. QED
    BY <2>1, HearNothing
<1>3. QED
  BY <1>1, <1>2

LEMMA HearRelay ==
    ASSUME HearInv,
           \/ \E c \in calls : Recording(c) \/ RecorderFails(c)
           \/ ondataavailable \/ handleVoiceData \/ BroadcastStop \/ BroadcastIdle
    PROVE  HearInv'
<1>1. ChunksBound /\ stops \in Nat /\ voiceFile \in BOOLEAN /\ MaxChunks \in Nat
  BY VoiceAssumption DEF HearInv, RelayTyped, ChunksBound
<1>2. ASSUME UNCHANGED <<reading, chunks>>
      PROVE  ChunksBound' /\ chunks <= chunks'
  BY <1>1, <1>2 DEF ChunksBound
<1>3. \A k \in {"start", "stop", "idle"} : [kind |-> k] \in Messages' /\ [kind |-> k].kind # "chunk"
  BY DEF Messages
<1>4. ASSUME NEW c \in calls, Recording(c) \/ RecorderFails(c) PROVE HearInv'
  <2>1. UNCHANGED <<reading, chunks, stops, listener>> /\ VoiceStarts
    BY <1>4 DEF Recording, RecorderFails, records
  <2>2. CASE mounted
    <3>1. wire' = Relayed([kind |-> "start"]) /\ voiceFile' = TRUE
      BY <2>1, <2>2 DEF VoiceStarts
    <3>2. QED
      BY <1>1, <1>2, <1>3, <2>1, <3>1, HearRelayed
  <2>3. CASE ~mounted
    BY <1>1, <1>2, <2>1, <2>3, HearNothing DEF VoiceStarts
  <2>4. QED
    BY <2>2, <2>3
<1>5. CASE ondataavailable
  <2>1. /\ reading + chunks < MaxChunks /\ reading' = reading + 1
        /\ UNCHANGED <<chunks, wire, voiceFile, stops, listener>>
    BY <1>5 DEF ondataavailable, Cut, relay
  <2>2. ChunksBound' /\ chunks <= chunks'
    BY <1>1, <2>1 DEF ChunksBound
  <2>3. QED
    BY <1>1, <2>1, <2>2, HearNothing
<1>6. CASE handleVoiceData
  <2>1. /\ reading > 0 /\ reading' = reading - 1
        /\ UNCHANGED <<voiceFile, stops, listener>>
    BY <1>6 DEF handleVoiceData
  <2>2. CASE mounted
    <3>1. chunks' = chunks + 1 /\ wire' = Relayed([kind |-> "chunk", n |-> chunks + 1])
      BY <1>6, <2>2 DEF handleVoiceData
    <3>2. ChunksBound' /\ chunks <= chunks'
      BY <1>1, <2>1, <3>1 DEF ChunksBound
    <3>3. [kind |-> "chunk", n |-> chunks + 1] \in Messages' /\ chunks < chunks + 1
      BY <1>1, <3>1 DEF Messages, ChunksBound
    <3>4. QED
      BY <1>1, <2>1, <3>1, <3>2, <3>3, HearRelayed
  <2>3. CASE ~mounted
    <3>1. UNCHANGED <<chunks, wire>>
      BY <1>6, <2>3 DEF handleVoiceData
    <3>2. ChunksBound' /\ chunks <= chunks'
      BY <1>1, <2>1, <3>1 DEF ChunksBound
    <3>3. QED
      BY <1>1, <2>1, <3>1, <3>2, HearNothing
  <2>4. QED
    BY <2>2, <2>3
<1>7. CASE BroadcastStop
  <2>1. /\ stops > 0 /\ stops' = stops - 1 /\ wire' = Relayed([kind |-> "stop"])
        /\ UNCHANGED <<reading, chunks, voiceFile, listener>>
    BY <1>7 DEF BroadcastStop, host, records
  <2>2. stops' \in Nat
    BY <1>1, <2>1
  <2>3. QED
    BY <1>1, <1>2, <1>3, <2>1, <2>2, HearRelayed
<1>8. CASE BroadcastIdle
  <2>1. /\ Len(wire) < MaxWire /\ wire' = Append(wire, [kind |-> "idle"])
        /\ UNCHANGED <<reading, chunks, voiceFile, stops, listener>>
    BY <1>8 DEF BroadcastIdle, host, records
  <2>2. QED
    BY <1>1, <1>2, <1>3, <2>1, HearSend
<1>9. QED
  BY <1>4, <1>5, <1>6, <1>7, <1>8

(* A message leaves the wire.                                              *)
LEMMA HearMessage ==
    ASSUME HearInv, onVoiceEvent \/ onVoiceData
    PROVE  HearInv'
<1>1. wire # <<>> /\ wire' = Tail(wire) /\ UNCHANGED <<reading, chunks, voiceFile, stops>>
  BY DEF onVoiceEvent, onVoiceData, host, records
<1>2. chunks \in Nat /\ MaxWire \in Nat /\ wire \in Seq(Messages) /\ Messages' = Messages
  BY <1>1, VoiceAssumption DEF HearInv, RelayTyped, Messages
<1>3. /\ wire' \in Seq(Messages') /\ Len(wire') = Len(wire) - 1 /\ Head(wire) \in Messages
      /\ Len(wire) \in Nat /\ Len(wire') \in Nat
  BY <1>1, <1>2, HeadTailProperties, LenProperties
<1>4. RelayTyped'
  BY <1>1, <1>3, <1>2 DEF HearInv, RelayTyped
<1>5. /\ Orderly(wire', Given(source))
      /\ Head(wire).kind = "chunk" =>
            /\ \A c \in Given(source) : c < Head(wire).n
            /\ Orderly(wire', Given(source) \cup {Head(wire).n})
  BY <1>1, <1>2, WireShortened DEF HearInv
<1>6. ASSUME source' = source PROVE Listening' /\ Orderly(wire', Given(source'))
  <2>1. Sources' = Sources
    BY <1>1 DEF Sources
  <2>2. voiceNarrator' \in BOOLEAN
    BY DEF onVoiceEvent, onVoiceData, HearInv, Listening
  <2>3. QED
    BY <1>5, <1>6, <2>1, <2>2 DEF HearInv, Listening, InLine
<1>7. CASE source' # source
  <2>1. /\ Head(wire).kind = "chunk" /\ source' \in Received(source, Head(wire).n)
        /\ UNCHANGED voiceNarrator
    BY <1>7 DEF onVoiceEvent, onVoiceData
  <2>2. Head(wire).n \in 1 .. chunks
    BY <1>3, <2>1 DEF Messages
  <2>3. InLine(source)
    BY DEF HearInv, Listening
  <2>4. PICK s \in Received(source, Head(wire).n) : s = source'
    BY <2>1
  <2>5. InLine(s) /\ Given(s) \subseteq Given(source) \cup {Head(wire).n}
    BY <1>2, <1>5, <2>1, <2>2, <2>3, ReceivedInLine
  <2>6. InLine(source)'
    BY <1>1, <2>4, <2>5 DEF InLine, Sources
  <2>7. Orderly(wire', Given(s))
    BY <1>5, <2>1, <2>5 DEF Orderly
  <2>8. QED
    BY <1>4, <2>1, <2>4, <2>6, <2>7 DEF HearInv, Listening, Given
<1>8. QED
  BY <1>4, <1>6, <1>7 DEF HearInv, Given

(* The source opens, ends an update, or is built anew.                     *)
LEMMA HearSource ==
    ASSUME HearInv, effect \/ handleSourceOpen \/ updateend
    PROVE  HearInv'
<1>1. UNCHANGED <<reading, chunks, wire, voiceFile, stops, voiceNarrator>>
  BY DEF effect, handleSourceOpen, updateend, host, records, relay
<1>2. chunks \in Nat /\ InLine(source)
  BY VoiceAssumption DEF HearInv, RelayTyped, Listening
<1>3. ASSUME NEW s, s = source', InLine(s), Given(s) \subseteq Given(source)
      PROVE  HearInv'
  <2>1. RelayTyped'
    BY <1>1 DEF HearInv, RelayTyped, Messages
  <2>2. InLine(source)'
    BY <1>1, <1>3 DEF InLine, Sources
  <2>3. Orderly(wire', Given(s))
    BY <1>1, <1>3 DEF HearInv, Orderly
  <2>4. QED
    BY <1>1, <1>3, <2>1, <2>2, <2>3 DEF HearInv, Listening, Given
<1>5. CASE effect
  <2>1. source' \in {Opening, Absent}
    BY <1>5 DEF effect
  <2>2. QED
    BY <1>3, <2>1, NothingGiven
<1>6. CASE handleSourceOpen
  <2> DEFINE opened == [source EXCEPT !.stage = "ready"]
  <2>1. /\ opened \in Sources /\ opened.queue = source.queue /\ opened.played = source.played
    BY <1>2 DEF InLine, Sources
  <2>2. InLine(opened) /\ Given(opened) = Given(source)
    BY <1>2, <2>1 DEF InLine, Given
  <2>3. CASE source.queue = <<>> /\ source' = [opened EXCEPT !.wired = TRUE]
    <3>2. PICK s : s = [opened EXCEPT !.wired = TRUE]
      OBVIOUS
    <3>3. s \in Sources /\ s.queue = source.queue /\ s.played = source.played
      BY <2>1, <3>2 DEF Sources
    <3>4. QED
      BY <1>2, <1>3, <2>3, <3>2, <3>3 DEF InLine, Given
  <2>4. CASE /\ source.queue # <<>>
             /\ source' \in {[s EXCEPT !.wired = ~s.broken] : s \in Shifted(opened, source.queue)}
    <3>1. PICK s \in Shifted(opened, source.queue) : source' = [s EXCEPT !.wired = ~s.broken]
      BY <2>4
    <3>2. InLine(s) /\ Given(s) \subseteq Given(source)
      <4> HIDE DEF opened
      <4>1. QED
        BY <1>2, <2>1, <2>2, <2>4, <3>1, ShiftedInLine
    <3>3. PICK r : r = [s EXCEPT !.wired = ~s.broken]
      OBVIOUS
    <3>4. r \in Sources /\ r.queue = s.queue /\ r.played = s.played
      BY <3>2, <3>3 DEF InLine, Sources
    <3>5. QED
      BY <1>3, <3>1, <3>2, <3>3, <3>4 DEF InLine, Given
  <2>5. CASE source' = [source EXCEPT !.stage = "failed"]
    <3>1. PICK s : s = [source EXCEPT !.stage = "failed"]
      OBVIOUS
    <3>2. s \in Sources /\ s.queue = source.queue /\ s.played = source.played
      BY <1>2, <3>1 DEF InLine, Sources
    <3>3. QED
      BY <1>2, <1>3, <2>5, <3>1, <3>2 DEF InLine, Given
  <2>6. QED
    BY <1>6, <2>3, <2>4, <2>5 DEF handleSourceOpen
<1>7. CASE updateend
  <2> DEFINE idle == [source EXCEPT !.updating = FALSE]
  <2>1. /\ idle \in Sources /\ idle.queue = source.queue /\ idle.played = source.played
    BY <1>2 DEF InLine, Sources
  <2>2. InLine(idle) /\ Given(idle) = Given(source)
    BY <1>2, <2>1 DEF InLine, Given
  <2>3. source' = idle \/ (source.queue # <<>> /\ source' \in Shifted(idle, source.queue))
    BY <1>7 DEF updateend
  <2>4. CASE source' = idle
    BY <1>3, <2>2, <2>4
  <2>5. CASE source.queue # <<>> /\ source' \in Shifted(idle, source.queue)
    <3>1. PICK s \in Shifted(idle, source.queue) : s = source'
      BY <2>5
    <3>2. InLine(s) /\ Given(s) \subseteq Given(source)
      <4> HIDE DEF idle
      <4>1. QED
        BY <1>2, <2>1, <2>2, <2>5, ShiftedInLine
    <3>3. QED
      BY <1>3, <3>1, <3>2
  <2>6. QED
    BY <2>3, <2>4, <2>5
<1>8. QED
  BY <1>5, <1>6, <1>7

(* What the page of the host does on its own reaches the server alone.     *)
LEMMA HearHost ==
    ASSUME HearInv,
           \/ useMic \/ stopMicrophone \/ handleMicDeviceChange \/ closeMicModal
           \/ startMicrophoneWithDevice \/ unmount \/ SessionStop
           \/ \E c \in calls : \/ Enumerated(c) \/ TestCaptured(c) \/ StartCaptured(c)
                               \/ StartFails(c)
    PROVE  HearInv'
<1>1. voiceFile \in BOOLEAN /\ stops \in Nat
  BY DEF HearInv, RelayTyped
<1>2. UNCHANGED <<chunks, wire, listener>>
  BY DEF useMic, stopMicrophone, handleMicDeviceChange, closeMicModal,
         startMicrophoneWithDevice, unmount, SessionStop, Enumerated, TestCaptured,
         StartCaptured, StartFails, ServerStops, host, records, relay
<1>3. voiceFile' \in BOOLEAN /\ stops' \in Nat
  <2>1. CASE UNCHANGED <<voiceFile, stops>>
    BY <1>1, <2>1
  <2>2. CASE ServerStops
    <3>1. voiceFile' = FALSE /\ (stops' = stops + 1 \/ stops' = stops + 0)
      BY <2>2 DEF ServerStops
    <3>2. stops' \in Nat
      BY <1>1, <3>1
    <3>3. QED
      BY <3>1, <3>2
  <2>3. QED
    BY <2>1, <2>2
       DEF useMic, stopMicrophone, handleMicDeviceChange, closeMicModal,
           startMicrophoneWithDevice, unmount, SessionStop, Enumerated, TestCaptured,
           StartCaptured, StartFails, relay
<1>4. ChunksBound'
  <2>1. ChunksBound /\ MaxChunks \in Nat
    BY VoiceAssumption DEF HearInv, RelayTyped, ChunksBound
  <2>2. reading' = reading \/ Cut
    BY DEF useMic, stopMicrophone, handleMicDeviceChange, closeMicModal,
           startMicrophoneWithDevice, unmount, SessionStop, Enumerated, TestCaptured,
           StartCaptured, StartFails, RecorderStops, host, records
  <2>3. QED
    BY <1>2, <2>1, <2>2 DEF Cut, ChunksBound
<1>5. chunks <= chunks'
  BY <1>2 DEF HearInv, RelayTyped
<1>6. QED
  BY <1>2, <1>3, <1>4, <1>5, HearNothing

(***************************************************************************)
(* The host's microphone.                                                  *)
(***************************************************************************)
LEMMA CaptureIsNew ==
    ASSUME HostTyped, Captures
    PROVE  /\ next \in Streams /\ captured' \in 0 .. MaxStreams /\ captured' = next
           /\ next \notin live /\ live \cup {next} \subseteq 1 .. captured'
           /\ next \notin {testStream, microphoneStream} /\ next \in 1 .. captured'
           /\ 1 .. captured \subseteq 1 .. captured'
<1>1. captured \in Nat /\ captured < MaxStreams /\ captured' = captured + 1 /\ MaxStreams \in Nat
  BY VoiceAssumption DEF HostTyped, Captures
<1>2. live \subseteq 1 .. captured /\ {testStream, microphoneStream} \subseteq 1 .. captured \cup {0}
  BY DEF HostTyped, None
<1>3. next \in Streams /\ captured' \in 0 .. MaxStreams /\ captured' = next
  BY <1>1 DEF next, Streams
<1>4. /\ next \notin live /\ live \cup {next} \subseteq 1 .. captured'
      /\ next \notin {testStream, microphoneStream} /\ next \in 1 .. captured'
      /\ 1 .. captured \subseteq 1 .. captured'
  BY <1>1, <1>2 DEF next
<1>5. QED
  BY <1>3, <1>4

LEMMA HostTypeKept ==
    ASSUME HostTyped, [VoiceNext]_voiceVars
    PROVE  HostTyped'
<1>0. /\ live \subseteq 1 .. captured /\ None \notin Streams /\ TestStopped \subseteq live
      /\ [kind |-> "enumerate", of |-> None] \in Calls
      /\ [kind |-> "test", of |-> None] \in Calls
      /\ [kind |-> "start", of |-> None] \in Calls
      /\ \A s \in Streams : [kind |-> "resume", of |-> s] \in Calls
      /\ \A c \in Calls : c.kind = "resume" => c.of \in Streams
  BY DEF HostTyped, TestStopped, Calls, None, Streams
<1>1. CASE useMic \/ handleMicDeviceChange \/ startMicrophoneWithDevice
  BY <1>0, <1>1 DEF useMic, handleMicDeviceChange, startMicrophoneWithDevice, Asks, Asking,
                    Capturing, HostTyped, dialog, capture, records
<1>2. CASE stopMicrophone \/ closeMicModal \/ unmount
  <2>1. /\ mounted' \in BOOLEAN /\ isMicrophoneActive' \in BOOLEAN /\ showMicModal' \in BOOLEAN
        /\ overtaken' \in BOOLEAN
    BY <1>2 DEF stopMicrophone, closeMicModal, unmount, HostTyped
  <2>2. /\ testStream' = None /\ microphoneStream' \in {microphoneStream, None}
        /\ live' \subseteq live /\ UNCHANGED <<recorder, captured, calls>>
    BY <1>0, <1>2 DEF stopMicrophone, closeMicModal, unmount
  <2>3. recording' \subseteq recording
    BY <1>2 DEF stopMicrophone, closeMicModal, unmount, RecorderStops, records
  <2>4. QED
    BY <2>1, <2>2, <2>3 DEF HostTyped
<1>3. ASSUME NEW c \in calls, Enumerated(c) PROVE HostTyped'
  BY <1>0, <1>3 DEF Enumerated, Capturing, HostTyped, dialog, capture, records
<1>4. ASSUME NEW c \in calls, TestCaptured(c) PROVE HostTyped'
  <2>1. CASE Captures /\ live' = live \cup {next} /\ testStream' = next
    BY <1>4, <2>1, CaptureIsNew DEF TestCaptured, HostTyped, dialog, records
  <2>2. CASE UNCHANGED <<captured, live, testStream>>
    BY <1>4, <2>2 DEF TestCaptured, HostTyped, dialog, records
  <2>3. QED
    BY <1>4, <2>1, <2>2 DEF TestCaptured
<1>5. ASSUME NEW c \in calls, StartCaptured(c) PROVE HostTyped'
  BY <1>0, <1>5, CaptureIsNew DEF StartCaptured, HostTyped, dialog, records
<1>6. ASSUME NEW c \in calls, Recording(c) PROVE HostTyped'
  <2>1. c.of \in Streams
    BY <1>0, <1>6 DEF Recording, HostTyped
  <2>2. QED
    BY <1>6, <2>1 DEF Recording, HostTyped
<1>7. ASSUME NEW c \in calls, RecorderFails(c) \/ StartFails(c) PROVE HostTyped'
  <2>1. recorder' \in Streams \cup {None}
    BY <1>0, <1>7 DEF RecorderFails, StartFails, HostTyped
  <2>2. /\ live' \subseteq live /\ microphoneStream' = None /\ calls' = calls \ {c}
        /\ UNCHANGED <<mounted, isMicrophoneActive, showMicModal, testStream, captured, recording,
                       overtaken>>
    BY <1>7 DEF RecorderFails, StartFails, dialog, records
  <2>3. QED
    BY <2>1, <2>2 DEF HostTyped
<1>8. CASE ondataavailable \/ handleVoiceData
  BY <1>8 DEF ondataavailable, handleVoiceData, HostTyped, dialog, capture
<1>9. CASE \/ SessionStop \/ BroadcastStop \/ BroadcastIdle \/ onVoiceEvent \/ onVoiceData
           \/ effect \/ handleSourceOpen \/ updateend \/ UNCHANGED voiceVars
  <2>1. UNCHANGED host
    BY <1>9 DEF SessionStop, BroadcastStop, BroadcastIdle, onVoiceEvent, onVoiceData, effect,
                handleSourceOpen, updateend, voiceVars
  <2>2. QED
    BY <2>1 DEF HostTyped, host, dialog, capture, records
<1>10. QED
  BY <1>1, <1>2, <1>3, <1>4, <1>5, <1>6, <1>7, <1>8, <1>9, VoiceCases, Zenon

(* As long as no capture overtakes another, or the unmounting: the call    *)
(* that tests and the one that starts each find their ref free, there is   *)
(* one start at a time and none while a recording is shown, what resumes   *)
(* is the stream in the ref, and nothing captures once the room was left.  *)
Starting(c) == c.kind \in {"start", "resume"}

InTurn ==
    /\ \A c \in calls : c.kind = "test" => testStream = None
    /\ \A c, d \in calls : Starting(c) /\ Starting(d) => c = d
    /\ \A c \in calls : Starting(c) => ~isMicrophoneActive
    /\ \A c \in calls : c.kind = "start" => microphoneStream \notin live
    /\ \A c \in calls : c.kind = "resume" => c.of = microphoneStream
    /\ microphoneStream \in live => isMicrophoneActive \/ \E c \in calls : c.kind = "resume"
    /\ ~mounted => ~Capturing

MicInv == ~overtaken => InTurn /\ MicIsReleased /\ RecordingIsShown

(* What was out of turn stays so.                                          *)
LEMMA TurnsAreKept ==
    ASSUME HostTyped, [VoiceNext]_voiceVars, overtaken
    PROVE  overtaken'
<1>1. CASE \/ useMic \/ stopMicrophone \/ handleMicDeviceChange \/ closeMicModal
           \/ startMicrophoneWithDevice \/ unmount
  BY <1>1 DEF useMic, stopMicrophone, handleMicDeviceChange, closeMicModal,
              startMicrophoneWithDevice, unmount, HostTyped
<1>2. ASSUME NEW c \in calls, \/ Enumerated(c) \/ TestCaptured(c) \/ StartCaptured(c)
                              \/ Recording(c) \/ RecorderFails(c) \/ StartFails(c)
      PROVE  overtaken'
  BY <1>2 DEF Enumerated, TestCaptured, StartCaptured, Recording, RecorderFails, StartFails,
              HostTyped
<1>3. CASE ondataavailable \/ handleVoiceData
  BY <1>3 DEF ondataavailable, handleVoiceData
<1>4. CASE \/ SessionStop \/ BroadcastStop \/ BroadcastIdle \/ onVoiceEvent \/ onVoiceData
           \/ effect \/ handleSourceOpen \/ updateend \/ UNCHANGED voiceVars
  BY <1>4 DEF SessionStop, BroadcastStop, BroadcastIdle, onVoiceEvent, onVoiceData, effect,
              handleSourceOpen, updateend, voiceVars, host
<1>5. QED
  BY <1>1, <1>2, <1>3, <1>4, VoiceCases, Zenon

LEMMA MicKept ==
    ASSUME HostTyped, MicInv, [VoiceNext]_voiceVars
    PROVE  MicInv'
<1> SUFFICES ASSUME ~overtaken' PROVE InTurn' /\ MicIsReleased' /\ RecordingIsShown'
  BY DEF MicInv
<1>0. ~overtaken /\ InTurn /\ MicIsReleased /\ RecordingIsShown
  BY TurnsAreKept DEF MicInv
<1>1. live \subseteq (IF mounted THEN {testStream, microphoneStream} ELSE {})
  BY <1>0 DEF MicIsReleased
<1>2. mounted => /\ recording = IF isMicrophoneActive THEN {recorder} ELSE {}
                 /\ isMicrophoneActive => microphoneStream = recorder
  BY <1>0 DEF RecordingIsShown
<1> DEFINE Goal == InTurn' /\ MicIsReleased' /\ RecordingIsShown'
<1>3. CASE useMic
  <2>1. /\ calls' = calls \cup {[kind |-> "enumerate", of |-> None]}
        /\ UNCHANGED <<mounted, isMicrophoneActive, testStream, microphoneStream, recorder,
                       live, recording>>
    BY <1>3 DEF useMic, Asks, dialog, capture, records
  <2>2. QED
    BY <1>0, <1>1, <1>2, <2>1 DEF InTurn, Starting, Capturing, MicIsReleased, RecordingIsShown
<1>4. CASE stopMicrophone
  <2>1. /\ mounted /\ isMicrophoneActive
        /\ live' = TestStopped \ {microphoneStream}
        /\ testStream' = None /\ microphoneStream' = None
        /\ recording' = recording \ {recorder} /\ isMicrophoneActive' = FALSE
        /\ UNCHANGED <<mounted, recorder, calls>>
    BY <1>4 DEF stopMicrophone, RecorderStops
  <2>2. live' = {} /\ recording' = {}
    BY <1>1, <1>2, <2>1 DEF TestStopped
  <2>3. ~Capturing' \/ mounted'
    BY <2>1
  <2>4. \A c \in calls : ~Starting(c)
    BY <1>0, <2>1 DEF InTurn
  <2>5. QED
    BY <1>0, <2>1, <2>2, <2>3, <2>4 DEF InTurn, Starting, MicIsReleased, RecordingIsShown
<1>5. CASE handleMicDeviceChange
  <2>1. /\ mounted /\ live' = TestStopped /\ testStream' = None
        /\ calls' = calls \cup {[kind |-> "test", of |-> None]}
        /\ ~Capturing
        /\ UNCHANGED <<mounted, isMicrophoneActive, microphoneStream, recorder, recording>>
    BY <1>5 DEF handleMicDeviceChange, Asks, dialog, records
  <2>2. live' \subseteq {microphoneStream} /\ None \notin live'
    BY <1>1, <2>1 DEF TestStopped, HostTyped, None
  <2>3. \A c \in calls : ~Starting(c) /\ c.kind # "test"
    BY <2>1 DEF Capturing, Starting
  <2>4. \A c \in calls' : ~Starting(c)
    BY <2>1, <2>3 DEF Starting
  <2>5. microphoneStream \in live' => isMicrophoneActive
    BY <1>0, <2>1, <2>3 DEF InTurn, TestStopped, Starting
  <2>6. InTurn'
    BY <2>1, <2>2, <2>4, <2>5 DEF InTurn, Starting
  <2>7. QED
    BY <1>2, <2>1, <2>2, <2>6 DEF MicIsReleased, RecordingIsShown
<1>6. CASE closeMicModal
  <2>1. /\ mounted /\ live' = TestStopped /\ testStream' = None
        /\ UNCHANGED <<mounted, isMicrophoneActive, microphoneStream, recorder, recording,
                       calls>>
    BY <1>6 DEF closeMicModal, records
  <2>2. live' \subseteq {microphoneStream} /\ None \notin live' /\ live' \subseteq live
    BY <1>1, <2>1 DEF TestStopped, HostTyped, None
  <2>3. InTurn'
    BY <1>0, <2>1, <2>2 DEF InTurn, Starting, Capturing
  <2>4. QED
    BY <1>2, <2>1, <2>2, <2>3 DEF MicIsReleased, RecordingIsShown
<1>7. CASE startMicrophoneWithDevice
  <2>1. /\ mounted /\ live' = TestStopped /\ testStream' = None
        /\ calls' = calls \cup {[kind |-> "start", of |-> None]}
        /\ ~isMicrophoneActive /\ ~Asking("start") /\ ~Asking("resume")
        /\ UNCHANGED <<mounted, isMicrophoneActive, microphoneStream, recorder, recording>>
    BY <1>7 DEF startMicrophoneWithDevice, Asks, dialog, records
  <2>2. live' \subseteq {microphoneStream} /\ None \notin live' /\ live' \subseteq live
    BY <1>1, <2>1 DEF TestStopped, HostTyped, None
  <2>3. \A c \in calls : ~Starting(c)
    BY <2>1 DEF Asking, Starting
  <2>4. microphoneStream \notin live'
    BY <1>0, <2>1, <2>2, <2>3 DEF InTurn, Starting
  <2>5. InTurn'
    BY <2>1, <2>2, <2>3, <2>4 DEF InTurn, Starting
  <2>6. QED
    BY <1>2, <2>1, <2>2, <2>5 DEF MicIsReleased, RecordingIsShown
<1>8. CASE unmount
  <2>1. /\ mounted' = FALSE /\ isMicrophoneActive' = FALSE
        /\ live' = TestStopped \ {microphoneStream} /\ testStream' = None
        /\ ~Capturing /\ calls' = calls
    BY <1>8 DEF unmount
  <2>2. live' = {}
    BY <1>1, <2>1 DEF TestStopped
  <2>3. \A c \in calls : c.kind \notin {"test", "start", "resume"}
    BY <2>1 DEF Capturing
  <2>4. InTurn'
    BY <2>1, <2>2, <2>3 DEF InTurn, Starting, Capturing
  <2>5. QED
    BY <2>1, <2>2, <2>4 DEF MicIsReleased, RecordingIsShown
<1>9. ASSUME NEW c \in calls, Enumerated(c) PROVE Goal
  <2>1. /\ c.kind = "enumerate"
        /\ UNCHANGED <<mounted, isMicrophoneActive, microphoneStream, recorder, recording>>
    BY <1>9 DEF Enumerated, records, dialog, capture
  <2>2. CASE /\ live' = TestStopped /\ testStream' = None
             /\ calls' = (calls \ {c}) \cup {[kind |-> "test", of |-> None]}
             /\ ~Capturing /\ mounted
    <3>1. live' \subseteq {microphoneStream} /\ None \notin live' /\ live' \subseteq live
      BY <1>1, <2>2 DEF TestStopped, HostTyped, None
    <3>2. \A d \in calls : ~Starting(d) /\ d.kind # "test"
      BY <2>2 DEF Capturing, Starting
    <3>3. \A d \in calls' : ~Starting(d)
      BY <2>2, <3>2 DEF Starting
    <3>4. microphoneStream \in live' => isMicrophoneActive
      BY <1>0, <3>1, <3>2 DEF InTurn, Starting
    <3>5. InTurn'
      BY <2>1, <2>2, <3>1, <3>3, <3>4 DEF InTurn, Starting
    <3>6. QED
      BY <1>2, <2>1, <2>2, <3>1, <3>5 DEF MicIsReleased, RecordingIsShown
  <2>3. CASE calls' = calls \ {c} /\ UNCHANGED <<live, testStream>>
    <3>1. InTurn'
      BY <1>0, <2>1, <2>3 DEF InTurn, Starting, Capturing
    <3>2. QED
      BY <1>1, <1>2, <2>1, <2>3, <3>1 DEF MicIsReleased, RecordingIsShown
  <2>4. QED
    BY <1>9, <2>2, <2>3 DEF Enumerated, capture
<1>10. ASSUME NEW c \in calls, TestCaptured(c) PROVE Goal
  <2>1. /\ c.kind = "test" /\ calls' = calls \ {c}
        /\ UNCHANGED <<mounted, isMicrophoneActive, microphoneStream, recorder, recording>>
    BY <1>10 DEF TestCaptured, records, dialog
  <2>2. mounted /\ testStream = None /\ None \notin live
    BY <1>0, <2>1 DEF InTurn, Capturing, HostTyped, None
  <2>3. \A d \in calls' : d.kind # "test"
    <3>1. c \in Calls /\ \A d \in calls : d \in Calls
      BY DEF HostTyped
    <3>2. \A d \in Calls : d.kind = "test" => d = [kind |-> "test", of |-> None]
      BY DEF Calls
    <3>3. QED
      BY <2>1, <3>1, <3>2
  <2>4. CASE Captures /\ live' = live \cup {next} /\ testStream' = next
    <3>1. live' \subseteq {testStream', microphoneStream'} /\ next \notin live
      BY <1>1, <2>1, <2>2, <2>4, CaptureIsNew
    <3>2. microphoneStream \in live' => microphoneStream \in live \/ microphoneStream = next
      BY <2>4
    <3>3. microphoneStream \in live' => isMicrophoneActive \/ \E d \in calls' : d.kind = "resume"
      <4>1. microphoneStream # next
        BY <2>4, CaptureIsNew
      <4>2. QED
        BY <1>0, <2>1, <3>2, <4>1 DEF InTurn
    <3>4. InTurn'
      BY <1>0, <2>1, <2>2, <2>3, <3>3 DEF InTurn, Starting
    <3>5. QED
      BY <1>2, <2>1, <2>2, <3>1, <3>4 DEF MicIsReleased, RecordingIsShown
  <2>5. CASE UNCHANGED <<captured, live, testStream>>
    <3>1. InTurn'
      BY <1>0, <2>1, <2>2, <2>5 DEF InTurn, Starting
    <3>2. QED
      BY <1>1, <1>2, <2>1, <2>5, <3>1 DEF MicIsReleased, RecordingIsShown
  <2>6. QED
    BY <1>10, <2>4, <2>5 DEF TestCaptured
<1>11. ASSUME NEW c \in calls, StartCaptured(c) PROVE Goal
  <2>1. /\ c.kind = "start" /\ Captures
        /\ microphoneStream' = next /\ live' = live \cup {next}
        /\ calls' = (calls \ {c}) \cup {[kind |-> "resume", of |-> next]}
        /\ UNCHANGED <<mounted, isMicrophoneActive, testStream, recorder, recording>>
    BY <1>11 DEF StartCaptured, records, dialog
  <2>2. mounted /\ microphoneStream \notin live /\ ~isMicrophoneActive
    BY <1>0, <2>1 DEF InTurn, Starting, Capturing
  <2>3. \A d \in calls' : Starting(d) => d = [kind |-> "resume", of |-> next]
    BY <1>0, <2>1 DEF InTurn, Starting
  <2>4. next \notin live /\ live \subseteq {testStream}
    BY <1>1, <2>1, <2>2, CaptureIsNew
  <2>5. [kind |-> "resume", of |-> next] \in calls'
    BY <2>1
  <2>6. \A d \in calls' : d.kind = "test" => testStream = None
    BY <1>0, <2>1 DEF InTurn
  <2>7. InTurn'
    <3>1. \A d \in calls' : Starting(d) => d.kind = "resume" /\ d.of = microphoneStream'
      BY <2>1, <2>3
    <3>2. \A d, e \in calls' : Starting(d) /\ Starting(e) => d = e
      BY <2>3
    <3>3. \A d \in calls' : d.kind = "start" => Starting(d) /\ d.kind # "resume"
      BY DEF Starting
    <3>4. \A d \in calls' : d.kind = "resume" => Starting(d)
      BY DEF Starting
    <3>5. \E d \in calls' : d.kind = "resume"
      BY <2>5
    <3>6. QED
      BY <2>1, <2>2, <2>6, <3>1, <3>2, <3>3, <3>4, <3>5 DEF InTurn, Starting
  <2>8. QED
    BY <1>2, <2>1, <2>2, <2>4, <2>7 DEF MicIsReleased, RecordingIsShown
<1>12. ASSUME NEW c \in calls, Recording(c) PROVE Goal
  <2>1. /\ c.kind = "resume" /\ recorder' = c.of /\ recording' = recording \cup {c.of}
        /\ isMicrophoneActive' = mounted /\ calls' = calls \ {c}
        /\ UNCHANGED <<mounted, testStream, microphoneStream, live>>
    BY <1>12 DEF Recording
  <2>2. mounted /\ c.of = microphoneStream /\ ~isMicrophoneActive
    BY <1>0, <2>1 DEF InTurn, Starting, Capturing
  <2>3. \A d \in calls' : ~Starting(d) /\ d \in calls
    BY <1>0, <2>1 DEF InTurn, Starting
  <2>4. InTurn'
    BY <1>0, <2>1, <2>2, <2>3 DEF InTurn, Starting
  <2>5. QED
    BY <1>1, <1>2, <2>1, <2>2, <2>4 DEF MicIsReleased, RecordingIsShown
<1>13. ASSUME NEW c \in calls, RecorderFails(c) \/ StartFails(c) PROVE Goal
  <2>1. /\ Starting(c) /\ live' = live \ {microphoneStream} /\ microphoneStream' = None
        /\ calls' = calls \ {c}
        /\ UNCHANGED <<mounted, isMicrophoneActive, testStream, recording>>
    BY <1>13 DEF RecorderFails, StartFails, Starting, records, dialog
  <2>2. mounted /\ ~isMicrophoneActive
    BY <1>0, <2>1 DEF InTurn, Starting, Capturing
  <2>3. \A d \in calls' : ~Starting(d) /\ d \in calls
    BY <1>0, <2>1 DEF InTurn
  <2>4. None \notin live'
    BY <2>1 DEF HostTyped, None
  <2>5. InTurn'
    BY <1>0, <2>1, <2>2, <2>3, <2>4 DEF InTurn, Starting
  <2>6. QED
    BY <1>1, <1>2, <2>1, <2>2, <2>5 DEF MicIsReleased, RecordingIsShown
<1>14. CASE ondataavailable \/ handleVoiceData
  <2>1. UNCHANGED <<mounted, isMicrophoneActive, testStream, microphoneStream, recorder,
                    live, recording, calls, overtaken>>
    BY <1>14 DEF ondataavailable, handleVoiceData, dialog, capture
  <2>2. QED
    BY <1>0, <2>1 DEF InTurn, Starting, Capturing, MicIsReleased, RecordingIsShown
<1>15. CASE \/ SessionStop \/ BroadcastStop \/ BroadcastIdle \/ onVoiceEvent
            \/ onVoiceData \/ effect \/ handleSourceOpen \/ updateend \/ UNCHANGED voiceVars
  <2>1. UNCHANGED host
    BY <1>15 DEF SessionStop, BroadcastStop, BroadcastIdle, onVoiceEvent, onVoiceData, effect,
                 handleSourceOpen, updateend, voiceVars
  <2>2. UNCHANGED <<mounted, isMicrophoneActive, testStream, microphoneStream, recorder,
                    live, recording, calls, overtaken>>
    BY <2>1 DEF host, dialog, capture, records
  <2>3. QED
    BY <1>0, <2>2 DEF InTurn, Starting, Capturing, MicIsReleased, RecordingIsShown
<1>16. QED
  <2> HIDE DEF Goal
  <2>1. Goal
    BY <1>3, <1>4, <1>5, <1>6, <1>7, <1>8, <1>9, <1>10, <1>11, <1>12, <1>13, <1>14, <1>15,
       VoiceCases, Zenon DEF Goal
  <2>2. QED
    BY <2>1 DEF Goal

-----------------------------------------------------------------------------
LEMMA VoiceStart == VoiceInit => VoiceInv /\ MicInv
<1> SUFFICES ASSUME VoiceInit PROVE VoiceInv /\ MicInv
  OBVIOUS
<1>1. 0 \in 0 .. MaxStreams /\ 0 <= MaxChunks /\ 0 <= MaxWire
  BY VoiceAssumption
<1>2. HostTyped
  <2>1. mounted \in BOOLEAN /\ isMicrophoneActive \in BOOLEAN /\ showMicModal \in BOOLEAN
    BY DEF VoiceInit
  <2>2. overtaken \in BOOLEAN /\ calls = {} /\ live = {} /\ recording = {}
    BY DEF VoiceInit
  <2>3. captured = 0 /\ testStream = None /\ microphoneStream = None /\ recorder = None
    BY DEF VoiceInit
  <2>4. QED
    BY <1>1, <2>1, <2>2, <2>3 DEF HostTyped
<1>3. wire \in Seq(Messages) /\ Len(wire) = 0 /\ DOMAIN wire = {}
  BY EmptySeq DEF VoiceInit
<1>4. RelayTyped
  <2>1. reading = 0 /\ chunks = 0 /\ stops = 0
    BY DEF VoiceInit
  <2>2. voiceFile \in BOOLEAN
    BY DEF VoiceInit
  <2>3. QED
    BY <1>1, <1>3, <2>1, <2>2 DEF RelayTyped
<1>5. Listening /\ Orderly(wire, Given(source))
  BY <1>3, NothingGiven DEF VoiceInit, Listening, Orderly
<1>6. MicInv
  BY DEF VoiceInit, MicInv, InTurn, Starting, Capturing, MicIsReleased, RecordingIsShown
<1>7. QED
  BY <1>2, <1>4, <1>5, <1>6 DEF VoiceInv, HearInv

LEMMA VoiceStep == VoiceInv /\ [VoiceNext]_voiceVars => VoiceInv'
<1> SUFFICES ASSUME VoiceInv, [VoiceNext]_voiceVars PROVE HearInv'
  BY HostTypeKept DEF VoiceInv
<1>1. HearInv
  BY DEF VoiceInv
<1>2. CASE UNCHANGED voiceVars
  BY <1>1, <1>2 DEF HearInv, RelayTyped, Listening, InLine, Sources, Messages, Given, Orderly,
                    voiceVars, host, records, relay, listener
<1>3. QED
  BY <1>1, <1>2, VoiceCases, HearRelay, HearMessage, HearSource, HearHost, Zenon

LEMMA VoiceInvariant == VoiceSpec => [](VoiceInv /\ MicInv)
<1>1. VoiceInv /\ MicInv /\ [VoiceNext]_voiceVars => VoiceInv' /\ MicInv'
  BY VoiceStep, MicKept DEF VoiceInv
<1>2. QED
  BY <1>1, VoiceStart, PTL DEF VoiceSpec

(* The microphone, the relay and the source keep their types; no more      *)
(* chunks are held than were sent.                                         *)
THEOREM VoiceTypes == VoiceSpec => []VoiceTypeOK
<1>1. QED
  BY VoiceInvariant, VoiceTypesFollow, PTL

(* Whatever renders, opens, updates, losses and failed appends come in     *)
(* between: a source is given chunks in the order in which they left the   *)
(* host, for any number of chunks and any buffer (the playback effect).    *)
THEOREM VoiceInOrder == VoiceSpec => []PlayedInOrder
<1>1. QED
  BY VoiceInvariant, OrderFollows, PTL

LEMMA MicFollows == MicInv => MicIsReleased /\ RecordingIsShown
BY DEF MicInv, MicIsReleased, RecordingIsShown

(* For any number of captures: unless one overtakes another, a stream that *)
(* captures is held by a ref while the room is on screen, and none         *)
(* captures after it (stopMicTest, stopMicrophone, the cleanup on unmount).*)
THEOREM MicrophoneIsReleased == VoiceSpec => []MicIsReleased
<1>1. QED
  BY MicFollows, VoiceInvariant, PTL

(* While the room is on screen, and with the same exception, the room hears*)
(* a recording exactly while the button of the host shows one, and only    *)
(* that of the stream it shows (startMicrophone, stopMicrophone).          *)
THEOREM RecordingsAreShown == VoiceSpec => []RecordingIsShown
<1>1. QED
  BY MicFollows, VoiceInvariant, PTL

=============================================================================
