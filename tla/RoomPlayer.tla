----------------------------- MODULE RoomPlayer ------------------------------
(***************************************************************************)
(* The music of a meditation on one page of a room,                        *)
(* src/frontend/src/components/MeditationRoom.tsx: an effect gives the one *)
(* audio element the track and the position of the session whose state     *)
(* has arrived; the browser loads it, refuses to play it or fails, and the *)
(* user mutes it or forces it to play.  The server starts and ends         *)
(* sessions (src/backend/room/client.go), a second one over a first too.   *)
(*                                                                         *)
(* A session is known by startedAt.  A media element's event, the promise  *)
(* it settles and the callbacks of both are one step.  The element of a    *)
(* room that is left while it plays is not stopped, and not followed here. *)
(***************************************************************************)
EXTENDS Integers

CONSTANTS
    Tracks, NoTrack,
    MaxSessions           \* bound: sessions the server starts

ASSUME TrackAssumption == NoTrack \notin Tracks
ASSUME SessionAssumption == MaxSessions \in Nat

VARIABLES
    server,               \* the room: status, activeTrack, startedAt
    sessions,             \* bound's counter: sessions started
    inRoom,               \* the component is mounted
    roomState,            \* the last state that arrived
    over,                 \* the effect found that session's time over
    audio,                \* audioRef.current
    ready,                \* its loadedmetadata listeners: where they will seek
    pending,              \* a play() that is not settled
    isMuted, autoplayBlocked, audioLoadError

notices == <<autoplayBlocked, audioLoadError>>
player == <<over, audio, ready, pending, isMuted, notices>>
playerVars == <<server, sessions, inRoom, roomState, player>>

NoAudio == [src |-> NoTrack]
Loading(t, muted) ==
    [src |-> t, paused |-> TRUE, loaded |-> FALSE, failed |-> "no", at |-> 0, muted |-> muted]
\* The session of the effect's listener and of forcePlayAudio's last one, 0
\* for none, and whether that one was added after the effect's.
NoSeek == [effect |-> 0, forced |-> 0, forcedLast |-> FALSE]

State(status, t, s) == [status |-> status, track |-> t, startedAt |-> s]
Waiting == State("waiting", NoTrack, 0)
isPlaying == inRoom /\ roomState.status = "playing"

Init ==
    /\ server = Waiting /\ sessions = 0
    /\ inRoom = FALSE /\ roomState = Waiting
    /\ over = FALSE /\ audio = NoAudio /\ ready = NoSeek /\ pending = FALSE
    /\ isMuted = FALSE /\ autoplayBlocked = FALSE /\ audioLoadError = FALSE

-----------------------------------------------------------------------------
(* The server *)

Starts(t) ==
    /\ sessions < MaxSessions
    /\ sessions' = sessions + 1
    /\ server' = State("playing", t, sessions + 1)
    /\ UNCHANGED <<inRoom, roomState, player>>

\* A stop clears the session, the end of its time only the status.
Ends ==
    /\ server.status = "playing"
    /\ server' \in {State("finished", NoTrack, 0), [server EXCEPT !.status = "finished"]}
    /\ UNCHANGED <<sessions, inRoom, roomState, player>>

\* The host's buttons; other pages of the host have them too, so the server
\* may hear of either at any time.
StartOffered == inRoom /\ ~isPlaying
StopOffered == isPlaying
startMeditation(t) == StartOffered /\ Starts(t)
stopMeditation == StopOffered /\ Ends
Elsewhere == Ends \/ \E t \in Tracks : Starts(t)

-----------------------------------------------------------------------------
(* The effect *)

\* Mutant of Tuned: a new source is heard, muted or not.
TunedUnmuted(current, r) == IF current.src = r.track THEN current ELSE Loading(r.track, FALSE)

\* The element with the track of state r: new, paused and given another
\* source, or as it is.
Tuned(current, r) ==
    IF current.src = r.track THEN [current EXCEPT !.muted = isMuted]
                             ELSE Loading(r.track, isMuted)

\* The cleanup of the last effect removes that effect's listener.
Cleaned(current) ==
    IF current = NoAudio THEN NoSeek ELSE [ready EXCEPT !.effect = 0]

SyncedNot(a, startedAt) == a                             \* mutant of Synced
\* syncAudioPosition, once the element knows its duration.
Synced(a, startedAt) == IF a.loaded THEN [a EXCEPT !.at = startedAt] ELSE a

\* Mutant of Refused: a refusal is taken for an aborted play().
RefusedSilently(a) ==
    /\ a.paused /\ a.failed = "no"
    /\ audio' = a /\ pending' = FALSE
    /\ autoplayBlocked' = FALSE /\ audioLoadError' = FALSE

\* play() outside a gesture: the browser's policy refuses it ...
Refused(a) ==
    /\ a.paused /\ a.failed = "no"
    /\ audio' = a /\ pending' = FALSE
    /\ autoplayBlocked' = TRUE /\ audioLoadError' = FALSE
\* ... or it has to wait for data ...
Plays(a) ==
    /\ a.failed # "unsupported"
    /\ audio' = [a EXCEPT !.paused = FALSE] /\ pending' = TRUE
    /\ audioLoadError' = FALSE /\ UNCHANGED autoplayBlocked
\* ... or a source that did not load is rejected again.
Rejected(a) ==
    /\ a.failed = "unsupported"
    /\ audio' = a /\ pending' = FALSE
    /\ autoplayBlocked' = FALSE /\ audioLoadError' = TRUE

\* The audio effect, after a render with a new status, track or session, with
\* `current` in audioRef.
Effect(current, r) ==
    \/ /\ r.status = "playing" /\ over' = FALSE
       /\ ready' = [Cleaned(current) EXCEPT !.effect = r.startedAt, !.forcedLast = FALSE]
       /\ LET a == Synced(Tuned(current, r), r.startedAt)
          IN  Refused(a) \/ Plays(a) \/ Rejected(a)
    \/ /\ r.status = "playing" /\ over' = TRUE
       /\ ready' = Cleaned(current)
       /\ audio' = IF current = NoAudio THEN NoAudio ELSE [current EXCEPT !.paused = TRUE]
       /\ pending' = FALSE
       /\ UNCHANGED notices
    \/ /\ r.status # "playing" /\ over' = FALSE
       /\ audio' = NoAudio /\ ready' = NoSeek /\ pending' = FALSE
       /\ autoplayBlocked' = FALSE /\ audioLoadError' = FALSE

\* A room_state arrives; states on the way are passed over, which is what a
\* page that was disconnected sees.
RoomStateArrives ==
    /\ inRoom /\ roomState # server
    /\ roomState' = server
    /\ Effect(audio, server)
    /\ UNCHANGED <<server, sessions, inRoom, isMuted>>

\* The component is mounted by the first state that arrives.
Enter ==
    /\ ~inRoom
    /\ inRoom' = TRUE /\ roomState' = server
    /\ Effect(NoAudio, server)
    /\ UNCHANGED <<server, sessions, isMuted>>

Leave ==
    /\ inRoom
    /\ inRoom' = FALSE /\ roomState' = Waiting
    /\ over' = FALSE /\ audio' = NoAudio /\ ready' = NoSeek /\ pending' = FALSE
    /\ isMuted' = FALSE /\ autoplayBlocked' = FALSE /\ audioLoadError' = FALSE
    /\ UNCHANGED <<server, sessions>>

-----------------------------------------------------------------------------
(* The browser *)

\* The listeners seek one after the other: the last one's seek stays.
LastSeek == IF (ready.forcedLast /\ ready.forced # 0) \/ ready.effect = 0
            THEN ready.forced ELSE ready.effect

\* loadedmetadata
Loaded ==
    /\ audio # NoAudio /\ ~audio.loaded /\ audio.failed = "no"
    /\ audio' = [audio EXCEPT !.loaded = TRUE, !.at = LastSeek]
    /\ ready' = [ready EXCEPT !.forced = 0]
    /\ UNCHANGED <<server, sessions, inRoom, roomState, over, pending, isMuted, notices>>

\* The promise of play() is fulfilled.
Started ==
    /\ pending /\ audio.loaded /\ audio.failed = "no"
    /\ pending' = FALSE
    /\ autoplayBlocked' = FALSE /\ audioLoadError' = FALSE
    /\ UNCHANGED <<server, sessions, inRoom, roomState, over, audio, ready, isMuted>>

\* The source does not load, or its stream breaks: the effect's error listener
\* hears it, and so does a play() that waits.
Fails ==
    /\ audio # NoAudio /\ audio.failed = "no"
    /\ audio' = [audio EXCEPT !.failed = IF audio.loaded THEN "broken" ELSE "unsupported"]
    /\ LET heard == ready.effect # 0
       IN  /\ audioLoadError' = (audioLoadError \/ heard \/ pending)
           /\ autoplayBlocked' = (autoplayBlocked /\ ~heard)
    /\ pending' = FALSE
    /\ UNCHANGED <<server, sessions, inRoom, roomState, over, ready, isMuted>>

-----------------------------------------------------------------------------
(* The user *)

\* A failed source is loaded again.
Forced == IF audio = NoAudio \/ audio.failed # "no" THEN Loading(roomState.track, FALSE)
                                                    ELSE [audio EXCEPT !.muted = FALSE]

\* forcePlayAudio, in a gesture: never refused.
forcePlayAudio ==
    /\ isPlaying
    /\ isMuted' = FALSE
    /\ LET a == Synced(Forced, roomState.startedAt)
           there == IF audio = NoAudio THEN NoSeek ELSE ready
       IN  /\ audio' = [a EXCEPT !.paused = FALSE]
           /\ ready' = IF a.loaded THEN there
                       ELSE [there EXCEPT !.forced = roomState.startedAt, !.forcedLast = TRUE]
    /\ pending' = TRUE
    /\ UNCHANGED <<server, sessions, inRoom, roomState, over, notices>>

\* The banner's button.
enableSound == (autoplayBlocked \/ audioLoadError) /\ forcePlayAudio

\* The mute button; unmuting an element that is not playing forces it.
MutedTo(on) == audio' = IF audio = NoAudio THEN NoAudio ELSE [audio EXCEPT !.muted = on]
toggleMute ==
    /\ isPlaying
    /\ IF isMuted /\ (autoplayBlocked \/ (audio # NoAudio /\ audio.paused))
       THEN forcePlayAudio
       ELSE /\ isMuted' = ~isMuted
            /\ MutedTo(isMuted')
            /\ UNCHANGED <<server, sessions, inRoom, roomState, over, ready, pending, notices>>

-----------------------------------------------------------------------------
User ==
    \/ Leave \/ Enter \/ enableSound \/ toggleMute \/ stopMeditation
    \/ \E t \in Tracks : startMeditation(t)
Browser == Loaded \/ Started \/ Fails

Next == User \/ Browser \/ RoomStateArrives \/ Elsewhere
Spec == Init /\ [][Next]_playerVars

\* Loading ends one way or the other, and promises are settled.
Fairness == WF_playerVars(Loaded) /\ WF_playerVars(Started)
FairSpec == Spec /\ Fairness

-----------------------------------------------------------------------------
Media == [src : Tracks, paused : BOOLEAN, loaded : BOOLEAN,
          failed : {"no", "unsupported", "broken"}, at : 0 .. MaxSessions, muted : BOOLEAN]
Listeners == [effect : 0 .. MaxSessions, forced : 0 .. MaxSessions, forcedLast : BOOLEAN]
RoomStates == [status : {"waiting", "playing", "finished"}, track : Tracks \cup {NoTrack},
               startedAt : 0 .. MaxSessions]
TypeOK ==
    /\ server \in RoomStates /\ roomState \in RoomStates
    /\ sessions \in 0 .. MaxSessions
    /\ inRoom \in BOOLEAN /\ over \in BOOLEAN /\ pending \in BOOLEAN /\ isMuted \in BOOLEAN
    /\ audio \in {NoAudio} \cup Media
    /\ ready \in Listeners
    /\ autoplayBlocked \in BOOLEAN /\ audioLoadError \in BOOLEAN

\* Plays, or will as soon as there is data.
Sounding == audio # NoAudio /\ ~audio.paused /\ audio.failed = "no"

Broken == audio # NoAudio /\ audio.failed = "broken"

\* What the element of the mounted room plays is the music of the session on
\* screen, at its position once that can be known, and nothing outside a
\* session: however sessions follow and replace each other, and whatever was
\* still loading, refused or forced.  Left out are a session that was over when
\* its state arrived (forcing may then go on with the track before) and the
\* element of a room left during a session, which plays on unfollowed.
MusicIsInStep ==
    Sounding /\ ~over =>
        /\ isPlaying /\ audio.src = roomState.track
        /\ audio.loaded => audio.at = roomState.startedAt

\* Who has muted the music hears none, whichever element, track or session
\* comes; only the buttons that enable the sound unmute it.
MuteIsHeld == audio # NoAudio => audio.muted = isMuted

\* Nobody sits in a session without music and without a word about it: left
\* to load, the music plays, or a banner says that it is blocked or failed,
\* unless the session was over when it arrived, or its stream had broken
\* when another session took it over.
SilenceIsExplained ==
    [](isPlaying => <>(\/ Sounding /\ audio.loaded /\ ~pending
                       \/ autoplayBlocked \/ audioLoadError
                       \/ over \/ Broken \/ ~isPlaying))

=============================================================================
