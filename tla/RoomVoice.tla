------------------------------ MODULE RoomVoice ------------------------------
(***************************************************************************)
(* Live voice in a room: on one side the host's microphone, its test in    *)
(* the dialog of devices and its recording; on the other the playback of   *)
(* one listener through a MediaSource.  Both are                           *)
(* src/frontend/src/components/MeditationRoom.tsx; the messages between    *)
(* them go through App.tsx and src/backend/room/client.go and hub.go,      *)
(* which relay them in order but for voice_stop, as long as the buffer of  *)
(* the listener has room.  The socket stays up: RoomConnection is about    *)
(* its loss.                                                               *)
(***************************************************************************)
EXTENDS Integers, Sequences

CONSTANTS
    MaxStreams,           \* bound: captures of the microphone
    MaxChunks,            \* bound: chunks recorded
    MaxWire               \* the buffer of the listener

ASSUME VoiceAssumption == {MaxStreams, MaxChunks, MaxWire} \subseteq Nat

Streams == 1..MaxStreams
None == 0

VARIABLES
    mounted,                      \* the host's room is on screen
    isMicrophoneActive, showMicModal,
    testStream, microphoneStream, \* the refs: what stopMicTest and stopMicrophone stop
    recorder,                     \* mediaRecorderRef, named after its stream
    captured,                     \* streams handed out so far
    live,                         \* streams that capture
    recording,                    \* recorders that run
    reading,                      \* chunks cut off, their bytes not read yet
    chunks,                       \* chunks that left the host, numbered from 1
    calls,                        \* the host's calls under way
    overtaken,                    \* history: a capture began or ended out of turn
    voiceFile,                    \* server: a recording is open
    stops,                        \* ... goroutines that will broadcast voice_stop
    wire,                         \* to the listener, in order
    voiceNarrator,                \* listener: App's state
    source                        \* ... the MediaSource and its queue

capture == <<testStream, microphoneStream, recorder, captured, live>>
records == <<recording, reading, chunks>>
dialog == <<isMicrophoneActive, showMicModal>>
host == <<mounted, dialog, capture, records, calls, overtaken>>
listener == <<voiceNarrator, source>>
relay == <<voiceFile, stops, wire>>
voiceVars == <<host, relay, listener>>

\* The state of one MediaSource: "ready" once it has a SourceBuffer, "failed" when
\* addSourceBuffer has thrown; `wired` once updateend is listened to, `broken` once
\* an appendBuffer has thrown.
Absent == [stage |-> "none", wired |-> FALSE, updating |-> FALSE, broken |-> FALSE,
           queue |-> <<>>, played |-> <<>>]
Opening == [Absent EXCEPT !.stage = "opening"]

VoiceInit ==
    /\ mounted = TRUE /\ isMicrophoneActive = FALSE /\ showMicModal = FALSE
    /\ testStream = None /\ microphoneStream = None /\ recorder = None
    /\ captured = 0 /\ live = {} /\ recording = {}
    /\ reading = 0 /\ chunks = 0
    /\ calls = {} /\ overtaken = FALSE
    /\ voiceFile = FALSE /\ stops = 0 /\ wire = <<>>
    /\ voiceNarrator = FALSE /\ source = Absent

-----------------------------------------------------------------------------
(* The microphone of the host *)

\* getUserMedia hands out the next stream.
Captures == captured < MaxStreams /\ captured' = captured + 1
next == captured + 1

\* The async calls of the host, one of each kind: a second one goes the way of
\* the first, but overtakes it.
Capturing == \E c \in calls : c.kind \in {"test", "start", "resume"}
Asks(kind) == calls' = calls \cup {[kind |-> kind, of |-> None]}
Asking(kind) == \E c \in calls : c.kind = kind

\* BroadcastVoiceEvent and the relay of chunks leave out a listener whose buffer
\* is full.
Relayed(msg) == IF Len(wire) < MaxWire THEN Append(wire, msg) ELSE wire

\* stopVoiceRecordingLocked: voice_stop is broadcast by a goroutine of its own.
ServerStops ==
    /\ voiceFile' = FALSE
    /\ stops' = stops + (IF voiceFile THEN 1 ELSE 0)
    /\ UNCHANGED wire

\* A recorder cuts off a chunk ...
Cut == reading + chunks < MaxChunks /\ reading' = reading + 1

\* ... the last one when it is stopped; there may be no data in it.
RecorderStops ==
    /\ recording' = recording \ {recorder}
    /\ UNCHANGED reading \/ (recorder \in recording /\ Cut)

TestStoppedNot == live                                   \* mutant of TestStopped
\* stopMicTest
TestStopped == live \ {testStream}

\* toggleMicrophone asks for the devices ...
useMic ==
    /\ mounted /\ ~isMicrophoneActive
    /\ Asks("enumerate")
    /\ overtaken' = (overtaken \/ Asking("enumerate"))
    /\ UNCHANGED <<mounted, dialog, capture, records, relay, listener>>

\* Mutant of stopMicrophone: the recorder runs on.
stopMicrophoneOnly ==
    /\ mounted /\ isMicrophoneActive
    /\ live' = TestStopped \ {microphoneStream}
    /\ testStream' = None /\ microphoneStream' = None
    /\ isMicrophoneActive' = FALSE
    /\ ServerStops
    /\ UNCHANGED <<mounted, showMicModal, recorder, captured, records, calls, overtaken, listener>>

\* ... or is stopMicrophone: voice_stop goes out before the recorder's last chunk.
stopMicrophone ==
    /\ mounted /\ isMicrophoneActive
    /\ live' = TestStopped \ {microphoneStream}
    /\ testStream' = None /\ microphoneStream' = None
    /\ RecorderStops
    /\ isMicrophoneActive' = FALSE
    /\ ServerStops
    /\ UNCHANGED <<mounted, showMicModal, recorder, captured, chunks, calls, overtaken, listener>>

\* The devices are known, a permission asked for on the way: the dialog opens
\* and the test starts.
Enumerated(c) ==
    /\ c.kind = "enumerate"
    /\ \/ /\ showMicModal' = mounted
          /\ live' = TestStopped /\ testStream' = None
          /\ calls' = (calls \ {c}) \cup {[kind |-> "test", of |-> None]}
          /\ overtaken' = (overtaken \/ Capturing \/ ~mounted)
          /\ UNCHANGED <<isMicrophoneActive, microphoneStream, recorder, captured>>
       \/ /\ calls' = calls \ {c}
          /\ UNCHANGED <<dialog, capture, overtaken>>
    /\ UNCHANGED <<mounted, records, relay, listener>>

\* handleMicDeviceChange
handleMicDeviceChange ==
    /\ mounted /\ showMicModal
    /\ live' = TestStopped /\ testStream' = None
    /\ Asks("test")
    /\ overtaken' = (overtaken \/ Capturing)
    /\ UNCHANGED <<mounted, dialog, microphoneStream, recorder, captured, records, relay, listener>>

\* startMicTest goes on with its stream, whatever has become of the dialog.
TestCaptured(c) ==
    /\ c.kind = "test"
    /\ \/ Captures /\ live' = live \cup {next} /\ testStream' = next
       \/ UNCHANGED <<captured, live, testStream>>
    /\ calls' = calls \ {c}
    /\ UNCHANGED <<mounted, dialog, microphoneStream, recorder, records, overtaken, relay, listener>>

closeMicModal ==
    /\ mounted /\ showMicModal
    /\ live' = TestStopped /\ testStream' = None
    /\ showMicModal' = FALSE
    /\ UNCHANGED <<mounted, isMicrophoneActive, microphoneStream, recorder, captured, records,
                   calls, overtaken, relay, listener>>

\* startMicrophoneWithDevice; the dialog stays open until the recorder runs.
startMicrophoneWithDevice ==
    /\ mounted /\ showMicModal
    /\ live' = TestStopped /\ testStream' = None
    /\ Asks("start")
    /\ overtaken' = (overtaken \/ isMicrophoneActive
                        \/ Asking("start") \/ Asking("resume"))
    /\ UNCHANGED <<mounted, dialog, microphoneStream, recorder, captured, records, relay, listener>>

\* The stream is there; the audio context may have to be resumed first.
StartCaptured(c) ==
    /\ c.kind = "start"
    /\ Captures
    /\ microphoneStream' = next /\ live' = live \cup {next}
    /\ calls' = (calls \ {c}) \cup {[kind |-> "resume", of |-> next]}
    /\ UNCHANGED <<mounted, dialog, testStream, recorder, records, overtaken, relay, listener>>

\* handleVoiceStart, of no effect once the room was left; the server opens the file.
VoiceStarts ==
    IF mounted
    THEN wire' = Relayed([kind |-> "start"]) /\ voiceFile' = TRUE
    ELSE UNCHANGED <<wire, voiceFile>>

\* The recorder runs.
Recording(c) ==
    /\ c.kind = "resume"
    /\ recorder' = c.of /\ recording' = recording \cup {c.of}
    /\ VoiceStarts
    /\ isMicrophoneActive' = mounted /\ showMicModal' = FALSE
    /\ calls' = calls \ {c}
    /\ UNCHANGED <<mounted, testStream, microphoneStream, captured, live, reading, chunks,
                   overtaken, stops, listener>>

\* recorder.start throws after voice_start went out: the catch sends no voice_stop,
\* and the server's recording stays open.
RecorderFails(c) ==
    /\ c.kind = "resume"
    /\ recorder' = c.of
    /\ VoiceStarts
    /\ live' = live \ {microphoneStream} /\ microphoneStream' = None
    /\ calls' = calls \ {c}
    /\ UNCHANGED <<mounted, dialog, testStream, captured, records, overtaken, stops, listener>>

\* The catch stops what the refs hold by now.
StartFails(c) ==
    /\ c.kind \in {"start", "resume"}
    /\ live' = live \ {microphoneStream} /\ microphoneStream' = None
    /\ calls' = calls \ {c}
    /\ UNCHANGED <<mounted, dialog, testStream, recorder, captured, records, overtaken, relay,
                   listener>>

\* The cleanup of the unmounted room; calls under way go on.
unmount ==
    /\ mounted
    /\ mounted' = FALSE /\ isMicrophoneActive' = FALSE /\ showMicModal' = FALSE
    /\ live' = TestStopped \ {microphoneStream} /\ testStream' = None
    /\ RecorderStops
    /\ overtaken' = (overtaken \/ Capturing)
    /\ ServerStops
    /\ UNCHANGED <<microphoneStream, recorder, captured, chunks, calls, listener>>

\* ondataavailable, every 250 ms: the bytes are awaited ...
ondataavailable ==
    /\ recording # {}
    /\ Cut
    /\ UNCHANGED <<mounted, dialog, capture, recording, chunks, calls, overtaken, relay, listener>>

\* ... and sent, by then perhaps after voice_stop.
handleVoiceData ==
    /\ reading > 0
    /\ reading' = reading - 1
    /\ IF mounted
       THEN chunks' = chunks + 1 /\ wire' = Relayed([kind |-> "chunk", n |-> chunks + 1])
       ELSE UNCHANGED <<chunks, wire>>
    /\ UNCHANGED <<mounted, dialog, capture, recording, calls, overtaken, voiceFile, stops,
                   listener>>

\* "stop" of the session by the host closes the recording, the microphone runs on.
SessionStop ==
    /\ mounted
    /\ ServerStops
    /\ UNCHANGED <<host, listener>>

\* A room_state that is not of a playing room, after "stop" or while none plays
\* (one that finds the buffer full would close the socket).
BroadcastIdle ==
    /\ Len(wire) < MaxWire
    /\ wire' = Append(wire, [kind |-> "idle"])
    /\ UNCHANGED <<host, voiceFile, stops, listener>>

BroadcastStop ==
    /\ stops > 0
    /\ stops' = stops - 1
    /\ wire' = Relayed([kind |-> "stop"])
    /\ UNCHANGED <<host, voiceFile, listener>>

-----------------------------------------------------------------------------
(* The listener *)

\* Mutant of Shifted: the chunk stays in the queue.
ShiftedNot(src, q) ==
    {[src EXCEPT !.updating = TRUE, !.played = Append(@, Head(q))], [src EXCEPT !.broken = TRUE]}

\* appendBuffer of the first of q: it may throw, and the chunk is gone.
Shifted(src, q) ==
    {[src EXCEPT !.queue = Tail(q), !.updating = TRUE, !.played = Append(@, Head(q))],
     [src EXCEPT !.queue = Tail(q), !.broken = TRUE]}

\* Mutant of Received: a chunk overtakes the queue.
ReceivedAhead(src, chunk) ==
    IF src.stage # "ready" \/ src.updating
    THEN {[src EXCEPT !.queue = Append(@, chunk)]}
    ELSE {[src EXCEPT !.updating = TRUE, !.played = Append(@, chunk)],
          [src EXCEPT !.queue = Append(@, chunk), !.broken = TRUE]}

\* What the registered listener does with a chunk.
Received(src, chunk) ==
    IF src.stage # "ready" \/ src.updating \/ src.queue # <<>>
    THEN {[src EXCEPT !.queue = Append(@, chunk)]}
    ELSE {[src EXCEPT !.updating = TRUE, !.played = Append(@, chunk)],
          [src EXCEPT !.queue = Append(@, chunk), !.broken = TRUE]}

\* onmessage: the state it sets reaches the effect of the room later.
onVoiceEvent ==
    /\ wire # <<>> /\ Head(wire).kind \in {"start", "stop", "idle"}
    /\ wire' = Tail(wire)
    /\ voiceNarrator' = (Head(wire).kind = "start")
    /\ UNCHANGED <<host, voiceFile, stops, source>>

onVoiceData ==
    /\ wire # <<>> /\ Head(wire).kind = "chunk"
    /\ wire' = Tail(wire)
    /\ IF source = Absent
       THEN UNCHANGED source
       ELSE source' \in Received(source, Head(wire).n)
    /\ UNCHANGED <<host, voiceFile, stops, voiceNarrator>>

\* The playback effect: its cleanup, and a new source while there is a narrator.
\* registerVoiceListener, a dependency of the effect, is a new function each time
\* App renders, which it may do at any time: so does the effect.
effect ==
    /\ source' = IF voiceNarrator THEN Opening ELSE Absent
    /\ UNCHANGED <<host, relay, voiceNarrator>>

\* sourceopen; where addSourceBuffer throws, the queue grows until the effect is
\* run anew.
handleSourceOpen ==
    /\ source.stage = "opening"
    /\ LET opened == [source EXCEPT !.stage = "ready"]
       IN \/ source.queue = <<>> /\ source' = [opened EXCEPT !.wired = TRUE]
          \/ /\ source.queue # <<>>
             /\ source' \in {[s EXCEPT !.wired = ~s.broken] : s \in Shifted(opened, source.queue)}
          \/ source' = [source EXCEPT !.stage = "failed"]
    /\ UNCHANGED <<host, relay, voiceNarrator>>

\* Mutant of updateend: nothing is taken from the queue.
updateendIdle ==
    /\ source.updating
    /\ source' = [source EXCEPT !.updating = FALSE]
    /\ UNCHANGED <<host, relay, voiceNarrator>>

updateend ==
    /\ source.updating
    /\ LET idle == [source EXCEPT !.updating = FALSE]
       IN IF source.wired /\ source.queue # <<>>
          THEN source' \in Shifted(idle, source.queue)
          ELSE source' = idle
    /\ UNCHANGED <<host, relay, voiceNarrator>>

-----------------------------------------------------------------------------
HostActs ==
    \/ useMic \/ stopMicrophone \/ handleMicDeviceChange \/ closeMicModal
    \/ startMicrophoneWithDevice \/ unmount
    \/ \E c \in calls : Enumerated(c) \/ TestCaptured(c) \/ StartCaptured(c) \/ Recording(c)
                           \/ RecorderFails(c) \/ StartFails(c)
    \/ ondataavailable \/ handleVoiceData
    \/ SessionStop \/ BroadcastStop \/ BroadcastIdle
ListenerActs == onVoiceEvent \/ onVoiceData \/ effect \/ handleSourceOpen \/ updateend

VoiceNext == HostActs \/ ListenerActs
VoiceSpec == VoiceInit /\ [][VoiceNext]_voiceVars
\* The browser opens the source and ends every update.
FairVoiceSpec == VoiceSpec /\ WF_voiceVars(handleSourceOpen) /\ WF_voiceVars(updateend)

-----------------------------------------------------------------------------
Calls == [kind : {"enumerate", "test", "start"}, of : {None}]
             \cup [kind : {"resume"}, of : Streams]
Messages == [kind : {"start", "stop", "idle"}] \cup [kind : {"chunk"}, n : 1..chunks]
Sources == [stage : {"none", "opening", "ready", "failed"},
            wired : BOOLEAN, updating : BOOLEAN, broken : BOOLEAN,
            queue : Seq(1..chunks), played : Seq(1..chunks)]

HostTyped ==
    /\ mounted \in BOOLEAN /\ isMicrophoneActive \in BOOLEAN /\ showMicModal \in BOOLEAN
    /\ captured \in 0..MaxStreams /\ live \subseteq 1..captured
    /\ {testStream, microphoneStream} \subseteq 1..captured \cup {None}
    /\ recorder \in Streams \cup {None}
    /\ recording \subseteq Streams
    /\ calls \subseteq Calls /\ overtaken \in BOOLEAN
RelayTyped ==
    /\ reading \in Nat /\ chunks \in Nat /\ reading + chunks <= MaxChunks
    /\ voiceFile \in BOOLEAN /\ stops \in Nat
    /\ wire \in Seq(Messages) /\ Len(wire) <= MaxWire
ListenerTyped ==
    /\ voiceNarrator \in BOOLEAN
    /\ source \in Sources
    /\ Len(source.queue) + Len(source.played) <= chunks

VoiceTypeOK == HostTyped /\ RelayTyped /\ ListenerTyped

\* "Clean up mic capture on unmount": as long as no capture overtakes another
\* (nor the unmounting), every stream that captures is held by a ref, and none
\* outlives the room.  (A test answered after the dialog was closed is held, and
\* captures until the next stopMicTest.)
MicIsReleased ==
    ~overtaken => live \subseteq (IF mounted THEN {testStream, microphoneStream} ELSE {})

\* The room hears a recording only while the host's button shows it: never one
\* that stopMicrophone or the dialog has lost track of.
RecordingIsShown ==
    mounted /\ ~overtaken => /\ recording = IF isMicrophoneActive THEN {recorder} ELSE {}
                             /\ isMicrophoneActive => microphoneStream = recorder

\* What a source plays keeps the order in which the chunks left the host, across
\* failed appends, a queue filled before the source opened, and updates under way.
PlayedInOrder ==
    \A i, j \in DOMAIN source.played : i < j => source.played[i] < source.played[j]

\* Unless appendBuffer or addSourceBuffer throws (then the queue may grow for as
\* long as the source is kept), a queued chunk is played or goes with its source.
QueueDrains ==
    []((source.queue # <<>>) =>
           <>(source.queue = <<>> \/ source.broken \/ source.stage = "failed"))

=============================================================================
