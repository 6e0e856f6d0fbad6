SPECIFICATION FairVoiceSpec
CONSTANTS
    MaxStreams = 2
    MaxChunks = 2
    MaxWire = 1
INVARIANTS
    VoiceTypeOK
    MicIsReleased
    RecordingIsShown
    PlayedInOrder
PROPERTIES
    QueueDrains
CHECK_DEADLOCK FALSE
