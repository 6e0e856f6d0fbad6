SPECIFICATION FairSpec
CONSTANTS
    Tracks = {rain, sea}
    NoTrack = NoTrack
    MaxSessions = 4
INVARIANTS
    MusicIsInStep
    MuteIsHeld
PROPERTIES
    SilenceIsExplained
