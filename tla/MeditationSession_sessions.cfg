SPECIFICATION FairSpec
CONSTANTS
    a = a
    Hosts = {a}
    Hub = Hub
    Durations <- MCDurations
    MaxDuration = 3
    EventExists = TRUE
    MaxTime = 3
    MaxStarts = 2
    MaxVoice = 1
    MaxCrashes = 1
INVARIANTS
    RowMatches
    PlayingHasTimer
    EndedOnTime
    EventGoneUncrashed
PROPERTIES
    PlayingEnds
CHECK_DEADLOCK FALSE
