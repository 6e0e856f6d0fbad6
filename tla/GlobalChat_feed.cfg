SPECIFICATION FairChatSpec
CONSTANTS
    MaxId = 4
    FirstPage = 2
    NextPage = 2
    VisibleLimit = 3
    MaxFailures = 1
INVARIANTS
    CursorIsNewest
    GapsBorderOwn
PROPERTIES
    FeedCatchesUp
CHECK_DEADLOCK FALSE
