SPECIFICATION FairSpec
CONSTANTS
    Members = {"a", "b"}
    NoMember = "-"
    Conversed = {"a"}
    Searches = {{"a", "b"}, {}}
    MaxCalls = 2
INVARIANTS
    CardShowsSelected
PROPERTIES
    IgnoreSettles
CHECK_DEADLOCK FALSE
