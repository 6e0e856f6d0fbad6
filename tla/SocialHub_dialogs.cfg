SPECIFICATION FairSocialSpec
CONSTANTS
    Members = {"a", "b"}
    NoMember = "-"
    MaxCalls = 2
    MaxId = 2
    PageSize = 1
INVARIANTS
    SocialTypeOK
PROPERTIES
    DialogSettles
CHECK_DEADLOCK FALSE
