SPECIFICATION FairLobbySpec
CONSTANTS
    Events = {"e"}
    Rooms = {"p"}
    Protected = {"p"}
    None = "-"
    MaxCalls = 2
    MaxCount = 2
INVARIANTS
    LobbyTypeOK
    AttendeesCounted
PROPERTIES
    LobbySettles
CHECK_DEADLOCK FALSE
