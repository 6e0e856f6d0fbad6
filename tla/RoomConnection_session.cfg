SPECIFICATION FairSpec
CONSTANTS
    s1 = s1
    s2 = s2
    Rooms = {"a", "b"}
    NoRoom = "-"
    Sockets = {s1, s2}
    NoSocket = NoSocket
    MaxPending = 2
INVARIANTS
    LiveSocketIsCurrent
    ShownRoomIsActive
    RoomIsBeingDialed
PROPERTIES
    RoomAppears
CHECK_DEADLOCK FALSE
