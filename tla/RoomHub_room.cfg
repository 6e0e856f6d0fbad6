SPECIFICATION Spec
CONSTANTS
    h1 = h1
    h2 = h2
    g1 = g1
    r1 = r1
    r2 = r2
    Conns = {h1, g1}
    Objs = {r1, r2}
    NoRoom = NoRoom
    IdOf <- HostAndGuest
    UserOf <- HostAndGuest
    NoId = "-"
    NoUser = "-"
    EventHost = "-"
    Cap = 1
    Grace = 1
    Horizon = 2
    Kinds = {"leave", "chat msg", "start", "stop", "voice_start", "voice_data"}
    MaxMsgs = 1
SYMMETRY ObjSymmetry
INVARIANTS
    MarkedIsScheduled
    OrphansEmpty
    LockedUseIsSafe
PROPERTIES
    RoomOutlivesDisconnects
CHECK_DEADLOCK FALSE
