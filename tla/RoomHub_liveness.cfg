SPECIFICATION FairSpec
CONSTANTS
    h1 = h1
    h2 = h2
    g1 = g1
    r1 = r1
    r2 = r2
    Conns = {h1, h2}
    Objs = {r1, r2}
    NoRoom = NoRoom
    IdOf <- HostReconnects
    UserOf <- HostReconnects
    NoId = "-"
    NoUser = "-"
    EventHost = "H"
    Cap = 1
    Grace = 1
    Horizon = 1
    Kinds = {"leave"}
    MaxMsgs = 1
PROPERTIES
    HubServes
    ClosedConnectionsEnd
    MarkedRoomReclaimed
CHECK_DEADLOCK FALSE
