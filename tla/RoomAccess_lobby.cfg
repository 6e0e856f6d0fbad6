SPECIFICATION Spec
CONSTANTS
    a1 = a1
    a2 = a2
    b1 = b1
    r1 = r1
    r2 = r2
    Pages = {a1, a2, b1}
    Rooms = {r1, r2}
    RoomOf <- MCRoomOf
    UserOf <- MCUserOf
    CreatorOf <- MCCreatorOf
    p = p
    q = q
    Passwords = {p, q}
    NoPassword = "-"
    NoUser = "-"
    Lifetime = 0
    Grace = 1
    Limit = 1
    MaxTime = 2
SYMMETRY PasswordSymmetry
INVARIANTS
    KeyHolders
    TicketsFitTheirRoom
    ReservationHolds
    StaleRowsAwaitDeletion
CHECK_DEADLOCK FALSE
