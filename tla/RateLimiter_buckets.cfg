SPECIFICATION Spec
CONSTANTS
    Keys = {alice, bob}
    Rate = 2
    Capacity = 2
    MaxAge = 4
    Period = 2
    MaxTime = 8
INVARIANTS
    WindowBound
PROPERTIES
    ImplementsTokenBucket
CHECK_DEADLOCK FALSE
