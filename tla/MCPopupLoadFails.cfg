SPECIFICATION Spec
CONSTANTS
    p1 = p1
    p2 = p2
    Paths = {p1, p2}
    Uses <- Failing
    MaxRequests = 3
INVARIANTS
    WaitersAreServed
CHECK_DEADLOCK FALSE
