SPECIFICATION Spec
CONSTANTS
    p1 = p1
    p2 = p2
    Paths = {p1, p2}
    Uses <- Preloading
    MaxRequests = 3
INVARIANTS
    ReleasedIsFree
CHECK_DEADLOCK FALSE
