SPECIFICATION Spec
CONSTANTS
    p1 = p1
    p2 = p2
    Paths = {p1, p2}
    Uses <- Hurried
    MaxRequests = 3
INVARIANTS
    ImmediateGoesOn
CHECK_DEADLOCK FALSE
