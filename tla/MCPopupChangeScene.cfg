SPECIFICATION Spec
CONSTANTS
    p1 = p1
    p2 = p2
    Paths = {p1, p2}
    Uses <- Leaving
    MaxRequests = 3
PROPERTIES
    WaitersGetScreen
CHECK_DEADLOCK FALSE
