SPECIFICATION Spec
CONSTANTS
    p1 = p1
    p2 = p2
    Paths = {p1, p2}
    Uses <- AllUses
    MaxRequests = 5
INVARIANTS
    OneOnScreen
    CachedIsHeld
    CurrentIsDisplayed
    QueueInOrder
PROPERTIES
    NoOvertaking
    WaitersGetScreen
CHECK_DEADLOCK FALSE
