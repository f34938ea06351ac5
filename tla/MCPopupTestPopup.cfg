SPECIFICATION Spec
CONSTANTS
    p1 = p1
    p2 = p2
    Paths = {p1, p2}
    Uses <- TestPopup
    MaxRequests = 4
INVARIANTS
    CurrentIsDisplayed
CHECK_DEADLOCK FALSE
