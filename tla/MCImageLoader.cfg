CONSTANTS
    l1 = l1
    l2 = l2
    l3 = l3
    c1 = c1
    u1 = u1
    p1 = p1
    Calls = {l1, l2, l3, c1}
    MaxProgress = 2
    Loads = {l1, l2, l3}
    Remote = {u1}
    Local = {p1}
    NotImages = {p1}
    Textures = {x1, x2}
    Targets = {n1}
    None = None
    Scenarios <- MCScenarios
    MaxScenes = 1
SPECIFICATION Spec
INVARIANTS
    CacheIsUnique
PROPERTIES
    HandedOutIsUsable
    LoadsSettle
    CallsSettle
    NothingStays
    ProgressInTime
CHECK_DEADLOCK FALSE
