SPECIFICATION Spec
CONSTANTS
    Scenes = {home, game, shop}
    NoScene = NoScene
    Data = {NoData, d1}
    NoData = NoData
    Timers = {t1, t2}
    NoTimer = NoTimer
    Slots = {l1}
    NoLoad = NoLoad
    InitFirst = TRUE
    MaxDepth = 4
INVARIANTS
    BackTargetHolds
    HomeIsKept
    OnlyTrackedTimer
PROPERTIES
    GuardIsLifted
    ImplementsNavigation
