SPECIFICATION Spec
CONSTANTS
    Scenes = {home, game}
    NoScene = NoScene
    Data = {NoData, d1}
    NoData = NoData
    Timers = {t1, t2}
    NoTimer = NoTimer
    Slots = {l1, l2}
    NoLoad = NoLoad
    InitFirst = FALSE
    MaxDepth = 2
INVARIANTS
    LoadingHasTimer
    OnlyTrackedTimer
PROPERTIES
    GuardIsLifted
    SingleTopIsUnique
