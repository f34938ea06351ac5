SPECIFICATION ViewSpec
CONSTANTS
    Adapters <- Lists
    NoAdapter = NoAdapter
    Columns = 2
    ItemHeight = 2
    CategoryHeight = 1
    HeaderHeight = 3
    Spacing = 1
    Padding = 1
    ViewHeight = 2
    WinHeight = 2
    HasContainer = TRUE
    Offsets <- ScrolledTo
    Flings = {5}
    MaxDirty = 2
INVARIANTS
    ScreenIsFilled
    StaleIsDirty
    NodesAreReused
