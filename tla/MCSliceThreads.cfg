CONSTANTS
    Setups <- MCSetups
    N = 3
    MaxCalls = 2
    Shift = 2
    Main = Main
SPECIFICATION Spec
INVARIANTS
    NumbersAreDistinct
    WavefrontIsAhead
PROPERTIES
    ImplementsForkJoin
    ExecuteReturns
CHECK_DEADLOCK FALSE
