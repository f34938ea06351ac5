CONSTANTS
    Setups <- MCBroken
    N = 4
    MaxCalls = 1
    Shift = 2
    Main = Main
SPECIFICATION Spec
CHECK_DEADLOCK FALSE
PROPERTY ExecuteReturns
