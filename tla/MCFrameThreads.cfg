CONSTANTS
    Setups <- MCSetups
    N = 2
    User = User
    None = None
SPECIFICATION Spec
INVARIANT DrainIsComplete CallbacksInsideCall AcceleratorIsExclusive
PROPERTY FramesInOrder CallReturns
