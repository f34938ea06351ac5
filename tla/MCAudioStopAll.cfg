SPECIFICATION Spec
CONSTANTS
    Uses <- ExampleStopAll
    MaxSounds = 3
    MaxDepth = 2
INVARIANTS
    EndIsReported
