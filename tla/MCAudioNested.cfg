SPECIFICATION Spec
CONSTANTS
    Uses <- Nested
    MaxSounds = 3
    MaxDepth = 2
INVARIANTS
    EndsOnce
