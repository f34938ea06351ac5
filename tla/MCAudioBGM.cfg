SPECIFICATION Spec
CONSTANTS
    Uses <- Example
    MaxSounds = 3
    MaxDepth = 2
INVARIANTS
    OneBGM
