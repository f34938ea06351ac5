SPECIFICATION Spec
CONSTANTS
    Uses <- Several
    MaxSounds = 4
    MaxDepth = 2
INVARIANTS
    EndIsReported
    OneMusic
    SoundsAreTracked
