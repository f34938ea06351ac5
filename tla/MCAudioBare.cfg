SPECIFICATION Spec
CONSTANTS
    Uses <- BareMusic
    MaxSounds = 3
    MaxDepth = 2
INVARIANTS
    CallsAreCarriedOut
