SPECIFICATION Spec
CONSTANTS
    Setups <- AllSetups
    MaxClips = 3
    MaxEvents = 2
INVARIANTS
    NothingIsPending
    AsAsked
    BackgroundIsQuiet
PROPERTIES
    PlayIsHonoured
