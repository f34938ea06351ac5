CONSTANTS
    short = short
    long = long
    Chars = {short, long}
    Strokes <- MCStrokes
    None = None
    MaxLoads = 3
    Careful = TRUE
SPECIFICATION Spec
INVARIANT CompleteIsAll
