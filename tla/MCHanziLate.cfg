CONSTANTS
    short = short
    long = long
    Chars = {short, long}
    Strokes <- MCStrokes
    None = None
    MaxLoads = 3
    Careful = FALSE
SPECIFICATION Spec
INVARIANT ShownIsAsked
