SPECIFICATION Spec
CONSTANTS
    Runs = 2
    MaxFrames = 4
    Ring = 4
    Buffer = 4
    Card = {plan}
    Chunk = {}
    MaxBreaks = 0
    MaxOps = 1
    None = None
INVARIANT RejoinsWhereItLeft
CHECK_DEADLOCK FALSE
