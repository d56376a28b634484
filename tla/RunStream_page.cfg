SPECIFICATION FairSpec
CONSTANTS
    Runs = 2
    MaxFrames = 4
    Ring = 1
    Buffer = 1
    Card = {plan}
    Chunk = {}
    MaxBreaks = 1
    MaxOps = 1
    None = None
INVARIANTS TypeOK ShownInOrder CardsCurrent RunningFound 
 
CHECK_DEADLOCK FALSE
