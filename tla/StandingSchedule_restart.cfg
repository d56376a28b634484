SPECIFICATION FairSpec
CONSTANTS
    Task = {t1, t2, t3, t4, t5}
    Owner = {o1}
    None = None
    Gap = {2}
    Grace = 1
    MaxRuns = 0
    HasStopAt = TRUE
    Objective = TRUE
    Fallible = TRUE
    Backoff = 2
    RunTime = 1
    Ops = {"create", "break", "pause"}
    Exclusive = TRUE
    MaxOps = 3
    MaxCrash = 1
    RunCap = 1
INVARIANTS NoOverlap OneChain
 
