SPECIFICATION Spec
CONSTANTS
    Task = {t1, t2, t3, t4, t5, t6}
    Owner = {o1}
    None = None
    Gap = {2}
    Grace = 1
    MaxRuns = 2
    HasStopAt = FALSE
    Objective = FALSE
    Fallible = FALSE
    Backoff = 2
    RunTime = 1
    Ops = {"create", "pause", "resume", "delete", "edit", "runnow"}
    Exclusive = TRUE
    MaxOps = 3
    MaxCrash = 0
    RunCap = 3
INVARIANTS OwnerWordKept OneChain
 
