SPECIFICATION Spec
CONSTANTS
    Task = {t1, t2, t3, t4}
    Owner = {o1}
    None = None
    Gap = {2}
    Grace = 1
    MaxRuns = 0
    HasStopAt = FALSE
    Objective = TRUE
    Fallible = FALSE
    Backoff = 2
    RunTime = 1
    Ops = {"create", "pause", "resume", "delete", "edit"}
    Exclusive = TRUE
    MaxOps = 3
    MaxCrash = 0
    RunCap = 1
INVARIANT OwnerWordKept
