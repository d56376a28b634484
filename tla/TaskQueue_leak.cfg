SPECIFICATION Spec
CONSTANTS
    r1 = r1
    r2 = r2
    r3 = r3
    Run = {r1, r2, r3}
    Ephemeral = {r1, r2, r3}
    Cancellable = {r1, r2, r3}
    MaxConcurrentTasks = 1
    MaxCrash = 0
INVARIANT SlotsAreHeld
CHECK_DEADLOCK FALSE
