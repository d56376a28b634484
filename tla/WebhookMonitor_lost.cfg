SPECIFICATION Spec
CONSTANTS
    Post = {p1, p2}
    MaxFires = 0
    QueueMax = 2
    MaxOps = 0
    MaxCrash = 0
    None = None
INVARIANT NoneLost
CHECK_DEADLOCK FALSE
