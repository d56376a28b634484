SPECIFICATION FairSpec
CONSTANTS
    Post = {p1, p2, p3, p4}
    MaxFires = 1
    QueueMax = 2
    MaxOps = 1
    MaxCrash = 1
    None = None
INVARIANTS TypeOK OneFireAtATime DeliveredInOrder FiresWithinLimit
PROPERTY PostsSettle
CHECK_DEADLOCK FALSE
