SPECIFICATION FairSpec
CONSTANTS
    Task = {t1}
    HandledTask = {t1}
    Client = {c1, c2}
    Payload = {p1, p2}
    MaxTime = 2
    Resolution = 2
    IdleSleep = 1
    None = None
    t1 = t1
    c1 = c1
    c2 = c2
    p1 = p1
    p2 = p2
INVARIANTS TypeOK NoLostWakeup AtMostOnce FiredAsAsked
PROPERTIES QueuedFires ImplementsDeferredJobs
CHECK_DEADLOCK FALSE
