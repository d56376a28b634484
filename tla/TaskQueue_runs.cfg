SPECIFICATION FairSpec
CONSTANTS
    r1 = r1
    r2 = r2
    r3 = r3
    Run = {r1, r2, r3}
    Ephemeral = {r3}
    Cancellable = {r1}
    MaxConcurrentTasks = 1
    MaxCrash = 1
INVARIANTS TypeOK EntryKept SlotBound NoIdleSlot NoOvertaking
PROPERTY AcceptedFinish
CHECK_DEADLOCK FALSE
