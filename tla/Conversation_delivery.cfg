SPECIFICATION FairSpec
CONSTANTS
    Job = {j1, j2}
    Filed = {j1}
    Stoppable = {j1}
    Note = {n1}
    Turn = {t1}
    Depth = 2
    None = None
    j1 = j1
    j2 = j2
    t1 = t1
    n1 = n1
INVARIANTS TypeOK ToldOnce StopHeeded CardsKept
PROPERTY ResultArrives
CHECK_DEADLOCK FALSE
