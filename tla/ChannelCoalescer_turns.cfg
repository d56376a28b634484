SPECIFICATION FairSpec
CONSTANTS
    a1 = a1
    a2 = a2
    b1 = b1
    b2 = b2
    alice = alice
    bob = bob
    Handle = {alice, bob}
    None = None
    Message = {a1, a2, b1, b2}
    From <- Two
INVARIANTS TypeOK NobodyDropped AnsweredOnce OneSpeaker TurnsTakeTurns
PROPERTY EveryoneAnswered
CHECK_DEADLOCK FALSE
