SPECIFICATION FairSpec
CONSTANTS
    t1 = t1
    t2 = t2
    t3 = t3
    Tasks <- MCTasks
    Inserters = {w1, w2}
    Kinds <- MCKinds
    Wants <- MCWants
    MaxItems = 2
INVARIANTS
    IInv
    NoLostWakeup
    TakesInOrder
PROPERTIES
    EventuallyTaken
    ImplementsMailbox
CHECK_DEADLOCK FALSE
