SPECIFICATION FairSpec
CONSTANTS
    t1 = t1
    t2 = t2
    t3 = t3
    v0 = v0
    v1 = v1
    v2 = v2
    Tasks <- MCTasks
    Writers = {w1, w2}
    Values <- MCValues
    InitVal = v0
    Want <- MCWant
INVARIANTS
    IInv
    NoLostWakeup
PROPERTIES
    EventuallyServed
    ImplementsWatchedValue
CHECK_DEADLOCK FALSE
