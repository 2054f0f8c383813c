SPECIFICATION FairSpec
CONSTANTS
    Topics = {t1}
    NoTopic = NoTopic
    MaxReq = 2
    MaxEvents = 2
    MaxClose = 0
    UserMay = {"subscribe", "unsubscribe", "drop", "cancel", "resubscribe"}
    RouterMay = {"abort", "goodbye", "reset", "stall"}
INVARIANTS
    LockInv
PROPERTIES
    StateChangeFreesRequests
    OrphanedListenerEnds
    NeverTwiceNorLate
CHECK_DEADLOCK FALSE
