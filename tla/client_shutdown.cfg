SPECIFICATION Spec
CONSTANTS
    Topics = {t1}
    NoTopic = NoTopic
    MaxReq = 2
    MaxEvents = 0
    MaxClose = 2
    UserMay = {"subscribe", "unsubscribe", "close", "drop", "cancel", "resubscribe"}
    RouterMay = {"goodbye", "abort", "reset", "garbage", "end", "noBroker"}
INVARIANTS
    LockInv
    TransportClosedMeansClosed
    CloseOkMeansGoodbye
    EstablishedHasListener
    StreamsCanBeStopped
    SessionInv
    AskInv
PROPERTY
    ImplementsLifecycle
CHECK_DEADLOCK FALSE
