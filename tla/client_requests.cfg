SPECIFICATION FairSpec
CONSTANTS
    Topics = {t1}
    NoTopic = NoTopic
    MaxReq = 2
    MaxEvents = 1
    MaxClose = 0
    UserMay = {"subscribe", "unsubscribe", "publish", "wait", "drop"}
    RouterMay = {"goodbye", "abort", "reset", "garbage", "refuse"}
PROPERTIES
    RequestsResolve
    ResetReported
    DropStopsAll
    EventsDelivered
    FailedNewLeavesNothing
CHECK_DEADLOCK FALSE
