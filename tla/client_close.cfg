SPECIFICATION FairSpec
CONSTANTS
    Topics = {t1}
    NoTopic = NoTopic
    MaxReq = 1
    MaxEvents = 1
    MaxClose = 2
    UserMay = {"subscribe", "publish", "close"}
    RouterMay = {"abort", "reset", "garbage"}
PROPERTIES
    CloseResolves
CHECK_DEADLOCK FALSE
