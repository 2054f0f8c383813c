SPECIFICATION FairSpec
CONSTANTS
    Topics = {t1}
    NoTopic = NoTopic
    MaxReq = 1
    MaxEvents = 0
    MaxClose = 0
    UserMay = {"subscribe"}
    RouterMay = {"silent"}
PROPERTY
    SubscribeResolves
CHECK_DEADLOCK FALSE
