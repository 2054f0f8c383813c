SPECIFICATION FairSpec
CONSTANTS
    Topics = {t1}
    NoTopic = NoTopic
    MaxReq = 0
    MaxEvents = 0
    MaxClose = 1
    UserMay = {"close"}
    RouterMay = {"goodbye"}
PROPERTY
    CloseResolves
CHECK_DEADLOCK FALSE
