SPECIFICATION Spec
CONSTANTS
    Topics = {t1}
    NoTopic = NoTopic
    MaxReq = 1
    MaxEvents = 1
    MaxClose = 0
    UserMay = {"subscribe"}
    RouterMay = {}
INVARIANT
    FailedOnlyByMisbehaviour
CHECK_DEADLOCK FALSE
