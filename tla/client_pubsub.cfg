SPECIFICATION Spec
CONSTANTS
    Topics = {t1, t2}
    NoTopic = NoTopic
    MaxReq = 3
    MaxEvents = 2
    MaxClose = 0
    UserMay = {"subscribe", "unsubscribe", "cancel", "dropStream"}
    RouterMay = {"refuse", "silent"}
INVARIANTS
    TypeOK
    NoEventLost
    StreamBacked
    StreamMatchesRequest
    PubSubInv
PROPERTY
    ImplementsEventStreams
SYMMETRY TopicSymmetry
CHECK_DEADLOCK FALSE
