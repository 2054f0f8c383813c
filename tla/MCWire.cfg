SPECIFICATION Spec
CONSTANTS
    MaxId = 4
    ToJson <- MCToJson
    FromJson <- MCFromJson
    Says <- MCSays
    Json <- MCJson
    Size <- MCSize
    Values <- MCValues
    IdRange = 8
    StartIds = {3, 7}
    Clients = {c1, c2}
    SubscriptionIds = {2, 3}
    Topics <- MCTopics
    Broadcasts <- MCBroadcasts
    Foreign <- MCForeign
    Extras <- MCExtras
    ErrorUris <- MCErrorUris
    Offers <- MCOffers
    MaxRequests = 2
    MaxPublications = 1
SYMMETRY Symmetry
INVARIANTS
    TypeOK
    BroadcastsArriveIntact
    ForeignArgumentsRead
    AnswersReachAsker
    ConformingRouterUnderstood
    CapabilitiesMatchRouter
    WireInv
CHECK_DEADLOCK FALSE
