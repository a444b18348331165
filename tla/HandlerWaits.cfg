SPECIFICATION FairSpec
CONSTANTS
    plain = plain
    other = other
    short = short
    wild = wild
    predefined = predefined
    Names <- MCNames
    ShortNames <- MCNone
    Wildcards <- MCNone
    PredefTopicIdTable <- MCPredefTopicIdTable
    PredfTopicIdSize = 1
    MsgIds = {1}
    QoS <- MCAllQoS
    MaxRetries = 1
    HandlerTimeout = 2
    MaxMsgId = 2
    MaxTopicId = 2
    EchoingClient = TRUE
INVARIANTS
    StoredMatchesWaiting
    TimersMatchWaiting
    SessionConsistent
    WaitsAreRecent
PROPERTIES
    PendingKept
    BrokerStream
    WaitsEnd
    ImplementsFairSession
CHECK_DEADLOCK FALSE
