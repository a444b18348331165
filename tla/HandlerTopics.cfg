SPECIFICATION Spec
CONSTANTS
    plain = plain
    other = other
    short = short
    wild = wild
    predefined = predefined
    Names <- MCTwoNames
    ShortNames <- MCNone
    Wildcards <- MCNone
    PredefTopicIdTable <- MCPredefTopicIdTable
    PredfTopicIdSize = 1
    MsgIds = {1}
    QoS = {0}
    MaxRetries = 0
    HandlerTimeout = 1
    MaxMsgId = 3
    MaxTopicId = 3
    EchoingClient = TRUE
INVARIANTS
    DeliveriesResolvable
    TopicIdsUnambiguous
CHECK_DEADLOCK FALSE
