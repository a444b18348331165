SPECIFICATION Spec
CONSTANTS
    plain = plain
    other = other
    short = short
    wild = wild
    predefined = predefined
    Names <- MCNames
    ShortNames <- MCNone
    Wildcards <- MCNone
    PredefTopicIdTable <- MCPredefTopicIdTable
    PredfTopicIdSize = 1
    MsgIds = {1}
    QoS = {0}
    MaxRetries = 0
    HandlerTimeout = 1
    MaxMsgId = 1
    MaxTopicId = 3
    EchoingClient = TRUE
PROPERTIES
    UnsubscribedNameUnmapped
CHECK_DEADLOCK FALSE
