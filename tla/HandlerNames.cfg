SPECIFICATION Spec
CONSTANTS
    plain = plain
    other = other
    short = short
    wild = wild
    predefined = predefined
    Names <- MCNone
    ShortNames <- MCShortNames
    Wildcards <- MCWildcards
    PredefTopicIdTable <- MCPredefTopicIdTable
    PredfTopicIdSize = 2
    MsgIds = {1, 2}
    QoS = {1}
    MaxRetries = 0
    HandlerTimeout = 1
    MaxMsgId = 1
    MaxTopicId = 2
    EchoingClient = TRUE
PROPERTIES
    AnswersAreDue
CHECK_DEADLOCK FALSE
