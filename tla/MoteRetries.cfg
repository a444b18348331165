SPECIFICATION FairSpec
CONSTANTS
    Tries = 2
    MaxMsgId = 3
PROPERTIES
    Decides
CHECK_DEADLOCK FALSE
