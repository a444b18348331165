SPECIFICATION AllSpec
CONSTANTS
    Tries = 4
    MaxMsgId = 6
    MAX_CALLBACKS = 2
    RadioSlots = 2
    MAX_SENSORS = 1
    MaxSegments = 2
    RouterPackets = 3
    MaxCommands = 2
    MaxRequests = 3
    Prompt = TRUE
    Octets <- MCOctets
    SlipPackets <- MCPackets
    Frames <- MCFrames
    MaxTraffic = 3
    OutSize = 9
    InSize = 4
INVARIANTS
    StatesConsistent
    OwnTopicId
    OwnCallback
    
    
PROPERTIES
    AnswerSeen
    NodesGoOn
CHECK_DEADLOCK FALSE
