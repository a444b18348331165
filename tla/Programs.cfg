SPECIFICATION AllSpec
CONSTANTS
    TopicIds = {1, 2}
    Names = {"first", "second"}
    TopicName = "first"
    PredefinedId = 1
    PubKeepAlive = 3
    DefaultTimeout = 1
    SubKeepAlives = {0, 2}
    FlagSets = {{"m", "a", "1"}, {"m", "v", "fe", "dtn"}}
    ForwardTime = 1
    MaxAge = 7
    MaxSignals = 1
    MosquittoOptions <- MCOptions
    MaxOptions = 4
    Characters <- MCCharacters
    Usernames <- MCUsernames
    Passwords <- MCUsernames
    Hosts <- MCHosts
    Ports <- MCPorts
    Lengths = {0, 1, 3, 6}
    MaxLines = 3
    Chunk = 3
    Count = 2
    MaxConnects = 2
    MaxMessages = 1
    PacketLengths = {0, 1, 3}
    Contents = {2}
    MaxPackets = 2
    MaxFaults = 1
    AttemptLimits = {2, 255}
    RETRY_FOREVER = 255
    EventTypeLengths = {6, 11}
    AttemptValues = 5
    CONNECTION_STABLE_TIME = 2
    NET_CONNECT_PERIODIC = 1
    STATE_MACHINE_PERIODIC = 1
    RECONNECT_INTERVAL = 1
    PUBLISH_INTERVAL = 3
INVARIANTS
    StatesConsistent
    KeepsAlive
    
    
    LinesWhole
    DisconnectsWhenDone
    WholePackets
    RetriesAsConfigured
PROPERTIES
    SilenceNoticed
    Ends
    MakesProgress
CHECK_DEADLOCK FALSE
