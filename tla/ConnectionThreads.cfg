SPECIFICATION FairSpec
CONSTANTS
    MaxConnections = 2
    MaxMessages = 2
    MaxArrivals = 2
    MaxCommands = 3
INVARIANTS
    
    NoSocketLeak
    
PROPERTIES
    
    ThreadsEnd
CHECK_DEADLOCK FALSE
