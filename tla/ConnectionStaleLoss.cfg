SPECIFICATION Spec
CONSTANTS
    MaxConnections = 2
    MaxMessages = 1
    MaxArrivals = 2
    MaxCommands = 3
PROPERTIES
    LostWasLost
CHECK_DEADLOCK FALSE
