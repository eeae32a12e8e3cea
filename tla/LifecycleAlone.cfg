SPECIFICATION FairSpec
CONSTANTS
    Stopper = {"shutdown"}
    Peers = FALSE
    Buffer = 1
    MaxInits = 1
PROPERTIES
    ShutdownReturns
CHECK_DEADLOCK FALSE
