SPECIFICATION FairSpec
CONSTANTS
    Stopper = {"shutdown"}
    Peers = TRUE
    Buffer = 1
    MaxInits = 2
INVARIANTS
    NoUseAfterDestroy
    RunningIsComplete
    CleanRestart
PROPERTIES
    ShutdownReturns
CHECK_DEADLOCK FALSE
