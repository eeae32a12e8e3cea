SPECIFICATION Spec
CONSTANTS
    Stopper = {"shutdown", "spin"}
    Peers = TRUE
    Buffer = 1
    MaxInits = 1
INVARIANTS
    NoUseAfterDestroy
CHECK_DEADLOCK FALSE
