SPECIFICATION Spec
CONSTANTS
    None = None
    Thread = {"receiver", "poller", "app1"}
    Offers <- WithRemoval
INVARIANTS
    NoDeadlock
CHECK_DEADLOCK FALSE
