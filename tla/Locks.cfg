SPECIFICATION Spec
CONSTANTS
    None = None
    Thread = {"receiver", "sender", "services", "poller", "app1", "app2"}
    Offers <- Applications
INVARIANTS
    NoDeadlock
    RegistryRaces
    
    SubscriberRaces
CHECK_DEADLOCK FALSE
