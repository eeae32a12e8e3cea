SPECIFICATION FairSpec
CONSTANTS
    None = None
    Worker = {"w1", "w2"}
    Client = {"c1", "c2"}
    Waiter = {"c1", "c2"}
    Task = {"t1", "t2"}
    Endless = {"t2"}
    MaxStarts = 2
INVARIANTS
    TypeOK
    
    ActiveCounts
    NoLostWakeup
PROPERTIES
    ImplementsTaskPool
    PushedTasksRun
    StopReturns
    WaitReturns
CHECK_DEADLOCK FALSE
