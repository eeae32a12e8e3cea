SPECIFICATION FairSpec
CONSTANTS
    p1 = p1
    p2 = p2
    p3 = p3
    Publisher = {p1, p2, p3}
    SubTopic <- MCSubTopic
    PubTopic <- MCPubTopic
    HWM = 2
    Busy = {p1}
    MaxSent <- MCMaxSent
    MaxRemovals = 1
INVARIANTS
    TypeOK
    InOrderOnce
    NoneMissing
    BlocksOnlyAfterRemoval
PROPERTIES
    QueuedAreDelivered
CHECK_DEADLOCK FALSE
