SPECIFICATION Spec
CONSTANTS
    a = a
    b = b
    c = c
    Absent = Absent
    Node = {a, b, c}
    Topic = {"pose"}
    Service = {"echo"}
    Half = 2
    MaxInfoID = 2
    Observer = {a}
    Crashable = {b}
    GroupName <- TwoGroups
    Subnet <- OneSubnet
    Timeout = 1
    MaxRegistrations <- PeerTwice
    MaxSubscribers = 2
INVARIANTS
    TypeOK
    NoFetchMeansCurrent
    SubscribersFollowRegistry
    NoGhostConnections
    RegistryConsistent
    RegistryJustified
PROPERTIES
    ImplementsDirectory
CHECK_DEADLOCK FALSE
