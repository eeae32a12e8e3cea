SPECIFICATION FairSpec
CONSTANTS
    a = a
    b = b
    x = x
    y = y
    Node = {a, b}
    Service = {"echo", "relay"}
    GetNodeInfo = "get_node_info"
    None = None
    Caller = {x}
    Home <- MCHome
    Offers <- MCOffers
    Nested <- MCNested
    Fetches <- MCFetches
    MaxWait = 1
    CheckInterval = 1
    Crashable = {b}
    Unhandling = {b}
    Exposed = {a}
INVARIANTS
    TypeOK
    RequestsConserved
    ListedIsServed
    NoCircularWait
PROPERTIES
    LearntServicesStay
    RequestsReturn
CHECK_DEADLOCK FALSE
