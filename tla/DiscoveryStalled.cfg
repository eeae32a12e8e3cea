SPECIFICATION FairSpec
CONSTANTS
    a = a
    b = b
    c = c
    Absent = Absent
    Node = {a, b, c}
    Topic = {"pose"}
    Service = {}
    Half = 2
    MaxInfoID = 0
    Observer = {a}
    Crashable = {b}
    GroupName <- OneGroup
    Subnet <- OneSubnet
    Timeout = 1
    MaxRegistrations <- Nothing
    MaxSubscribers = 0
PROPERTIES
    RunningNodesSpread
CHECK_DEADLOCK FALSE
