SPECIFICATION FairSpec
CONSTANTS
    a = a
    b = b
    c = c
    Absent = Absent
    Node = {a, b, c}
    Topic = {"pose"}
    Service = {}
    Half = 1
    MaxInfoID = 1
    Observer = {a}
    Crashable = {b}
    GroupName <- OneGroup
    Subnet <- OneSubnet
    Timeout = 1
    MaxRegistrations <- SurvivorOnce
    MaxSubscribers = 1
PROPERTIES
    RegistrationsSpread
    SubscribersConnect
    DeadAreForgotten
CHECK_DEADLOCK FALSE
