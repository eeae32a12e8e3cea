SPECIFICATION Spec
CONSTANTS
    o = o
    p = p
    q = q
    z = z
    Base = 2
    Width = 2
    IdLen = 2
    BufferSize = 14
    NoMessage = NoMessage
    Sender = {o, p, q, z}
    Observer = o
    Stranger = {z}
    Foreign <- MCForeign
    NodeID <- MCNodeID
    Ip <- MCIp
    ServicePort <- MCServicePort
    GroupName <- MCGroupName
    Period = 6
    Timeout = 2
    MaxFetch = 1
    FirstInfoID = 1
    MaxInfoID = 2
    Capacity = 4
INVARIANTS
    AcceptedIsSent
    NothingDropped
    HeardInTime
CHECK_DEADLOCK FALSE
