-------------------------- MODULE HeartbeatChannel --------------------------
(* Heartbeats in time: every node sends one per second, encoded into bytes,  *)
(* and the receive loop of one node (Observer) reads at most one datagram    *)
(* per round of 100 ms, its own and those of strangers included, and does    *)
(* not read while it waits for a fetch.  The socket buffer is bounded, and   *)
(* checkHeartbeats removes whoever was not heard for more than two seconds.  *)
(*                                                                           *)
(* A slot is one round of the receive loop; a second has Period slots.  What *)
(* a loop computes takes no time, a fetch takes up to MaxFetch slots.        *)
EXTENDS Heartbeat, FiniteSets

CONSTANTS
    Sender,      \* everybody who sends to the multicast port
    Observer,    \* the node whose receive loop is modelled
    Stranger,    \* nodes of other groups, and programs of another kind
    Foreign,     \* the datagrams they send
    NodeID,      \* NodeID[n], Ip[n], ServicePort[n], GroupName[n] of a node
    Ip,
    ServicePort,
    GroupName,
    Period,      \* 10 in the code: slots between two heartbeats
    Timeout,     \* 2 in the code: seconds of silence that are tolerated
    MaxFetch,    \* bound: slots a fetch takes
    FirstInfoID, \* registrations made before the observer starts
    MaxInfoID,   \* bound: registrations of a node
    Capacity     \* datagrams the socket buffer holds

ASSUME SenderAssumption ==
    IsFiniteSet(Sender) /\ Observer \in Sender \ Stranger /\ Stranger \subseteq Sender
ASSUME IdAssumption ==
    \A n, m \in Sender \ Stranger : n # m => NodeID[n] # NodeID[m] /\ <<Ip[n], ServicePort[n]>> # <<Ip[m], ServicePort[m]>>
ASSUME TimeAssumption ==
    {Period, Timeout} \subseteq Nat \ {0} /\ {MaxFetch, FirstInfoID, MaxInfoID, Capacity} \subseteq Nat
ASSUME NodeAssumption ==
    \A n \in Sender \ Stranger :
        /\ NodeID[n] \in Seq(Byte) /\ Len(NodeID[n]) = IdLen
        /\ GroupName[n] \in Seq(Byte) /\ ServicePort[n] \in Int32
ASSUME IntegerAssumption ==
    FirstInfoID <= MaxInfoID /\ {0, 1} \cup {ToSigned(id) : id \in 0 .. MaxInfoID} \subseteq Int32

Peer == Sender \ (Stranger \cup {Observer})

\* The slots after which a silent node is removed: more than Timeout whole
\* seconds.
Limit == (Timeout + 1) * Period

VARIABLES
    timer,            \* slots until the next heartbeat of each sender
    infoID,           \* localNodeInfo_.infoID of each sender
    buffer,           \* datagrams in the observer's socket buffer
    lost,             \* the socket buffer has overflowed
    ready,            \* the receive loop has slept its 100 ms
    fetching,         \* the peer whose NodeInfo it waits for
    left,             \* the slots it still waits
    nodes_info_id,    \* nodes_info_id_ of the observer, by peer
    nodes_heartbeat,  \* slots since the last heartbeat, by peer, capped
    accepted,         \* the heartbeat processed last in this slot, and its source
    uptime            \* slots since the start, capped

vars == <<timer, infoID, buffer, lost, ready, fetching, left, nodes_info_id, nodes_heartbeat,
          accepted, uptime>>

\* createHeartbeat.
Heartbeat(n, id) ==
    [zlc_version |-> <<0, 1, 0>>, node_id |-> NodeID[n], info_id |-> ToSigned(id),
     service_port |-> ServicePort[n], group_name |-> GroupName[n]]

ASSUME NoMessageAssumption ==
    /\ NoMessage \notin Nat \cup Sender
    /\ \A n \in Sender \ Stranger, id \in 0 .. MaxInfoID : Heartbeat(n, id) # NoMessage

\* A slip: the interval of the task is halved.
SendHeartbeatTwice(n) ==
    /\ timer[n] = 0
    /\ timer' = [timer EXCEPT ![n] = (Period + 1) \div 2]
    /\ \E data \in IF n \in Stranger THEN Foreign ELSE {Encode(Heartbeat(n, infoID[n]))} :
          buffer' = IF Len(buffer) < Capacity THEN Append(buffer, [ip |-> Ip[n], data |-> data]) ELSE buffer
    /\ lost' = (lost \/ Len(buffer) >= Capacity)
    /\ UNCHANGED <<infoID, ready, fetching, left, nodes_info_id, nodes_heartbeat, accepted, uptime>>

\* The task of MulticastSender; a full socket buffer drops the datagram.
SendHeartbeat(n) ==
    /\ timer[n] = 0
    /\ timer' = [timer EXCEPT ![n] = Period]
    /\ \E data \in IF n \in Stranger THEN Foreign ELSE {Encode(Heartbeat(n, infoID[n]))} :
          buffer' = IF Len(buffer) < Capacity THEN Append(buffer, [ip |-> Ip[n], data |-> data]) ELSE buffer
    /\ lost' = (lost \/ Len(buffer) >= Capacity)
    /\ UNCHANGED <<infoID, ready, fetching, left, nodes_info_id, nodes_heartbeat, accepted, uptime>>

\* registerLocalTopic, registerLocalService.  (Bound: only when it is seen next,
\* by a heartbeat or a fetch; an earlier moment makes no difference.)
Register(n) ==
    /\ infoID[n] < MaxInfoID
    /\ timer[n] = 0 \/ (fetching = n /\ left = 0)
    /\ infoID' = [infoID EXCEPT ![n] = @ + 1]
    /\ UNCHANGED <<timer, buffer, lost, ready, fetching, left, nodes_info_id, nodes_heartbeat, accepted, uptime>>

\* The filters of the receive loop.
Accepts(ip, msg) ==
    /\ IsInSameSubnet(Ip[Observer], ip)
    /\ msg # NoMessage
    /\ msg.group_name = GroupName[Observer]
    /\ msg.node_id # NodeID[Observer]

\* The filters let none of the strangers' datagrams through.
ForeignIgnored == \A n \in Stranger, data \in Foreign : ~Accepts(Ip[n], Decode(CutOff(data)))

\* recvfrom() returns something that is not for this node.
Ignore ==
    /\ ready /\ fetching = NoMessage /\ buffer # <<>>
    /\ ~Accepts(Head(buffer).ip, Decode(CutOff(Head(buffer).data)))
    /\ buffer' = Tail(buffer)
    /\ ready' = FALSE
    /\ UNCHANGED <<timer, infoID, lost, fetching, left, nodes_info_id, nodes_heartbeat, accepted, uptime>>

\* A slip: a node is removed as soon as it was silent for a whole second.
RemoveExpiredEarly(times) ==
    [n \in Peer |-> IF times[n] # NoMessage /\ times[n] \div Period >= 1 THEN NoMessage ELSE times[n]]

\* checkHeartbeats: duration_cast<seconds>, duration > 2.
RemoveExpired(times) ==
    [n \in Peer |-> IF times[n] # NoMessage /\ times[n] \div Period > Timeout THEN NoMessage ELSE times[n]]

\* The node is erased from nodes_info_id_, too.
KeepHeard(ids, times) == [n \in Peer |-> IF times[n] = NoMessage THEN NoMessage ELSE ids[n]]

\* processHeartbeat up to the fetch; checkHeartbeats if there is none.
Process(msg, ip) ==
    \E n \in Peer :
        /\ NodeID[n] = msg.node_id
        /\ accepted' = [ip |-> ip, msg |-> msg]
        /\ \/ /\ nodes_info_id[n] # ToUnsigned(msg.info_id)
              /\ fetching' = n
              /\ left' \in 0 .. MaxFetch
              /\ nodes_heartbeat' = [nodes_heartbeat EXCEPT ![n] = 0]
           \/ /\ nodes_info_id[n] = ToUnsigned(msg.info_id)
              /\ nodes_heartbeat' = RemoveExpired([nodes_heartbeat EXCEPT ![n] = 0])
              /\ UNCHANGED <<fetching, left>>
        /\ nodes_info_id' = KeepHeard(nodes_info_id, nodes_heartbeat')

Receive ==
    /\ ready /\ fetching = NoMessage /\ buffer # <<>>
    /\ Accepts(Head(buffer).ip, Decode(CutOff(Head(buffer).data)))
    /\ Process(Decode(CutOff(Head(buffer).data)), Head(buffer).ip)
    /\ buffer' = Tail(buffer)
    /\ ready' = FALSE
    /\ UNCHANGED <<timer, infoID, lost, uptime>>

\* The node answers get_node_info: updateNodeUnlocked, then checkHeartbeats.
\* (Discovery has the fetches that fail.)
EndFetch ==
    /\ fetching # NoMessage /\ left = 0
    /\ nodes_heartbeat' = RemoveExpired([nodes_heartbeat EXCEPT ![fetching] = 0])
    /\ nodes_info_id' = KeepHeard([nodes_info_id EXCEPT ![fetching] = infoID[fetching]], nodes_heartbeat')
    /\ fetching' = NoMessage
    /\ UNCHANGED <<timer, infoID, buffer, lost, ready, left, accepted, uptime>>

\* 100 ms pass, when everybody has done what is due.
Tick ==
    /\ \A n \in Sender : timer[n] > 0
    /\ \/ fetching # NoMessage /\ left > 0
       \/ fetching = NoMessage /\ (~ready \/ buffer = <<>>)
    /\ timer' = [n \in Sender |-> timer[n] - 1]
    /\ nodes_heartbeat' = [n \in Peer |->
           IF nodes_heartbeat[n] # NoMessage /\ nodes_heartbeat[n] < Limit
           THEN nodes_heartbeat[n] + 1 ELSE nodes_heartbeat[n]]
    /\ left' = IF fetching # NoMessage THEN left - 1 ELSE left
    /\ ready' = (fetching = NoMessage)
    /\ accepted' = NoMessage
    /\ uptime' = IF uptime < Limit THEN uptime + 1 ELSE uptime
    /\ UNCHANGED <<infoID, buffer, lost, fetching, nodes_info_id>>

\* The observer starts its sender, then its receive loop; the others run.
Init ==
    /\ timer \in {f \in [Sender -> 0 .. (Period - 1)] : f[Observer] = 0}
    /\ infoID = [n \in Sender |-> FirstInfoID]
    /\ buffer = <<>>
    /\ lost = FALSE
    /\ ready = TRUE
    /\ fetching = NoMessage
    /\ left = 0
    /\ nodes_info_id = [n \in Peer |-> NoMessage]
    /\ nodes_heartbeat = [n \in Peer |-> NoMessage]
    /\ accepted = NoMessage
    /\ uptime = 0

Next ==
    \/ \E n \in Sender : SendHeartbeat(n)
    \/ \E n \in Peer : Register(n)
    \/ Ignore \/ Receive \/ EndFetch \/ Tick

Spec == Init /\ [][Next]_vars

-----------------------------------------------------------------------------
(* Properties.                                                               *)

\* A heartbeat that passes the filters is, field by field and sign by sign,
\* one that a node of the own group and subnet sent from that address.
AcceptedIsSent ==
    accepted # NoMessage =>
        \E n \in Peer : \E id \in 0 .. infoID[n] :
            /\ accepted.msg = Heartbeat(n, id)
            /\ accepted.ip = Ip[n]
            /\ GroupName[n] = GroupName[Observer]
            /\ IsInSameSubnet(Ip[n], Ip[Observer])

\* The group name survives the receive buffer.
NameFits(n) == FixedSize + Len(GroupName[n]) <= BufferSize

Companion == {n \in Peer : /\ GroupName[n] = GroupName[Observer] /\ NameFits(n)
                           /\ IsInSameSubnet(Ip[n], Ip[Observer])}

\* The slots that reading one datagram of every node in S takes at most: one
\* each, and a fetch for each of the peers.
Load(S) == Cardinality(S) + MaxFetch * Cardinality(S \cap Peer)

\* What all send in a second can be read in a second, even if every heartbeat
\* makes the loop fetch, and the socket buffer has room for one datagram of each.
Schedulable == Load(Sender) <= Period /\ Cardinality(Sender) <= Capacity

\* The receive loop keeps up: no heartbeat is dropped although it reads one
\* datagram per round, strangers' and its own among them.
NothingDropped == ~lost

\* No running node is taken for dead: every node of the group whose name fits
\* is heard within the time after which silence counts as death, and again and
\* again within that time, so that checkHeartbeats never removes it, although
\* other heartbeats and fetches delay the reading of its own.
HeardInTime ==
    uptime = Limit =>
        \A n \in Companion : nodes_heartbeat[n] # NoMessage /\ nodes_heartbeat[n] < Limit
=============================================================================
