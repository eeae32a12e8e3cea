------------------------------ MODULE NodeInfo ------------------------------
(* The data that nodes exchange: the NodeInfo record a node keeps about      *)
(* itself and serves to its peers, and the list of subscribers that follows  *)
(* it.  Sources: include/zerolancom/nodes/node_info.hpp, the local part of   *)
(* src/nodes/node_info_manager.cpp and src/sockets/subscriber_manager.cpp.   *)
(*                                                                           *)
(* A node's UUID, name and IP address never change while it runs and are     *)
(* abstracted to one identity, a member of Node.  A restarted process draws  *)
(* a new UUID, so it is another member of Node.                              *)
EXTENDS Integers, Sequences

CONSTANTS
    Node,       \* node identities, one for each start of a process
    Topic,      \* topic names
    Service,    \* service names
    Absent,     \* "no such key" in a map, "no value" in an optional
    Half,       \* 2^31 in the code: infoID is a uint32_t, info_id an int32_t
    MaxInfoID   \* bound: registrations one node makes

ASSUME WidthAssumption == Half \in Nat \ {0}
ASSUME BoundAssumption == MaxInfoID \in Nat /\ MaxInfoID < 2 * Half

Uint32 == 0 .. (2 * Half - 1)
Int32  == (-Half) .. (Half - 1)

\* A slip: the unsigned value is put into the signed field without a cast.
AsInt32NoCast(u) == u

\* static_cast<int32_t>(uint32_t) of createHeartbeat and the cast back in
\* processHeartbeat: two's complement.
AsInt32(u)  == IF u < Half THEN u ELSE u - 2 * Half
AsUint32(i) == IF i < 0 THEN i + 2 * Half ELSE i

\* ++infoID on a uint32_t.
Increment(u) == IF u = 2 * Half - 1 THEN 0 ELSE u + 1

-----------------------------------------------------------------------------
(* NodeInfo and its versions.                                                *)

SocketInfo == [name : Topic \cup Service, ip : Node, port : Nat]

NodeInfo == [nodeID   : Node,
             infoID   : Uint32,
             topics   : Seq(SocketInfo),
             services : Seq(SocketInfo)]

\* find() == end() and nullopt are told apart from every value.
ASSUME AbsentAssumption ==
    Absent \notin Node /\ Absent \notin Int /\ Absent \notin NodeInfo

NewNodeInfo(n) == [nodeID |-> n, infoID |-> 0, topics |-> <<>>, services |-> <<>>]

\* The service port is bound once per node; every publisher binds an ephemeral
\* port of its own, for which the count of registrations so far stands.
ServicePort == 0
EphemeralPort(info) == Len(info.topics) + 1

WithTopic(info, t) ==
    [nodeID   |-> info.nodeID,
     infoID   |-> Increment(info.infoID),
     topics   |-> Append(info.topics, [name |-> t, ip |-> info.nodeID,
                                       port |-> EphemeralPort(info)]),
     services |-> info.services]

WithService(info, s) ==
    [nodeID   |-> info.nodeID,
     infoID   |-> Increment(info.infoID),
     topics   |-> info.topics,
     services |-> Append(info.services, [name |-> s, ip |-> info.nodeID,
                                         port |-> ServicePort])]

\* s is the beginning of t.
Begins(s, t) == Len(s) <= Len(t) /\ \A i \in 1 .. Len(s) : s[i] = t[i]

\* a is an earlier version of b or b itself: the lists only grow and infoID
\* names the version.
Older(a, b) ==
    /\ a.nodeID = b.nodeID
    /\ a.infoID <= b.infoID
    /\ Begins(a.topics, b.topics)
    /\ Begins(a.services, b.services)
    /\ a.infoID = b.infoID => a = b

-----------------------------------------------------------------------------
(* Publisher URLs and the subscribers connected to them.                     *)

URLs == Node \X Nat

\* fmt::format("tcp://{}:{}", ip, port): one URL for each pair.
URL(socket) == <<socket.ip, socket.port>>

\* The URLs of the publishers of topic t that info lists.
TopicURLs(info, t) ==
    {URL(info.topics[i]) : i \in {j \in 1 .. Len(info.topics) : info.topics[j].name = t}}

Subscriber == [topicName : Topic, publisherURLs : SUBSET URLs]

\* connect() or disconnect() the subscriber's socket: its URLs become urls.
WithURLs(sub, urls) == [topicName |-> sub.topicName, publisherURLs |-> urls]

\* SubscriberManager::updateTopicSubscriber: connect what is not connected.
UpdateTopicSubscriber(subs, info) ==
    [i \in 1 .. Len(subs) |->
        WithURLs(subs[i], subs[i].publisherURLs \cup TopicURLs(info, subs[i].topicName))]

\* The URLs of the publishers of topic t that the members of infos list.
AllTopicURLs(infos, t) == UNION {TopicURLs(info, t) : info \in infos}

\* A slip: the first subscriber of the topic is disconnected, the others are not.
RemoveFirstSubscriber(subs, infos) ==
    [i \in 1 .. Len(subs) |->
        IF \E j \in 1 .. (i - 1) : subs[j].topicName = subs[i].topicName THEN subs[i]
        ELSE WithURLs(subs[i], subs[i].publisherURLs \ AllTopicURLs(infos, subs[i].topicName))]

\* SubscriberManager::removeTopicSubscriber, once for each of infos: disconnect
\* what is connected.
RemoveTopicSubscriber(subs, infos) ==
    [i \in 1 .. Len(subs) |->
        WithURLs(subs[i], subs[i].publisherURLs \ AllTopicURLs(infos, subs[i].topicName))]
=============================================================================
