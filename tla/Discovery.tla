----------------------------- MODULE Discovery ------------------------------
(* Node discovery: the registry of every NodeInfoManager, the heartbeats of  *)
(* MulticastSender, the receive loop of MulticastReceiver with its fetch of  *)
(* a peer's NodeInfo over get_node_info, and the SubscriberManager that      *)
(* connects sockets on the registry's update and remove events.              *)
(*                                                                           *)
(* The receive loop of a node is one pool thread; pc names the point it has  *)
(* reached between two acquisitions of data_mutex_.  Application threads     *)
(* register topics, services and subscribers meanwhile.                      *)
EXTENDS NodeInfo

CONSTANTS
    Observer,        \* the nodes whose receive loop gets datagrams
    Crashable,       \* the nodes that may crash
    GroupName,       \* GroupName[n]: the group the node was started with
    Subnet,          \* Subnet[n]: the /24 prefix of the node's IP address
    Timeout,         \* 2 in the code: seconds of silence that are tolerated
    MaxRegistrations,\* bound: MaxRegistrations[n] topics and services n registers
    MaxSubscribers   \* bound: subscribers one node registers

ASSUME ObserverAssumption == Observer \subseteq Node /\ Crashable \subseteq Node
ASSUME TimeoutAssumption == Timeout \in Nat
ASSUME RegistrationBoundAssumption == MaxRegistrations \in [Node -> 0 .. MaxInfoID]
ASSUME SubscriberBoundAssumption == MaxSubscribers \in Nat

VARIABLES
    phase,            \* the process of each node: "unborn", "up" or "dead"
    localNodeInfo,    \* localNodeInfo_ of each node
    net,              \* heartbeat datagrams on their way
    nodes_info,       \* nodes_info_ of each node: a NodeInfo or Absent for each peer
    nodes_info_id,    \* nodes_info_id_ of each node
    nodes_heartbeat,  \* nodes_heartbeat_: whole seconds since the last heartbeat, capped
    pc,               \* where the receive loop is
    peer,             \* heartbeat.node_id of the heartbeat being processed
    fetched,          \* nodeInfoOpt of processHeartbeat
    registering,      \* the Subscriber _registerTopicSubscriber builds under mutex_
    subscribers       \* subscribers_ of each node

managerVars == <<nodes_info, nodes_info_id, nodes_heartbeat>>
loopVars    == <<pc, peer, fetched>>
subVars     == <<registering, subscribers>>
vars == <<phase, localNodeInfo, net, managerVars, loopVars, subVars>>

Phase == {"unborn", "up", "dead"}
PC == {"recv", "fetch", "update", "trigger", "check"}
Age == 0 .. (Timeout + 1)
Datagram == [to : Observer, node_id : Node, info_id : Int32]

\* A slip: heartbeats of other groups are accepted.
AcceptsAnyGroup(n, p) == Subnet[n] = Subnet[p] /\ p # n

\* The filters of the receive loop: same subnet, same group, not the node itself.
Accepts(n, p) == Subnet[n] = Subnet[p] /\ GroupName[n] = GroupName[p] /\ p # n

Known(n, p) == nodes_info[n][p] # Absent

\* The datagrams a sendto() to the multicast group puts on the network: one
\* for each socket that is a member, the sender's own included.
Heartbeats(n) ==
    {[to |-> m, node_id |-> n, info_id |-> AsInt32(localNodeInfo[n].infoID)] :
        m \in {o \in Observer : phase[o] = "up"}}

\* A slip: only unknown nodes are fetched.
NeedsFetchNewOnly(n, d) == ~Known(n, d.node_id)

\* processHeartbeat: an unknown node, or a known one with another infoID.
NeedsFetch(n, d) ==
    ~Known(n, d.node_id) \/ nodes_info_id[n][d.node_id] # AsUint32(d.info_id)

\* A slip: the entries of unknown nodes only are collected.
ExpiredUnknown(n) ==
    {p \in Node : ~Known(n, p) /\ nodes_heartbeat[n][p] # Absent /\ nodes_heartbeat[n][p] > Timeout}

\* checkHeartbeats: duration > 2, in whole seconds.
Expired(n) ==
    {p \in Node : nodes_heartbeat[n][p] # Absent /\ nodes_heartbeat[n][p] > Timeout}

Erase(map, keys) == [p \in Node |-> IF p \in keys THEN Absent ELSE map[p]]

\* findTopicURLs over getPublisherInfo: remote publishers, then the local ones.
FindTopicURLs(n, t) ==
    AllTopicURLs({nodes_info[n][p] : p \in {q \in Node : Known(n, q)}}, t)
        \cup TopicURLs(localNodeInfo[n], t)

-----------------------------------------------------------------------------
(* Processes.                                                                *)

\* ZeroLanComNode's constructor, up to the four loops running.
Start(n) ==
    /\ phase[n] = "unborn"
    /\ phase' = [phase EXCEPT ![n] = "up"]
    /\ UNCHANGED <<localNodeInfo, net, managerVars, loopVars, subVars>>

\* The process disappears: no leave message is sent, nothing is answered.
Crash(n) ==
    /\ n \in Crashable
    /\ phase[n] = "up"
    /\ phase' = [phase EXCEPT ![n] = "dead"]
    /\ UNCHANGED <<localNodeInfo, net, managerVars, loopVars, subVars>>

-----------------------------------------------------------------------------
(* Application threads.                                                      *)

\* A slip: the topic is listed but infoID is not incremented.
RegisterLocalTopicSilently(n, t) ==
    /\ phase[n] = "up"
    /\ Len(localNodeInfo[n].topics) < MaxRegistrations[n]
    /\ localNodeInfo' = [localNodeInfo EXCEPT
           ![n] = [WithTopic(@, t) EXCEPT !.infoID = @ - 1]]
    /\ UNCHANGED <<phase, net, managerVars, loopVars, subVars>>

\* Publisher's constructor.
RegisterLocalTopic(n, t) ==
    /\ phase[n] = "up"
    /\ localNodeInfo[n].infoID < MaxRegistrations[n]
    /\ localNodeInfo' = [localNodeInfo EXCEPT ![n] = WithTopic(@, t)]
    /\ UNCHANGED <<phase, net, managerVars, loopVars, subVars>>

\* registerServiceHandler.
RegisterLocalService(n, s) ==
    /\ phase[n] = "up"
    /\ localNodeInfo[n].infoID < MaxRegistrations[n]
    /\ localNodeInfo' = [localNodeInfo EXCEPT ![n] = WithService(@, s)]
    /\ UNCHANGED <<phase, net, managerVars, loopVars, subVars>>

\* _registerTopicSubscriber takes mutex_ and connects to what the registry lists.
\* (Bound: subscribers of nodes that receive datagrams.)
BeginRegisterSubscriber(n, t) ==
    /\ phase[n] = "up" /\ n \in Observer
    /\ registering[n] = Absent
    /\ Len(subscribers[n]) < MaxSubscribers
    /\ registering' = [registering EXCEPT
           ![n] = [topicName |-> t, publisherURLs |-> FindTopicURLs(n, t)]]
    /\ UNCHANGED <<phase, localNodeInfo, net, managerVars, loopVars, subscribers>>

\* It appends the subscriber and releases mutex_.
EndRegisterSubscriber(n) ==
    /\ phase[n] = "up"
    /\ registering[n] # Absent
    /\ subscribers' = [subscribers EXCEPT ![n] = Append(@, registering[n])]
    /\ registering' = [registering EXCEPT ![n] = Absent]
    /\ UNCHANGED <<phase, localNodeInfo, net, managerVars, loopVars>>

-----------------------------------------------------------------------------
(* The network and the clock.                                                *)

\* The sender's periodic task: createHeartbeat, encode, sendto.
SendHeartbeat(n) ==
    /\ phase[n] = "up"
    /\ net' = net \cup Heartbeats(n)
    /\ UNCHANGED <<phase, localNodeInfo, managerVars, loopVars, subVars>>

\* UDP loses datagrams; a full socket buffer drops them too.
LoseHeartbeat ==
    /\ \E d \in net : net' = net \ {d}
    /\ UNCHANGED <<phase, localNodeInfo, managerVars, loopVars, subVars>>

\* A second passes on the steady clocks.  The delay of a step is not bounded.
Tick ==
    /\ nodes_heartbeat' = [n \in Node |-> [p \in Node |->
           IF nodes_heartbeat[n][p] # Absent /\ nodes_heartbeat[n][p] <= Timeout
           THEN nodes_heartbeat[n][p] + 1 ELSE nodes_heartbeat[n][p]]]
    /\ nodes_heartbeat' # nodes_heartbeat
    /\ UNCHANGED <<phase, localNodeInfo, net, nodes_info, nodes_info_id, loopVars, subVars>>

-----------------------------------------------------------------------------
(* The receive loop.                                                         *)

\* recvfrom returns a datagram that a filter rejects: the callback returns.
IgnoreHeartbeat(n, d) ==
    /\ phase[n] = "up" /\ pc[n] = "recv"
    /\ d \in net /\ d.to = n
    /\ ~Accepts(n, d.node_id)
    /\ net' = net \ {d}
    /\ UNCHANGED <<phase, localNodeInfo, managerVars, loopVars, subVars>>

\* recvfrom returns an accepted heartbeat: the first critical section of
\* processHeartbeat.
ReceiveHeartbeat(n, d) ==
    /\ phase[n] = "up" /\ pc[n] = "recv"
    /\ d \in net /\ d.to = n
    /\ Accepts(n, d.node_id)
    /\ net' = net \ {d}
    /\ nodes_heartbeat' = [nodes_heartbeat EXCEPT ![n][d.node_id] = 0]
    /\ \/ /\ NeedsFetch(n, d)
          /\ pc' = [pc EXCEPT ![n] = "fetch"]
          /\ peer' = [peer EXCEPT ![n] = d.node_id]
       \/ /\ ~NeedsFetch(n, d)
          /\ pc' = [pc EXCEPT ![n] = "check"]
          /\ peer' = peer
    /\ UNCHANGED <<phase, localNodeInfo, nodes_info, nodes_info_id, fetched, subVars>>

\* The peer's service loop answers get_node_info with getLocalNodeInfo().  The
\* request has no timeout: a peer that is not up never answers.
FetchReply(n) ==
    /\ phase[n] = "up" /\ pc[n] = "fetch"
    /\ phase[peer[n]] = "up"
    /\ fetched' = [fetched EXCEPT ![n] = localNodeInfo[peer[n]]]
    /\ pc' = [pc EXCEPT ![n] = "update"]
    /\ UNCHANGED <<phase, localNodeInfo, net, managerVars, peer, subVars>>

\* fetchNodeInfo catches an exception (no socket, an interrupted recv, a reply
\* that does not decode) and returns nullopt.
FetchFail(n) ==
    /\ phase[n] = "up" /\ pc[n] = "fetch"
    /\ pc' = [pc EXCEPT ![n] = "check"]
    /\ peer' = [peer EXCEPT ![n] = Absent]
    /\ UNCHANGED <<phase, localNodeInfo, net, managerVars, fetched, subVars>>

\* A slip: the id of the heartbeat's version is not taken from the reply.
UpdateNodeKeepingID(n) ==
    /\ phase[n] = "up" /\ pc[n] = "update"
    /\ nodes_info' = [nodes_info EXCEPT ![n][peer[n]] = fetched[n]]
    /\ nodes_info_id' = [nodes_info_id EXCEPT
           ![n][peer[n]] = IF @ = Absent THEN fetched[n].infoID ELSE @]
    /\ nodes_heartbeat' = [nodes_heartbeat EXCEPT ![n][peer[n]] = 0]
    /\ pc' = [pc EXCEPT ![n] = "trigger"]
    /\ UNCHANGED <<phase, localNodeInfo, net, peer, fetched, subVars>>

\* The second critical section of processHeartbeat: updateNodeUnlocked.
UpdateNode(n) ==
    /\ phase[n] = "up" /\ pc[n] = "update"
    /\ nodes_info' = [nodes_info EXCEPT ![n][peer[n]] = fetched[n]]
    /\ nodes_info_id' = [nodes_info_id EXCEPT ![n][peer[n]] = fetched[n].infoID]
    /\ nodes_heartbeat' = [nodes_heartbeat EXCEPT ![n][peer[n]] = 0]
    /\ pc' = [pc EXCEPT ![n] = "trigger"]
    /\ UNCHANGED <<phase, localNodeInfo, net, peer, fetched, subVars>>

\* A slip: the subscribers are updated without mutex_.
TriggerUpdateUnlocked(n) ==
    /\ phase[n] = "up" /\ pc[n] = "trigger"
    /\ subscribers' = [subscribers EXCEPT ![n] = UpdateTopicSubscriber(@, fetched[n])]
    /\ pc' = [pc EXCEPT ![n] = "check"]
    /\ peer' = [peer EXCEPT ![n] = Absent]
    /\ fetched' = [fetched EXCEPT ![n] = Absent]
    /\ UNCHANGED <<phase, localNodeInfo, net, managerVars, registering>>

\* node_update_event: updateTopicSubscriber under mutex_, with data_mutex_ free.
TriggerUpdate(n) ==
    /\ phase[n] = "up" /\ pc[n] = "trigger"
    /\ registering[n] = Absent
    /\ subscribers' = [subscribers EXCEPT ![n] = UpdateTopicSubscriber(@, fetched[n])]
    /\ pc' = [pc EXCEPT ![n] = "check"]
    /\ peer' = [peer EXCEPT ![n] = Absent]
    /\ fetched' = [fetched EXCEPT ![n] = Absent]
    /\ UNCHANGED <<phase, localNodeInfo, net, managerVars, registering>>

\* checkHeartbeats: expired entries leave the three maps, and node_remove_event
\* (removeTopicSubscriber, under mutex_) disconnects what they had published.
\* An entry without NodeInfo (its fetch failed) triggers the event with an
\* empty one.
CheckHeartbeats(n) ==
    /\ phase[n] = "up" /\ pc[n] = "check"
    /\ Expired(n) # {} => registering[n] = Absent
    /\ subscribers' = [subscribers EXCEPT ![n] =
           RemoveTopicSubscriber(@, {nodes_info[n][p] : p \in {q \in Expired(n) : Known(n, q)}})]
    /\ nodes_info' = [nodes_info EXCEPT ![n] = Erase(@, Expired(n))]
    /\ nodes_info_id' = [nodes_info_id EXCEPT ![n] = Erase(@, Expired(n))]
    /\ nodes_heartbeat' = [nodes_heartbeat EXCEPT ![n] = Erase(@, Expired(n))]
    /\ pc' = [pc EXCEPT ![n] = "recv"]
    /\ UNCHANGED <<phase, localNodeInfo, net, peer, fetched, registering>>

-----------------------------------------------------------------------------
Init ==
    /\ phase = [n \in Node |-> "unborn"]
    /\ localNodeInfo = [n \in Node |-> NewNodeInfo(n)]
    /\ net = {}
    /\ nodes_info = [n \in Node |-> [p \in Node |-> Absent]]
    /\ nodes_info_id = [n \in Node |-> [p \in Node |-> Absent]]
    /\ nodes_heartbeat = [n \in Node |-> [p \in Node |-> Absent]]
    /\ pc = [n \in Node |-> "recv"]
    /\ peer = [n \in Node |-> Absent]
    /\ fetched = [n \in Node |-> Absent]
    /\ registering = [n \in Node |-> Absent]
    /\ subscribers = [n \in Node |-> <<>>]

\* recvfrom returns a datagram of p to n.
ReceiveFrom(n, p) ==
    \E d \in net : d.node_id = p /\ (ReceiveHeartbeat(n, d) \/ IgnoreHeartbeat(n, d))

Next ==
    \/ LoseHeartbeat
    \/ Tick
    \/ \E n \in Node :
          \/ Start(n) \/ Crash(n) \/ SendHeartbeat(n)
          \/ \E t \in Topic : RegisterLocalTopic(n, t) \/ BeginRegisterSubscriber(n, t)
          \/ \E s \in Service : RegisterLocalService(n, s)
          \/ EndRegisterSubscriber(n)
          \/ \E d \in net : IgnoreHeartbeat(n, d) \/ ReceiveHeartbeat(n, d)
          \/ FetchReply(n) \/ FetchFail(n) \/ UpdateNode(n) \/ TriggerUpdate(n)
          \/ CheckHeartbeats(n)

Spec == Init /\ [][Next]_vars

\* The threads of a running node keep running, and so does the clock.  A loop
\* that is in recvfrom() again and again, and to which heartbeats of a peer come
\* again and again, receives one of them again and again, though any of them
\* may be lost while the loop is busy with another peer's.  A fetch that is
\* tried again and again from a running node succeeds at last.  Nothing is fair
\* about starting, crashing, registering, losing or failing.
Fairness ==
    /\ WF_vars(Tick)
    /\ \A n \in Observer :
          /\ WF_vars(EndRegisterSubscriber(n))
          /\ WF_vars(UpdateNode(n) \/ TriggerUpdate(n) \/ CheckHeartbeats(n))
          /\ \A p \in {q \in Node : Accepts(n, q)} :
                /\ WF_vars(SendHeartbeat(p))
                /\ SF_vars(peer[n] = p /\ FetchReply(n))
                /\ ([]<>(phase[n] = "up" /\ pc[n] = "recv") /\ []<>(\E d \in net : d.to = n /\ d.node_id = p))
                      => []<><<ReceiveFrom(n, p)>>_vars

FairSpec == Spec /\ Fairness

-----------------------------------------------------------------------------
(* Safety.                                                                   *)

\* Every variable has the type its declaration in the code gives it.
TypeOK ==
    /\ phase \in [Node -> Phase]
    /\ localNodeInfo \in [Node -> NodeInfo]
    /\ net \subseteq Datagram
    /\ nodes_info \in [Node -> [Node -> NodeInfo \cup {Absent}]]
    /\ nodes_info_id \in [Node -> [Node -> Uint32 \cup {Absent}]]
    /\ nodes_heartbeat \in [Node -> [Node -> Age \cup {Absent}]]
    /\ pc \in [Node -> PC]
    /\ peer \in [Node -> Node \cup {Absent}]
    /\ fetched \in [Node -> NodeInfo \cup {Absent}]
    /\ registering \in [Node -> Subscriber \cup {Absent}]
    /\ subscribers \in [Node -> Seq(Subscriber)]

\* The three maps of NodeInfoManager agree: an id is cached exactly for the
\* nodes whose info is cached, it is that info's id, and every cached node has
\* a heartbeat time, without which checkHeartbeats could never remove it.
RegistryConsistent ==
    \A n, p \in Node :
        /\ Known(n, p) <=> nodes_info_id[n][p] # Absent
        /\ Known(n, p) => nodes_info_id[n][p] = nodes_info[n][p].infoID
        /\ Known(n, p) => nodes_heartbeat[n][p] # Absent

\* The cache is coherent: when processHeartbeat finds that the cached id is the
\* one a peer announces now, and therefore does not fetch, the cached info is
\* what the peer would have answered.
NoFetchMeansCurrent ==
    \A n, p \in Node :
        (Known(n, p) /\ nodes_info_id[n][p] = AsUint32(AsInt32(localNodeInfo[p].infoID)))
            => nodes_info[n][p] = localNodeInfo[p]

\* A registry only holds nodes of the own group and subnet, under their own
\* id, in a version that the node really had.
RegistryJustified ==
    \A n, p \in Node :
        Known(n, p) =>
            /\ Subnet[n] = Subnet[p] /\ GroupName[n] = GroupName[p] /\ p # n
            /\ Older(nodes_info[n][p], localNodeInfo[p])

\* Subscribers are connected to every publisher of their topic that the
\* registry lists, from the moment the update event has been handled, also
\* those that were being registered while the registry changed.
SubscribersFollowRegistry ==
    \A n, p \in Node :
        (Known(n, p) /\ ~(pc[n] = "trigger" /\ peer[n] = p)) =>
            \A i \in 1 .. Len(subscribers[n]) :
                TopicURLs(nodes_info[n][p], subscribers[n][i].topicName)
                    \subseteq subscribers[n][i].publisherURLs

\* Nobody stays connected to a publisher that neither the registry nor the
\* node itself lists: eviction disconnects all that the evicted node had.
NoGhostConnections ==
    \A n \in Node : \A i \in 1 .. Len(subscribers[n]) :
        subscribers[n][i].publisherURLs \subseteq FindTopicURLs(n, subscribers[n][i].topicName)

\* Discovery implements the directory: what a node publishes about itself
\* only grows, and the registry of another node takes over published versions
\* in order.
D == INSTANCE Directory WITH
         published <- localNodeInfo,
         view <- nodes_info,
         Permitted <- {r \in Node \X Node : Accepts(r[1], r[2])}
ImplementsDirectory == D!Spec

-----------------------------------------------------------------------------
(* Liveness.                                                                 *)

BothUp(n, p) == phase[n] = "up" /\ phase[p] = "up"

\* The receive loop waits for the answer of a process that has died.
Stalled(n) == pc[n] = "fetch" /\ phase[peer[n]] = "dead"

Learnt(n, p, k) == Known(n, p) /\ nodes_info[n][p].infoID >= k

\* What a running node registers reaches the registry of every running node
\* of its group, unless one of the two stops running or the receive loop waits
\* for the answer of a dead peer.
RegistrationsSpread ==
    \A n \in Observer, p \in Node, k \in 0 .. MaxInfoID :
        Accepts(n, p) =>
            ((BothUp(n, p) /\ localNodeInfo[p].infoID >= k)
                ~> (~BothUp(n, p) \/ Learnt(n, p, k) \/ Stalled(n)))

\* The same without the exception: running nodes learn of each other whoever
\* else dies.
RunningNodesSpread ==
    \A n \in Observer, p \in Node, k \in 0 .. MaxInfoID :
        Accepts(n, p) =>
            ((BothUp(n, p) /\ localNodeInfo[p].infoID >= k)
                ~> (~BothUp(n, p) \/ Learnt(n, p, k)))

Connected(n, i, u) == i <= Len(subscribers[n]) /\ u \in subscribers[n][i].publisherURLs

Wants(n, i, p, u) ==
    /\ i <= Len(subscribers[n])
    /\ u \in TopicURLs(localNodeInfo[p], subscribers[n][i].topicName)

\* A subscriber is at some time connected to every publisher of its topic on
\* another running node of its group, whichever of the two came first, unless
\* the receive loop waits for the answer of a dead peer.
SubscribersConnect ==
    \A n \in Observer, p \in Node, i \in 1 .. MaxSubscribers, k \in 1 .. MaxInfoID :
        Accepts(n, p) =>
            ((BothUp(n, p) /\ Wants(n, i, p, <<p, k>>))
                ~> (~BothUp(n, p) \/ Connected(n, i, <<p, k>>) \/ Stalled(n)))

\* A node that died leaves the registry and the subscribers of a node that
\* still hears of some other node, unless that node waits for the answer of a
\* dead peer.
DeadAreForgotten ==
    \A n \in Observer, p, q \in Node :
        (q # p /\ Accepts(n, q)) =>
            ((phase[p] = "dead" /\ BothUp(n, q))
                ~> (~BothUp(n, q) \/ ~Known(n, p) \/ Stalled(n)))
=============================================================================
