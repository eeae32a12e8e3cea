-------------------------- MODULE DiscoveryProofs ---------------------------
(* Theorems about Discovery, for every set of nodes, every width of infoID   *)
(* and every bound.                                                          *)
EXTENDS Discovery, TLAPS

-----------------------------------------------------------------------------
(* The operators of NodeInfo.                                                *)

\* A fresh NodeInfo is well typed.
LEMMA NewNodeInfoType ==
    ASSUME NEW n \in Node PROVE NewNodeInfo(n) \in NodeInfo
BY WidthAssumption DEF NewNodeInfo, NodeInfo, Uint32, SocketInfo

\* registerLocalTopic and registerLocalService keep a NodeInfo well typed.
LEMMA WithTopicType ==
    ASSUME NEW info \in NodeInfo, NEW t \in Topic
    PROVE  WithTopic(info, t) \in NodeInfo
<1>1. [name |-> t, ip |-> info.nodeID, port |-> EphemeralPort(info)] \in SocketInfo
  BY DEF NodeInfo, SocketInfo, EphemeralPort
<1>2. Append(info.topics, [name |-> t, ip |-> info.nodeID, port |-> EphemeralPort(info)])
          \in Seq(SocketInfo)
  BY <1>1 DEF NodeInfo
<1>3. Increment(info.infoID) \in Uint32
  BY WidthAssumption DEF NodeInfo, Uint32, Increment
<1> QED
  BY <1>2, <1>3 DEF NodeInfo, WithTopic

\* registerLocalService keeps a NodeInfo well typed.
LEMMA WithServiceType ==
    ASSUME NEW info \in NodeInfo, NEW s \in Service
    PROVE  WithService(info, s) \in NodeInfo
<1>1. [name |-> s, ip |-> info.nodeID, port |-> ServicePort] \in SocketInfo
  BY DEF NodeInfo, SocketInfo, ServicePort
<1>2. Append(info.services, [name |-> s, ip |-> info.nodeID, port |-> ServicePort])
          \in Seq(SocketInfo)
  BY <1>1 DEF NodeInfo
<1>3. Increment(info.infoID) \in Uint32
  BY WidthAssumption DEF NodeInfo, Uint32, Increment
<1> QED
  BY <1>2, <1>3 DEF NodeInfo, WithService

\* createHeartbeat's cast stays within int32_t, and processHeartbeat's undoes it.
LEMMA CastType ==
    ASSUME NEW u \in Uint32 PROVE AsInt32(u) \in Int32 /\ AsUint32(AsInt32(u)) = u
BY WidthAssumption DEF Uint32, Int32, AsInt32, AsUint32

\* The URLs of the publishers a NodeInfo lists are URLs.
LEMMA TopicURLsType ==
    ASSUME NEW info \in NodeInfo, NEW t PROVE TopicURLs(info, t) \subseteq URLs
<1> SUFFICES ASSUME NEW i \in 1 .. Len(info.topics) PROVE URL(info.topics[i]) \in URLs
  BY DEF TopicURLs
<1>1. info.topics[i] \in SocketInfo
  BY DEF NodeInfo
<1> QED
  BY <1>1 DEF SocketInfo, URL, URLs

\* A function on 1 .. n is a sequence of length n.
LEMMA FunctionIsSeq ==
    ASSUME NEW S, NEW n \in Nat, NEW f \in [1 .. n -> S]
    PROVE  f \in Seq(S) /\ Len(f) = n
<1>1. f \in Seq(S)
  OBVIOUS
<1>2. DOMAIN f = 1 .. n
  OBVIOUS
<1> QED
  BY <1>1, <1>2

\* updateTopicSubscriber keeps the list of subscribers and only adds URLs.
LEMMA UpdateTopicSubscriberType ==
    ASSUME NEW subs \in Seq(Subscriber), NEW info \in NodeInfo
    PROVE  /\ UpdateTopicSubscriber(subs, info) \in Seq(Subscriber)
           /\ Len(UpdateTopicSubscriber(subs, info)) = Len(subs)
<1> DEFINE urls(i) == subs[i].publisherURLs \cup TopicURLs(info, subs[i].topicName)
<1>1. ASSUME NEW i \in 1 .. Len(subs) PROVE WithURLs(subs[i], urls(i)) \in Subscriber
  <2>1. subs[i] \in Subscriber
    OBVIOUS
  <2>2. TopicURLs(info, subs[i].topicName) \subseteq URLs
    BY TopicURLsType
  <2> QED
    BY <2>1, <2>2 DEF Subscriber, WithURLs
<1>2. UpdateTopicSubscriber(subs, info) \in [1 .. Len(subs) -> Subscriber]
  BY <1>1 DEF UpdateTopicSubscriber
<1> QED
  BY <1>2, FunctionIsSeq, Len(subs) \in Nat

\* removeTopicSubscriber keeps the list of subscribers and only removes URLs.
LEMMA RemoveTopicSubscriberType ==
    ASSUME NEW subs \in Seq(Subscriber), NEW infos
    PROVE  /\ RemoveTopicSubscriber(subs, infos) \in Seq(Subscriber)
           /\ Len(RemoveTopicSubscriber(subs, infos)) = Len(subs)
<1> DEFINE urls(i) == subs[i].publisherURLs \ AllTopicURLs(infos, subs[i].topicName)
<1>1. ASSUME NEW i \in 1 .. Len(subs) PROVE WithURLs(subs[i], urls(i)) \in Subscriber
  <2>1. subs[i] \in Subscriber
    OBVIOUS
  <2> QED
    BY <2>1 DEF Subscriber, WithURLs
<1>2. RemoveTopicSubscriber(subs, infos) \in [1 .. Len(subs) -> Subscriber]
  BY <1>1 DEF RemoveTopicSubscriber
<1> QED
  BY <1>2, FunctionIsSeq, Len(subs) \in Nat

\* findTopicURLs returns URLs.
LEMMA FindTopicURLsType ==
    ASSUME TypeOK, NEW n \in Node, NEW t
    PROVE  FindTopicURLs(n, t) \subseteq URLs
<1>1. TopicURLs(localNodeInfo[n], t) \subseteq URLs
  BY TopicURLsType DEF TypeOK
<1>2. ASSUME NEW p \in Node, Known(n, p) PROVE TopicURLs(nodes_info[n][p], t) \subseteq URLs
  BY <1>2, TopicURLsType DEF TypeOK, Known
<1> QED
  BY <1>1, <1>2 DEF FindTopicURLs, AllTopicURLs

-----------------------------------------------------------------------------
(* Type correctness.  A reply in hand is part of it: the loop dereferences   *)
(* nodeInfoOpt and uses heartbeat.node_id only where they are set.           *)

InHand ==
    \A n \in Node :
        /\ pc[n] \in {"fetch", "update", "trigger"} => peer[n] \in Node
        /\ pc[n] \in {"update", "trigger"} => fetched[n] \in NodeInfo

TypeInv == TypeOK /\ InHand

\* A network of nodes that have not started is well typed.
LEMMA TypeInit == Init => TypeInv
<1> SUFFICES ASSUME Init PROVE TypeInv
  OBVIOUS
<1>1. localNodeInfo \in [Node -> NodeInfo]
  BY NewNodeInfoType DEF Init
<1> QED
  BY <1>1 DEF Init, TypeInv, TypeOK, InHand, Phase, PC, Datagram, Age

\* Every step of the receive loop, the application and the network keeps types.
LEMMA TypeNext == TypeInv /\ [Next]_vars => TypeInv'
<1> SUFFICES ASSUME TypeInv, [Next]_vars PROVE TypeInv'
  OBVIOUS
<1> USE DEF TypeInv
<1>1. CASE LoseHeartbeat
  BY <1>1 DEF LoseHeartbeat, TypeOK, InHand, managerVars, loopVars, subVars
<1>2. CASE Tick
  <2>1. nodes_heartbeat' \in [Node -> [Node -> Age \cup {Absent}]]
    BY <1>2, TimeoutAssumption, AbsentAssumption DEF Tick, TypeOK, Age
  <2> QED
    BY <1>2, <2>1 DEF Tick, TypeOK, InHand, loopVars, subVars
<1>3. ASSUME NEW n \in Node, Start(n) \/ Crash(n) PROVE TypeInv'
  BY <1>3 DEF Start, Crash, TypeOK, InHand, Phase, managerVars, loopVars, subVars
<1>4. ASSUME NEW n \in Node, SendHeartbeat(n) PROVE TypeInv'
  <2>1. Heartbeats(n) \subseteq Datagram
    BY CastType DEF Heartbeats, Datagram, TypeOK, NodeInfo
  <2> QED
    BY <1>4, <2>1 DEF SendHeartbeat, TypeOK, InHand, managerVars, loopVars, subVars
<1>5. ASSUME NEW n \in Node, NEW t \in Topic, RegisterLocalTopic(n, t) PROVE TypeInv'
  BY <1>5, WithTopicType
     DEF RegisterLocalTopic, TypeOK, InHand, managerVars, loopVars, subVars
<1>6. ASSUME NEW n \in Node, NEW s \in Service, RegisterLocalService(n, s) PROVE TypeInv'
  BY <1>6, WithServiceType
     DEF RegisterLocalService, TypeOK, InHand, managerVars, loopVars, subVars
<1>7. ASSUME NEW n \in Node, NEW t \in Topic, BeginRegisterSubscriber(n, t) PROVE TypeInv'
  <2>1. [topicName |-> t, publisherURLs |-> FindTopicURLs(n, t)] \in Subscriber
    BY FindTopicURLsType DEF Subscriber
  <2> QED
    BY <1>7, <2>1 DEF BeginRegisterSubscriber, TypeOK, InHand, managerVars, loopVars
<1>8. ASSUME NEW n \in Node, EndRegisterSubscriber(n) PROVE TypeInv'
  <2>1. Append(subscribers[n], registering[n]) \in Seq(Subscriber)
    BY <1>8 DEF EndRegisterSubscriber, TypeOK
  <2> QED
    BY <1>8, <2>1 DEF EndRegisterSubscriber, TypeOK, InHand, managerVars, loopVars
<1>9. ASSUME NEW n \in Node, NEW d \in net, IgnoreHeartbeat(n, d) PROVE TypeInv'
  BY <1>9 DEF IgnoreHeartbeat, TypeOK, InHand, managerVars, loopVars, subVars
<1>10. ASSUME NEW n \in Node, NEW d \in net, ReceiveHeartbeat(n, d) PROVE TypeInv'
  <2>1. d.node_id \in Node /\ 0 \in Age
    BY TimeoutAssumption DEF TypeOK, Datagram, Age
  <2>2. /\ nodes_heartbeat' \in [Node -> [Node -> Age \cup {Absent}]]
        /\ net' \subseteq Datagram
    BY <1>10, <2>1 DEF ReceiveHeartbeat, TypeOK
  <2>3. /\ pc' \in [Node -> PC]
        /\ peer' \in [Node -> Node \cup {Absent}]
    BY <1>10, <2>1 DEF ReceiveHeartbeat, TypeOK, PC
  <2>4. InHand'
    <3> SUFFICES ASSUME NEW m \in Node
                 PROVE  /\ pc'[m] \in {"fetch", "update", "trigger"} => peer'[m] \in Node
                        /\ pc'[m] \in {"update", "trigger"} => fetched'[m] \in NodeInfo
      BY DEF InHand
    <3>1. CASE m = n
      BY <1>10, <2>1, <3>1 DEF ReceiveHeartbeat, TypeOK
    <3>2. CASE m # n
      BY <1>10, <3>2 DEF ReceiveHeartbeat, TypeOK, InHand
    <3> QED
      BY <3>1, <3>2
  <2> QED
    BY <1>10, <2>2, <2>3, <2>4 DEF ReceiveHeartbeat, TypeOK, subVars
<1>11. ASSUME NEW n \in Node, FetchReply(n) PROVE TypeInv'
  BY <1>11 DEF FetchReply, TypeOK, InHand, PC, managerVars, subVars
<1>12. ASSUME NEW n \in Node, FetchFail(n) PROVE TypeInv'
  BY <1>12 DEF FetchFail, TypeOK, InHand, PC, managerVars, subVars
<1>13. ASSUME NEW n \in Node, UpdateNode(n) PROVE TypeInv'
  <2>1. peer[n] \in Node /\ fetched[n] \in NodeInfo /\ fetched[n].infoID \in Uint32 /\ 0 \in Age
    BY <1>13, TimeoutAssumption DEF UpdateNode, InHand, NodeInfo, Age
  <2> QED
    BY <1>13, <2>1 DEF UpdateNode, TypeOK, InHand, PC, subVars
<1>14. ASSUME NEW n \in Node, TriggerUpdate(n) PROVE TypeInv'
  <2>1. UpdateTopicSubscriber(subscribers[n], fetched[n]) \in Seq(Subscriber)
    BY <1>14, UpdateTopicSubscriberType DEF TriggerUpdate, TypeOK, InHand
  <2> QED
    BY <1>14, <2>1 DEF TriggerUpdate, TypeOK, InHand, PC, managerVars
<1>15. ASSUME NEW n \in Node, CheckHeartbeats(n) PROVE TypeInv'
  <2>1. subscribers' \in [Node -> Seq(Subscriber)]
    BY <1>15, RemoveTopicSubscriberType DEF CheckHeartbeats, TypeOK
  <2>2. /\ nodes_info' \in [Node -> [Node -> NodeInfo \cup {Absent}]]
        /\ nodes_info_id' \in [Node -> [Node -> Uint32 \cup {Absent}]]
        /\ nodes_heartbeat' \in [Node -> [Node -> Age \cup {Absent}]]
    BY <1>15 DEF CheckHeartbeats, TypeOK, Erase
  <2>3. /\ pc' = [pc EXCEPT ![n] = "recv"]
        /\ UNCHANGED <<phase, localNodeInfo, net, peer, fetched, registering>>
    BY <1>15 DEF CheckHeartbeats
  <2> QED
    BY <2>1, <2>2, <2>3 DEF TypeOK, InHand, PC
<1>16. CASE UNCHANGED vars
  BY <1>16 DEF vars, TypeOK, InHand, managerVars, loopVars, subVars
<1> QED
  BY <1>1, <1>2, <1>3, <1>4, <1>5, <1>6, <1>7, <1>8, <1>9, <1>10, <1>11, <1>12,
     <1>13, <1>14, <1>15, <1>16 DEF Next

\* Every variable keeps its declared type in every reachable state, whatever
\* the nodes, the topics and the bounds.
THEOREM TypeCorrect == Spec => []TypeOK
<1>1. TypeInv => TypeOK
  BY DEF TypeInv
<1> QED
  BY TypeInit, TypeNext, <1>1, PTL DEF Spec

-----------------------------------------------------------------------------
(* The order of versions.                                                    *)

\* Every version is older than or equal to itself.
LEMMA OlderReflexive ==
    ASSUME NEW x \in NodeInfo PROVE Older(x, x)
BY DEF Older, Begins, NodeInfo, Uint32

\* Versions of versions are versions.
LEMMA OlderTransitive ==
    ASSUME NEW x \in NodeInfo, NEW y \in NodeInfo, NEW z \in NodeInfo, Older(x, y), Older(y, z)
    PROVE  Older(x, z)
<1>1. x.infoID \in Int /\ y.infoID \in Int /\ z.infoID \in Int
  BY DEF NodeInfo, Uint32
<1>2. Begins(x.topics, z.topics)
  <2>1. Len(x.topics) \in Nat /\ Len(y.topics) \in Nat /\ Len(z.topics) \in Nat
    BY DEF NodeInfo
  <2> QED
    BY <2>1 DEF Older, Begins
<1>3. Begins(x.services, z.services)
  <2>1. Len(x.services) \in Nat /\ Len(y.services) \in Nat /\ Len(z.services) \in Nat
    BY DEF NodeInfo
  <2> QED
    BY <2>1 DEF Older, Begins
<1> QED
  BY <1>1, <1>2, <1>3 DEF Older

\* A registration makes a strictly newer version, as long as infoID does not wrap.
LEMMA WithTopicNewer ==
    ASSUME NEW info \in NodeInfo, NEW t \in Topic, info.infoID < MaxInfoID
    PROVE  Older(info, WithTopic(info, t)) /\ info.infoID < WithTopic(info, t).infoID
<1>1. WithTopic(info, t).infoID = info.infoID + 1
  BY BoundAssumption, WidthAssumption DEF WithTopic, Increment, NodeInfo, Uint32
<1>2. Begins(info.topics, WithTopic(info, t).topics)
  <2> DEFINE new == [name |-> t, ip |-> info.nodeID, port |-> EphemeralPort(info)]
  <2>1. new \in SocketInfo /\ info.topics \in Seq(SocketInfo)
    BY DEF NodeInfo, SocketInfo, EphemeralPort
  <2> HIDE DEF new
  <2>2. Begins(info.topics, Append(info.topics, new))
    BY <2>1 DEF Begins
  <2> QED
    BY <2>2 DEF WithTopic, new
<1>3. Begins(info.services, WithTopic(info, t).services)
  BY DEF Begins, WithTopic, NodeInfo
<1>4. info.infoID \in Int
  BY DEF NodeInfo, Uint32
<1>5. info.nodeID = WithTopic(info, t).nodeID
  BY DEF WithTopic
<1> QED
  BY <1>1, <1>2, <1>3, <1>4, <1>5 DEF Older

\* The same for a service.
LEMMA WithServiceNewer ==
    ASSUME NEW info \in NodeInfo, NEW s \in Service, info.infoID < MaxInfoID
    PROVE  Older(info, WithService(info, s)) /\ info.infoID < WithService(info, s).infoID
<1>1. WithService(info, s).infoID = info.infoID + 1
  BY BoundAssumption, WidthAssumption DEF WithService, Increment, NodeInfo, Uint32
<1>2. Begins(info.services, WithService(info, s).services)
  <2> DEFINE new == [name |-> s, ip |-> info.nodeID, port |-> ServicePort]
  <2>1. new \in SocketInfo /\ info.services \in Seq(SocketInfo)
    BY DEF NodeInfo, SocketInfo, ServicePort
  <2> HIDE DEF new
  <2>2. Begins(info.services, Append(info.services, new))
    BY <2>1 DEF Begins
  <2> QED
    BY <2>2 DEF WithService, new
<1>3. Begins(info.topics, WithService(info, s).topics)
  BY DEF Begins, WithService, NodeInfo
<1>4. info.infoID \in Int
  BY DEF NodeInfo, Uint32
<1>5. info.nodeID = WithService(info, s).nodeID
  BY DEF WithService
<1> QED
  BY <1>1, <1>2, <1>3, <1>4, <1>5 DEF Older

\* The bound on a node's registrations keeps its version number below MaxInfoID.
LEMMA RegistrationInBounds ==
    ASSUME TypeOK, NEW n \in Node, localNodeInfo[n].infoID < MaxRegistrations[n]
    PROVE  localNodeInfo[n] \in NodeInfo /\ localNodeInfo[n].infoID < MaxInfoID
<1>1. MaxRegistrations[n] \in 0 .. MaxInfoID
  BY RegistrationBoundAssumption
<1>2. localNodeInfo[n] \in NodeInfo
  BY DEF TypeOK
<1>3. localNodeInfo[n].infoID \in Nat
  BY <1>2, WidthAssumption DEF NodeInfo, Uint32
<1> QED
  BY <1>1, <1>2, <1>3, BoundAssumption

-----------------------------------------------------------------------------
(* The registry.  RegistryConsistent and RegistryJustified are not inductive *)
(* alone: they need what the receive loop holds between the critical         *)
(* sections of processHeartbeat, namely a version of the right peer that is  *)
(* no older than the cached one and no newer than the peer's own.            *)

LoopConsistent ==
    \A n \in Node :
        /\ pc[n] \in {"fetch", "update", "trigger"} => Accepts(n, peer[n])
        /\ pc[n] \in {"update", "trigger"} => Older(fetched[n], localNodeInfo[peer[n]])
        /\ (pc[n] = "update" /\ Known(n, peer[n])) => Older(nodes_info[n][peer[n]], fetched[n])
        /\ pc[n] = "trigger" => nodes_info[n][peer[n]] = fetched[n]

RegistryInv == TypeInv /\ RegistryConsistent /\ RegistryJustified /\ LoopConsistent

\* Empty registries are consistent and justified.
LEMMA RegistryInit == Init => RegistryInv
<1> SUFFICES ASSUME Init PROVE RegistryInv
  OBVIOUS
<1>1. \A n, p \in Node : ~Known(n, p) /\ nodes_info_id[n][p] = Absent
  BY DEF Init, Known
<1>2. \A n \in Node : pc[n] = "recv"
  BY DEF Init
<1> QED
  BY TypeInit, <1>1, <1>2 DEF RegistryInv, RegistryConsistent, RegistryJustified, Accepts, LoopConsistent

\* Growth of a node's own description keeps every copy of it an older version.
LEMMA LocalGrowth ==
    ASSUME RegistryInv, TypeInv',
           NEW n \in Node, Older(localNodeInfo[n], localNodeInfo'[n]),
           \A m \in Node \ {n} : localNodeInfo'[m] = localNodeInfo[m],
           UNCHANGED <<managerVars, loopVars>>
    PROVE  RegistryInv'
<1> USE DEF RegistryInv, TypeInv
<1>1. \A m \in Node : Older(localNodeInfo[m], localNodeInfo'[m])
  BY OlderReflexive DEF TypeOK
<1>2. RegistryConsistent'
  BY DEF RegistryConsistent, Known, managerVars
<1>3. RegistryJustified'
  <2> SUFFICES ASSUME NEW m \in Node, NEW p \in Node, Known(m, p)'
               PROVE  Accepts(m, p) /\ Older(nodes_info[m][p], localNodeInfo'[p])
    BY DEF RegistryJustified, Accepts, managerVars
  <2>1. Known(m, p) /\ nodes_info[m][p] \in NodeInfo
    BY DEF Known, managerVars, TypeOK
  <2>2. Accepts(m, p) /\ Older(nodes_info[m][p], localNodeInfo[p])
    BY <2>1 DEF RegistryJustified, Accepts
  <2> QED
    BY <1>1, <2>1, <2>2, OlderTransitive DEF TypeOK
<1>4. LoopConsistent'
  <2> SUFFICES ASSUME NEW m \in Node, pc[m] \in {"update", "trigger"}
               PROVE  Older(fetched[m], localNodeInfo'[peer[m]])
    BY DEF LoopConsistent, Accepts, Known, managerVars, loopVars
  <2>1. peer[m] \in Node /\ fetched[m] \in NodeInfo /\ Older(fetched[m], localNodeInfo[peer[m]])
    BY DEF InHand, LoopConsistent
  <2> QED
    BY <1>1, <2>1, OlderTransitive DEF TypeOK
<1> QED
  BY <1>2, <1>3, <1>4

\* Every step keeps the registries consistent and justified.
LEMMA RegistryNext == RegistryInv /\ [Next]_vars => RegistryInv'
<1> SUFFICES ASSUME RegistryInv, [Next]_vars PROVE RegistryInv'
  OBVIOUS
<1>0. TypeInv /\ TypeInv'
  BY TypeNext DEF RegistryInv
\* Steps that touch neither the registry nor the loop.
<1>1. ASSUME UNCHANGED <<localNodeInfo, managerVars, loopVars>> PROVE RegistryInv'
  BY <1>0, <1>1 DEF RegistryInv, RegistryConsistent, RegistryJustified, Accepts, LoopConsistent,
     Known, managerVars, loopVars
<1>2. CASE Tick
  <2>1. \A n, p \in Node : nodes_heartbeat[n][p] # Absent => nodes_heartbeat'[n][p] # Absent
    BY <1>0, <1>2, TimeoutAssumption, AbsentAssumption DEF Tick, TypeInv, TypeOK, Age
  <2>2. UNCHANGED <<localNodeInfo, nodes_info, nodes_info_id, pc, peer, fetched>>
    BY <1>2 DEF Tick, loopVars
  <2> QED
    BY <1>0, <2>1, <2>2 DEF RegistryInv, RegistryConsistent, RegistryJustified, Accepts, LoopConsistent, Known
<1>3. ASSUME NEW n \in Node, NEW t \in Topic, RegisterLocalTopic(n, t) PROVE RegistryInv'
  <2>1. localNodeInfo[n] \in NodeInfo /\ localNodeInfo[n].infoID < MaxInfoID
    BY <1>0, <1>3, RegistrationInBounds DEF TypeInv, RegisterLocalTopic
  <2>2. localNodeInfo'[n] = WithTopic(localNodeInfo[n], t)
    BY <1>0, <1>3 DEF RegisterLocalTopic, TypeInv, TypeOK
  <2>3. Older(localNodeInfo[n], localNodeInfo'[n])
    BY <2>1, <2>2, WithTopicNewer
  <2> QED
    BY <1>0, <1>3, <2>3, LocalGrowth DEF RegisterLocalTopic, TypeInv, TypeOK
<1>4. ASSUME NEW n \in Node, NEW s \in Service, RegisterLocalService(n, s) PROVE RegistryInv'
  <2>1. localNodeInfo[n] \in NodeInfo /\ localNodeInfo[n].infoID < MaxInfoID
    BY <1>0, <1>4, RegistrationInBounds DEF TypeInv, RegisterLocalService
  <2>2. localNodeInfo'[n] = WithService(localNodeInfo[n], s)
    BY <1>0, <1>4 DEF RegisterLocalService, TypeInv, TypeOK
  <2>3. Older(localNodeInfo[n], localNodeInfo'[n])
    BY <2>1, <2>2, WithServiceNewer
  <2> QED
    BY <1>0, <1>4, <2>3, LocalGrowth DEF RegisterLocalService, TypeInv, TypeOK
<1>5. ASSUME NEW n \in Node, NEW d \in net, ReceiveHeartbeat(n, d) PROVE RegistryInv'
  <2>1. d.node_id \in Node
    BY <1>0 DEF TypeInv, TypeOK, Datagram
  <2>2. \A m, p \in Node : nodes_heartbeat[m][p] # Absent => nodes_heartbeat'[m][p] # Absent
    BY <1>0, <1>5, <2>1, AbsentAssumption DEF ReceiveHeartbeat, TypeInv, TypeOK
  <2>3. UNCHANGED <<localNodeInfo, nodes_info, nodes_info_id, fetched>>
    BY <1>5 DEF ReceiveHeartbeat
  <2>4. RegistryConsistent' /\ RegistryJustified'
    BY <2>2, <2>3 DEF RegistryInv, RegistryConsistent, RegistryJustified, Accepts, Known
  <2>5. LoopConsistent'
    <3>1. \A m \in Node \ {n} : pc'[m] = pc[m] /\ peer'[m] = peer[m]
      BY <1>0, <1>5 DEF ReceiveHeartbeat, TypeInv, TypeOK
    <3>2. \/ pc'[n] = "check"
          \/ pc'[n] = "fetch" /\ peer'[n] = d.node_id
      BY <1>0, <1>5 DEF ReceiveHeartbeat, TypeInv, TypeOK
    <3>3. Accepts(n, d.node_id)
      BY <1>5 DEF ReceiveHeartbeat
    <3> QED
      BY <2>3, <3>1, <3>2, <3>3 DEF RegistryInv, LoopConsistent, Known
  <2> QED
    BY <1>0, <2>4, <2>5 DEF RegistryInv
<1>6. ASSUME NEW n \in Node, FetchReply(n) PROVE RegistryInv'
  <2>1. UNCHANGED <<localNodeInfo, nodes_info, nodes_info_id, nodes_heartbeat, peer>>
    BY <1>6 DEF FetchReply, managerVars
  <2>2. RegistryConsistent' /\ RegistryJustified'
    BY <2>1 DEF RegistryInv, RegistryConsistent, RegistryJustified, Accepts, Known
  <2>3. LoopConsistent'
    <3> SUFFICES ASSUME NEW m \in Node PROVE LoopConsistent!(m)'
      BY DEF LoopConsistent
    <3>1. CASE m # n
      BY <1>0, <1>6, <2>1, <3>1 DEF RegistryInv, LoopConsistent, FetchReply, Known, TypeInv, TypeOK
    <3>2. CASE m = n
      <4>1. peer[n] \in Node /\ Accepts(n, peer[n]) /\ pc'[n] = "update"
             /\ fetched'[n] = localNodeInfo[peer[n]]
        BY <1>0, <1>6 DEF FetchReply, RegistryInv, LoopConsistent, TypeInv, TypeOK, InHand
      <4>2. Older(fetched'[n], localNodeInfo[peer[n]])
        BY <1>0, <4>1, OlderReflexive DEF TypeInv, TypeOK
      <4>3. Known(n, peer[n]) => Older(nodes_info[n][peer[n]], fetched'[n])
        BY <4>1 DEF RegistryInv, RegistryJustified, Accepts
      <4> QED
        BY <2>1, <3>2, <4>1, <4>2, <4>3 DEF Known
    <3> QED
      BY <3>1, <3>2
  <2> QED
    BY <1>0, <2>2, <2>3 DEF RegistryInv
<1>7. ASSUME NEW n \in Node, FetchFail(n) PROVE RegistryInv'
  <2>1. UNCHANGED <<localNodeInfo, nodes_info, nodes_info_id, nodes_heartbeat, fetched>>
    BY <1>7 DEF FetchFail, managerVars
  <2> QED
    BY <1>0, <1>7, <2>1 DEF FetchFail, RegistryInv, RegistryConsistent, RegistryJustified, Accepts,
       LoopConsistent, Known, TypeInv, TypeOK
<1>8. ASSUME NEW n \in Node, UpdateNode(n) PROVE RegistryInv'
  <2>1. /\ peer[n] \in Node /\ Accepts(n, peer[n])
        /\ fetched[n] \in NodeInfo /\ Older(fetched[n], localNodeInfo[peer[n]])
        /\ UNCHANGED <<localNodeInfo, peer, fetched>>
    BY <1>0, <1>8 DEF UpdateNode, RegistryInv, LoopConsistent, TypeInv, InHand
  <2>2. fetched[n] # Absent /\ fetched[n].infoID # Absent
    BY <2>1, AbsentAssumption DEF NodeInfo, Uint32
  <2>3. \A m, p \in Node :
            IF m = n /\ p = peer[n]
            THEN /\ nodes_info'[m][p] = fetched[n]
                 /\ nodes_info_id'[m][p] = fetched[n].infoID
                 /\ nodes_heartbeat'[m][p] = 0
            ELSE /\ nodes_info'[m][p] = nodes_info[m][p]
                 /\ nodes_info_id'[m][p] = nodes_info_id[m][p]
                 /\ nodes_heartbeat'[m][p] = nodes_heartbeat[m][p]
    BY <1>0, <1>8, <2>1 DEF UpdateNode, TypeInv, TypeOK
  <2>4. RegistryConsistent'
    BY <2>2, <2>3, AbsentAssumption DEF RegistryInv, RegistryConsistent, Known
  <2>5. RegistryJustified'
    BY <2>1, <2>3 DEF RegistryInv, RegistryJustified, Accepts, Known
  <2>6. LoopConsistent'
    <3> SUFFICES ASSUME NEW m \in Node PROVE LoopConsistent!(m)'
      BY DEF LoopConsistent
    <3>1. CASE m # n
      <4>1. pc'[m] = pc[m] /\ nodes_info'[m] = nodes_info[m]
        BY <1>0, <1>8, <3>1 DEF UpdateNode, TypeInv, TypeOK
      <4> QED
        BY <2>1, <4>1 DEF RegistryInv, LoopConsistent, Known
    <3>2. CASE m = n
      <4>1. pc'[n] = "trigger"
        BY <1>0, <1>8 DEF UpdateNode, TypeInv, TypeOK
      <4> QED
        BY <2>1, <2>3, <3>2, <4>1
    <3> QED
      BY <3>1, <3>2
  <2> QED
    BY <1>0, <2>4, <2>5, <2>6 DEF RegistryInv
<1>9. ASSUME NEW n \in Node, TriggerUpdate(n) PROVE RegistryInv'
  <2>1. /\ UNCHANGED <<localNodeInfo, nodes_info, nodes_info_id, nodes_heartbeat>>
        /\ \A m \in Node \ {n} : pc'[m] = pc[m] /\ peer'[m] = peer[m] /\ fetched'[m] = fetched[m]
        /\ pc'[n] = "check"
    BY <1>0, <1>9 DEF TriggerUpdate, managerVars, TypeInv, TypeOK
  <2> QED
    BY <1>0, <2>1 DEF RegistryInv, RegistryConsistent, RegistryJustified, Accepts, LoopConsistent, Known
<1>10. ASSUME NEW n \in Node, CheckHeartbeats(n) PROVE RegistryInv'
  <2>1. /\ UNCHANGED <<localNodeInfo, peer, fetched>>
        /\ pc' = [pc EXCEPT ![n] = "recv"]
    BY <1>10 DEF CheckHeartbeats
  <2>2. \A m, p \in Node :
            IF m = n /\ p \in Expired(n)
            THEN /\ nodes_info'[m][p] = Absent
                 /\ nodes_info_id'[m][p] = Absent
                 /\ nodes_heartbeat'[m][p] = Absent
            ELSE /\ nodes_info'[m][p] = nodes_info[m][p]
                 /\ nodes_info_id'[m][p] = nodes_info_id[m][p]
                 /\ nodes_heartbeat'[m][p] = nodes_heartbeat[m][p]
    BY <1>0, <1>10 DEF CheckHeartbeats, Erase, TypeInv, TypeOK
  <2>3. RegistryConsistent' /\ RegistryJustified'
    BY <2>1, <2>2 DEF RegistryInv, RegistryConsistent, RegistryJustified, Accepts, Known
  <2>4. LoopConsistent'
    BY <1>0, <2>1, <2>2 DEF RegistryInv, LoopConsistent, Known, TypeInv, TypeOK, InHand
  <2> QED
    BY <1>0, <2>3, <2>4 DEF RegistryInv
<1>11. CASE LoseHeartbeat \/ UNCHANGED vars
  BY <1>1, <1>11 DEF LoseHeartbeat, vars
<1>12. ASSUME NEW n \in Node,
              \/ Start(n) \/ Crash(n) \/ SendHeartbeat(n) \/ EndRegisterSubscriber(n)
              \/ \E t \in Topic : BeginRegisterSubscriber(n, t)
              \/ \E d \in net : IgnoreHeartbeat(n, d)
       PROVE  RegistryInv'
  BY <1>1, <1>12 DEF Start, Crash, SendHeartbeat, EndRegisterSubscriber,
     BeginRegisterSubscriber, IgnoreHeartbeat
<1> QED
  BY <1>2, <1>3, <1>4, <1>5, <1>6, <1>7, <1>8, <1>9, <1>10, <1>11, <1>12 DEF Next

\* The strengthened registry invariant holds in every reachable state.
LEMMA RegistryInvariant == Spec => []RegistryInv
BY RegistryInit, RegistryNext, PTL DEF Spec

\* The three maps of every NodeInfoManager agree in every reachable state.
THEOREM RegistryIsConsistent == Spec => []RegistryConsistent
<1>1. RegistryInv => RegistryConsistent
  BY DEF RegistryInv
<1> QED
  BY RegistryInvariant, <1>1, PTL

\* Registries hold nodes of the own group and subnet only, in versions they had.
THEOREM RegistryIsJustified == Spec => []RegistryJustified
<1>1. RegistryInv => RegistryJustified
  BY DEF RegistryInv
<1> QED
  BY RegistryInvariant, <1>1, PTL

\* Cache coherence: a heartbeat that causes no fetch finds the peer's present
\* description in the registry.
THEOREM CacheCoherent == Spec => []NoFetchMeansCurrent
<1>1. ASSUME RegistryInv PROVE NoFetchMeansCurrent
  <2> SUFFICES ASSUME NEW n \in Node, NEW p \in Node, Known(n, p),
                      nodes_info_id[n][p] = AsUint32(AsInt32(localNodeInfo[p].infoID))
               PROVE  nodes_info[n][p] = localNodeInfo[p]
    BY DEF NoFetchMeansCurrent
  <2>1. AsUint32(AsInt32(localNodeInfo[p].infoID)) = localNodeInfo[p].infoID
    BY <1>1, CastType DEF RegistryInv, TypeInv, TypeOK, NodeInfo
  <2>2. nodes_info[n][p].infoID = localNodeInfo[p].infoID
    BY <1>1, <2>1 DEF RegistryInv, RegistryConsistent
  <2> QED
    BY <1>1, <2>2 DEF RegistryInv, RegistryJustified, Accepts, Older
<1> QED
  BY RegistryInvariant, <1>1, PTL

-----------------------------------------------------------------------------
(* Discovery implements Directory.  Three kinds of steps are visible: a      *)
(* registration publishes, the second critical section of processHeartbeat   *)
(* learns, and checkHeartbeats forgets; all others stutter.                  *)

\* A registration of n publishes.
LEMMA GrowthPublishes ==
    ASSUME TypeInv, NEW n \in Node, NEW info,
           Older(localNodeInfo[n], info), localNodeInfo[n].infoID < info.infoID,
           localNodeInfo' = [localNodeInfo EXCEPT ![n] = info],
           nodes_info' = nodes_info
    PROVE  D!Publish(n)
<1>1. /\ localNodeInfo'[n] = info
      /\ \A m \in Node \ {n} : localNodeInfo'[m] = localNodeInfo[m]
  BY DEF TypeInv, TypeOK
<1>2. D!Older(localNodeInfo[n], localNodeInfo'[n])
  BY <1>1 DEF Older, Begins, D!Older, D!Begins
<1> QED
  BY <1>1, <1>2 DEF D!Publish

\* The registry's update with the reply of the peer learns.
LEMMA UpdateLearns ==
    ASSUME RegistryInv, NEW n \in Node, UpdateNode(n)
    PROVE  D!Learn(n, peer[n])
<1> DEFINE q == peer[n]
<1>1. /\ q \in Node /\ Accepts(n, q)
      /\ fetched[n] \in NodeInfo /\ Older(fetched[n], localNodeInfo[q])
      /\ Known(n, q) => Older(nodes_info[n][q], fetched[n])
  BY DEF UpdateNode, RegistryInv, LoopConsistent, TypeInv, InHand
<1>2. /\ nodes_info'[n][q] = fetched[n]
      /\ \A p \in Node \ {q} : nodes_info'[n][p] = nodes_info[n][p]
      /\ \A m \in Node \ {n} : nodes_info'[m] = nodes_info[m]
      /\ localNodeInfo' = localNodeInfo
  BY <1>1 DEF UpdateNode, RegistryInv, TypeInv, TypeOK
<1>3. <<n, q>> \in {r \in Node \X Node : Accepts(r[1], r[2])}
  BY <1>1
<1>4. /\ nodes_info'[n][q] # Absent
      /\ D!Older(nodes_info'[n][q], localNodeInfo[q])
      /\ nodes_info[n][q] # Absent => D!Older(nodes_info[n][q], nodes_info'[n][q])
  BY <1>1, <1>2, AbsentAssumption DEF Known, Older, Begins, D!Older, D!Begins
<1> QED
  BY <1>2, <1>3, <1>4 DEF D!Learn

\* The eviction of silent peers forgets.
LEMMA EvictionForgets ==
    ASSUME TypeInv, NEW n \in Node, CheckHeartbeats(n)
    PROVE  D!Forget(n)
<1>1. /\ \A p \in Node : nodes_info'[n][p] \in {nodes_info[n][p], Absent}
      /\ \A m \in Node \ {n} : nodes_info'[m] = nodes_info[m]
      /\ localNodeInfo' = localNodeInfo
  BY DEF CheckHeartbeats, Erase, TypeInv, TypeOK
<1> QED
  BY <1>1 DEF D!Forget

\* Every step of Discovery is a step of Directory or leaves its variables alone.
LEMMA StepRefines ==
    RegistryInv /\ [Next]_vars => [D!Next]_<<localNodeInfo, nodes_info>>
<1> SUFFICES ASSUME RegistryInv, [Next]_vars
             PROVE  D!Next \/ UNCHANGED <<localNodeInfo, nodes_info>>
  OBVIOUS
<1>0. TypeInv
  BY DEF RegistryInv
<1>1. ASSUME NEW n \in Node, NEW t \in Topic, RegisterLocalTopic(n, t) PROVE D!Next
  <2>1. localNodeInfo[n] \in NodeInfo /\ localNodeInfo[n].infoID < MaxInfoID
    BY <1>0, <1>1, RegistrationInBounds DEF TypeInv, RegisterLocalTopic
  <2>2. D!Publish(n)
    BY <1>0, <1>1, <2>1, WithTopicNewer, GrowthPublishes DEF RegisterLocalTopic, managerVars
  <2> QED
    BY <2>2 DEF D!Next
<1>2. ASSUME NEW n \in Node, NEW s \in Service, RegisterLocalService(n, s) PROVE D!Next
  <2>1. localNodeInfo[n] \in NodeInfo /\ localNodeInfo[n].infoID < MaxInfoID
    BY <1>0, <1>2, RegistrationInBounds DEF TypeInv, RegisterLocalService
  <2>2. D!Publish(n)
    BY <1>0, <1>2, <2>1, WithServiceNewer, GrowthPublishes DEF RegisterLocalService, managerVars
  <2> QED
    BY <2>2 DEF D!Next
<1>3. ASSUME NEW n \in Node, UpdateNode(n) PROVE D!Next
  <2>1. peer[n] \in Node
    BY <1>0, <1>3 DEF UpdateNode, TypeInv, InHand
  <2> QED
    BY <1>3, <2>1, UpdateLearns DEF D!Next
<1>4. ASSUME NEW n \in Node, CheckHeartbeats(n) PROVE D!Next
  BY <1>0, <1>4, EvictionForgets DEF D!Next
<1>5. CASE LoseHeartbeat \/ Tick \/ UNCHANGED vars
  BY <1>5 DEF LoseHeartbeat, Tick, vars, managerVars
<1>6. ASSUME NEW n \in Node,
             \/ Start(n) \/ Crash(n) \/ SendHeartbeat(n) \/ EndRegisterSubscriber(n)
             \/ FetchReply(n) \/ FetchFail(n) \/ TriggerUpdate(n)
             \/ \E t \in Topic : BeginRegisterSubscriber(n, t)
             \/ \E d \in net : IgnoreHeartbeat(n, d) \/ ReceiveHeartbeat(n, d)
      PROVE  UNCHANGED <<localNodeInfo, nodes_info>>
  BY <1>6 DEF Start, Crash, SendHeartbeat, EndRegisterSubscriber, FetchReply, FetchFail,
     TriggerUpdate, BeginRegisterSubscriber, IgnoreHeartbeat, ReceiveHeartbeat, managerVars
<1> QED
  BY <1>1, <1>2, <1>3, <1>4, <1>5, <1>6 DEF Next

\* Discovery implements the directory: registries take over versions that were
\* published, in order, and only from nodes they may hear of.
THEOREM DiscoveryImplementsDirectory == Spec => ImplementsDirectory
<1>1. Init => D!Init
  BY DEF Init, D!Init, NewNodeInfo, D!NewNodeInfo
<1> QED
  BY RegistryInvariant, StepRefines, <1>1, PTL DEF Spec, ImplementsDirectory, D!Spec

-----------------------------------------------------------------------------
(* The subscribers.  The two invariants about connections hold also for the  *)
(* subscriber that is still being registered, and eviction keeps the         *)
(* connections to other nodes because URLs of different nodes differ.        *)

\* sub is connected to all that the registry reg lists, but for the peers in
\* exempt, whose update event is still to be handled.
Tracks(sub, reg, exempt) ==
    \A p \in Node \ exempt :
        reg[p] # Absent => TopicURLs(reg[p], sub.topicName) \subseteq sub.publisherURLs

\* sub is connected only to what the registry reg or the node itself lists.
Listed(reg, own, t) ==
    AllTopicURLs({reg[p] : p \in {q \in Node : reg[q] # Absent}}, t) \cup TopicURLs(own, t)
Honest(sub, reg, own) == sub.publisherURLs \subseteq Listed(reg, own, sub.topicName)

Faithful(sub, reg, own, exempt) == Tracks(sub, reg, exempt) /\ Honest(sub, reg, own)

\* The peer whose update event the receive loop is about to trigger.
Pending(n) == IF pc[n] = "trigger" THEN {peer[n]} ELSE {}

SubscribersFaithful ==
    \A n \in Node :
        /\ \A i \in 1 .. Len(subscribers[n]) :
              Faithful(subscribers[n][i], nodes_info[n], localNodeInfo[n], Pending(n))
        /\ registering[n] # Absent =>
              Faithful(registering[n], nodes_info[n], localNodeInfo[n], Pending(n))

\* A node lists sockets of its own address only.
OwnAddress ==
    \A n \in Node :
        /\ localNodeInfo[n].nodeID = n
        /\ \A i \in 1 .. Len(localNodeInfo[n].topics) : localNodeInfo[n].topics[i].ip = n

SubscriberInv == RegistryInv /\ OwnAddress /\ SubscribersFaithful

\* A later version lists the publishers of an earlier one.
LEMMA OlderURLs ==
    ASSUME NEW x \in NodeInfo, NEW y \in NodeInfo, Older(x, y), NEW t
    PROVE  TopicURLs(x, t) \subseteq TopicURLs(y, t)
<1>1. Len(x.topics) \in Nat /\ Len(y.topics) \in Nat
  BY DEF NodeInfo
<1> QED
  BY <1>1 DEF Older, Begins, TopicURLs

\* The URLs a registry lists for p are addresses of p.
LEMMA KnownAddress ==
    ASSUME RegistryInv, OwnAddress, NEW n \in Node, NEW p \in Node, nodes_info[n][p] # Absent,
           NEW t, NEW u \in TopicURLs(nodes_info[n][p], t)
    PROVE  u[1] = p
<1>1. nodes_info[n][p] \in NodeInfo /\ localNodeInfo[p] \in NodeInfo
  BY DEF RegistryInv, TypeInv, TypeOK
<1>2. TopicURLs(nodes_info[n][p], t) \subseteq TopicURLs(localNodeInfo[p], t)
  BY <1>1, OlderURLs DEF RegistryInv, RegistryJustified, Accepts, Known
<1> QED
  BY <1>2 DEF OwnAddress, TopicURLs, URL

\* A new subscriber is connected to what is listed.
LEMMA NewFaithful ==
    ASSUME NEW reg, NEW own, NEW exempt, NEW t
    PROVE  Faithful([topicName |-> t, publisherURLs |-> Listed(reg, own, t)], reg, own, exempt)
BY DEF Faithful, Tracks, Honest, Listed, AllTopicURLs

\* More publishers on the own node do no harm.
LEMMA GrowthFaithful ==
    ASSUME NEW sub, NEW reg, NEW own, NEW exempt, Faithful(sub, reg, own, exempt),
           NEW own2, TopicURLs(own, sub.topicName) \subseteq TopicURLs(own2, sub.topicName)
    PROVE  Faithful(sub, reg, own2, exempt)
BY DEF Faithful, Tracks, Honest, Listed

\* updateNodeUnlocked for q leaves subscribers faithful but for q.
LEMMA UpdateFaithful ==
    ASSUME NEW sub, NEW own, NEW reg \in [Node -> NodeInfo \cup {Absent}],
           Faithful(sub, reg, own, {}),
           NEW q \in Node, NEW info \in NodeInfo, reg[q] # Absent => Older(reg[q], info)
    PROVE  Faithful(sub, [reg EXCEPT ![q] = info], own, {q})
<1> DEFINE new == [reg EXCEPT ![q] = info]
<1>1. info # Absent /\ \A p \in Node : new[p] = IF p = q THEN info ELSE reg[p]
  BY AbsentAssumption
<1>2. Tracks(sub, new, {q})
  BY <1>1 DEF Faithful, Tracks
<1>3. Honest(sub, new, own)
  <2> SUFFICES ASSUME NEW u \in sub.publisherURLs PROVE u \in Listed(new, own, sub.topicName)
    BY DEF Honest
  <2>1. CASE u \in TopicURLs(own, sub.topicName)
    BY <2>1 DEF Listed
  <2>2. ASSUME NEW p \in Node, reg[p] # Absent, u \in TopicURLs(reg[p], sub.topicName)
        PROVE  new[p] # Absent /\ u \in TopicURLs(new[p], sub.topicName)
    BY <1>1, <2>2, OlderURLs
  <2> HIDE DEF new
  <2> QED
    BY <2>1, <2>2 DEF Faithful, Honest, Listed, AllTopicURLs
<1> QED
  BY <1>2, <1>3 DEF Faithful

\* The update event for q makes them faithful again.
LEMMA TriggerFaithful ==
    ASSUME NEW sub, NEW own, NEW reg, NEW q \in Node, Faithful(sub, reg, own, {q}), reg[q] # Absent
    PROVE  Faithful(WithURLs(sub, sub.publisherURLs \cup TopicURLs(reg[q], sub.topicName)),
                    reg, own, {})
<1>1. \A urls : /\ WithURLs(sub, urls).topicName = sub.topicName
               /\ WithURLs(sub, urls).publisherURLs = urls
  BY DEF WithURLs
<1> QED
  BY <1>1 DEF Faithful, Tracks, Honest, Listed, AllTopicURLs

\* Eviction of the nodes in gone disconnects their URLs and no others.
LEMMA EvictFaithful ==
    ASSUME NEW sub, NEW own, NEW reg, NEW gone \in SUBSET Node, Faithful(sub, reg, own, {}),
           \A p \in Node : reg[p] # Absent => \A u \in TopicURLs(reg[p], sub.topicName) : u[1] = p
    PROVE  Faithful(WithURLs(sub, sub.publisherURLs \
                       AllTopicURLs({reg[p] : p \in {q \in gone : reg[q] # Absent}}, sub.topicName)),
                    Erase(reg, gone), own, {})
<1> DEFINE lost == AllTopicURLs({reg[p] : p \in {q \in gone : reg[q] # Absent}}, sub.topicName)
           new == WithURLs(sub, sub.publisherURLs \ lost)
<1>1. new.topicName = sub.topicName /\ new.publisherURLs = sub.publisherURLs \ lost
  BY DEF WithURLs
<1>2. \A p \in Node : Erase(reg, gone)[p] = IF p \in gone THEN Absent ELSE reg[p]
  BY DEF Erase
<1>3. \A u : u \in lost <=> \E p \in gone : reg[p] # Absent /\ u \in TopicURLs(reg[p], sub.topicName)
  BY DEF AllTopicURLs
<1> HIDE DEF lost, new
<1>4. Tracks(new, Erase(reg, gone), {})
  BY <1>1, <1>2, <1>3 DEF Faithful, Tracks
<1>5. Honest(new, Erase(reg, gone), own)
  BY <1>1, <1>2, <1>3 DEF Faithful, Honest, Listed, AllTopicURLs
<1> QED
  BY <1>4, <1>5 DEF Faithful, new, lost

\* No subscriber, no connection.
LEMMA SubscriberInit == Init => SubscriberInv
<1> SUFFICES ASSUME Init PROVE SubscriberInv
  OBVIOUS
<1>1. OwnAddress
  <2>1. \A n \in Node : localNodeInfo[n].nodeID = n /\ localNodeInfo[n].topics = <<>>
    BY DEF Init, NewNodeInfo
  <2>2. \A i : i \notin 1 .. Len(<<>>)
    OBVIOUS
  <2> QED
    BY <2>1, <2>2 DEF OwnAddress
<1>2. SubscribersFaithful
  <2>1. \A n \in Node : subscribers[n] = <<>> /\ registering[n] = Absent
    BY DEF Init
  <2>2. \A i : i \notin 1 .. Len(<<>>)
    OBVIOUS
  <2> QED
    BY <2>1, <2>2 DEF SubscribersFaithful
<1> QED
  BY RegistryInit, <1>1, <1>2 DEF SubscriberInv

\* registerLocalTopic lists a socket of the own address.
LEMMA WithTopicAddress ==
    ASSUME NEW info \in NodeInfo, NEW t \in Topic,
           \A i \in 1 .. Len(info.topics) : info.topics[i].ip = info.nodeID
    PROVE  \A i \in 1 .. Len(WithTopic(info, t).topics) :
               WithTopic(info, t).topics[i].ip = info.nodeID
<1> DEFINE new == [name |-> t, ip |-> info.nodeID, port |-> EphemeralPort(info)]
<1>1. new \in SocketInfo /\ info.topics \in Seq(SocketInfo) /\ new.ip = info.nodeID
  BY DEF NodeInfo, SocketInfo, EphemeralPort
<1> HIDE DEF new
<1>2. \A i \in 1 .. Len(Append(info.topics, new)) : Append(info.topics, new)[i].ip = info.nodeID
  BY <1>1
<1> QED
  BY <1>2 DEF WithTopic, new

\* Growth of a node's own description keeps the subscribers faithful.
LEMMA SubscriberGrowth ==
    ASSUME SubscriberInv, RegistryInv', OwnAddress',
           NEW n \in Node, Older(localNodeInfo[n], localNodeInfo'[n]),
           \A m \in Node \ {n} : localNodeInfo'[m] = localNodeInfo[m],
           UNCHANGED <<managerVars, loopVars, subVars>>
    PROVE  SubscriberInv'
<1>1. \A m \in Node : \A t : TopicURLs(localNodeInfo[m], t) \subseteq TopicURLs(localNodeInfo'[m], t)
  <2> SUFFICES ASSUME NEW m \in Node, NEW t
               PROVE  TopicURLs(localNodeInfo[m], t) \subseteq TopicURLs(localNodeInfo'[m], t)
    OBVIOUS
  <2>1. localNodeInfo[m] \in NodeInfo /\ localNodeInfo'[m] \in NodeInfo
    BY DEF SubscriberInv, RegistryInv, TypeInv, TypeOK
  <2>2. Older(localNodeInfo[m], localNodeInfo'[m])
    BY <2>1, OlderReflexive
  <2> QED
    BY <2>1, <2>2, OlderURLs
<1>2. UNCHANGED <<nodes_info, subscribers, registering>> /\ \A m \in Node : Pending(m)' = Pending(m)
  BY DEF managerVars, loopVars, subVars, Pending
<1>3. \A m \in Node : \A sub :
          Faithful(sub, nodes_info[m], localNodeInfo[m], Pending(m))
              => Faithful(sub, nodes_info[m], localNodeInfo'[m], Pending(m))
  BY <1>1, GrowthFaithful
<1>4. SubscribersFaithful'
  BY <1>2, <1>3 DEF SubscriberInv, SubscribersFaithful
<1> QED
  BY <1>4 DEF SubscriberInv

\* Every step keeps the connections equal to what is listed.
LEMMA SubscriberNext == SubscriberInv /\ [Next]_vars => SubscriberInv'
<1> SUFFICES ASSUME SubscriberInv, [Next]_vars PROVE SubscriberInv'
  OBVIOUS
<1>0. RegistryInv /\ RegistryInv' /\ TypeOK /\ TypeOK' /\ InHand
  BY RegistryNext DEF SubscriberInv, RegistryInv, TypeInv
\* Steps that touch neither descriptions, registries nor subscribers, and
\* neither reach nor leave the update event.
<1>1. ASSUME UNCHANGED <<localNodeInfo, nodes_info, subVars>>,
             \A m \in Node : Pending(m)' = Pending(m)
      PROVE  SubscriberInv'
  BY <1>0, <1>1 DEF SubscriberInv, OwnAddress, SubscribersFaithful, subVars
<1>2. CASE LoseHeartbeat \/ Tick \/ UNCHANGED vars
  BY <1>1, <1>2 DEF LoseHeartbeat, Tick, vars, managerVars, loopVars, Pending
<1>3. ASSUME NEW n \in Node,
             \/ Start(n) \/ Crash(n) \/ SendHeartbeat(n)
             \/ \E d \in net : IgnoreHeartbeat(n, d)
      PROVE  SubscriberInv'
  BY <1>1, <1>3 DEF Start, Crash, SendHeartbeat, IgnoreHeartbeat, managerVars, loopVars, Pending
<1>4. ASSUME NEW n \in Node,
             \/ FetchReply(n) \/ FetchFail(n)
             \/ \E d \in net : ReceiveHeartbeat(n, d)
      PROVE  SubscriberInv'
  <2>1. UNCHANGED <<localNodeInfo, nodes_info, subVars>>
    BY <1>4 DEF FetchReply, FetchFail, ReceiveHeartbeat, managerVars
  <2>2. /\ pc[n] # "trigger" /\ pc'[n] # "trigger"
        /\ \A m \in Node \ {n} : pc'[m] = pc[m] /\ peer'[m] = peer[m]
    BY <1>0, <1>4 DEF FetchReply, FetchFail, ReceiveHeartbeat, TypeOK
  <2>3. \A m \in Node : Pending(m)' = Pending(m)
    BY <2>2 DEF Pending
  <2> QED
    BY <1>1, <2>1, <2>3
<1>5. ASSUME NEW n \in Node, NEW t \in Topic, RegisterLocalTopic(n, t) PROVE SubscriberInv'
  <2>1. localNodeInfo[n] \in NodeInfo /\ localNodeInfo[n].infoID < MaxInfoID
    BY <1>0, <1>5, RegistrationInBounds DEF RegisterLocalTopic
  <2>2. /\ localNodeInfo'[n] = WithTopic(localNodeInfo[n], t)
        /\ \A m \in Node \ {n} : localNodeInfo'[m] = localNodeInfo[m]
    BY <1>0, <1>5 DEF TypeOK, RegisterLocalTopic
  <2>3. OwnAddress'
    <3>1. localNodeInfo[n].nodeID = n /\ WithTopic(localNodeInfo[n], t).nodeID = n
      BY DEF SubscriberInv, OwnAddress, WithTopic
    <3>2. \A i \in 1 .. Len(localNodeInfo'[n].topics) : localNodeInfo'[n].topics[i].ip = n
      BY <2>1, <2>2, <3>1, WithTopicAddress DEF SubscriberInv, OwnAddress
    <3> QED
      BY <2>2, <3>1, <3>2 DEF SubscriberInv, OwnAddress
  <2> QED
    BY <1>0, <1>5, <2>1, <2>2, <2>3, WithTopicNewer, SubscriberGrowth DEF RegisterLocalTopic
<1>6. ASSUME NEW n \in Node, NEW s \in Service, RegisterLocalService(n, s) PROVE SubscriberInv'
  <2>1. localNodeInfo[n] \in NodeInfo /\ localNodeInfo[n].infoID < MaxInfoID
    BY <1>0, <1>6, RegistrationInBounds DEF RegisterLocalService
  <2>2. /\ localNodeInfo'[n] = WithService(localNodeInfo[n], s)
        /\ \A m \in Node \ {n} : localNodeInfo'[m] = localNodeInfo[m]
    BY <1>0, <1>6 DEF TypeOK, RegisterLocalService
  <2>3. /\ WithService(localNodeInfo[n], s).nodeID = localNodeInfo[n].nodeID
        /\ WithService(localNodeInfo[n], s).topics = localNodeInfo[n].topics
    BY DEF WithService
  <2>4. OwnAddress'
    BY <2>2, <2>3 DEF SubscriberInv, OwnAddress
  <2> QED
    BY <1>0, <1>6, <2>1, <2>2, <2>4, WithServiceNewer, SubscriberGrowth DEF RegisterLocalService
<1>7. ASSUME NEW n \in Node, NEW t \in Topic, BeginRegisterSubscriber(n, t) PROVE SubscriberInv'
  <2>1. UNCHANGED <<localNodeInfo, nodes_info, subscribers>> /\ \A m \in Node : Pending(m)' = Pending(m)
    BY <1>7 DEF BeginRegisterSubscriber, managerVars, loopVars, Pending
  <2>2. FindTopicURLs(n, t) = Listed(nodes_info[n], localNodeInfo[n], t)
    BY DEF FindTopicURLs, Listed, Known
  <2>3. /\ registering'[n] = [topicName |-> t, publisherURLs |-> FindTopicURLs(n, t)]
        /\ \A m \in Node \ {n} : registering'[m] = registering[m]
    BY <1>0, <1>7 DEF BeginRegisterSubscriber, TypeOK
  <2>4. Faithful(registering'[n], nodes_info[n], localNodeInfo[n], Pending(n))
    BY <2>2, <2>3, NewFaithful
  <2>5. SubscribersFaithful'
    BY <2>1, <2>3, <2>4 DEF SubscriberInv, SubscribersFaithful
  <2> QED
    BY <1>0, <2>1, <2>5 DEF SubscriberInv, OwnAddress
<1>8. ASSUME NEW n \in Node, EndRegisterSubscriber(n) PROVE SubscriberInv'
  <2>1. UNCHANGED <<localNodeInfo, nodes_info>> /\ \A m \in Node : Pending(m)' = Pending(m)
    BY <1>8 DEF EndRegisterSubscriber, managerVars, loopVars, Pending
  <2>2. /\ registering[n] # Absent /\ registering[n] \in Subscriber
        /\ subscribers[n] \in Seq(Subscriber)
        /\ subscribers'[n] = Append(subscribers[n], registering[n]) /\ registering'[n] = Absent
        /\ \A m \in Node \ {n} : subscribers'[m] = subscribers[m] /\ registering'[m] = registering[m]
    BY <1>0, <1>8 DEF EndRegisterSubscriber, TypeOK
  <2>3. ASSUME NEW i \in 1 .. Len(subscribers'[n])
        PROVE  Faithful(subscribers'[n][i], nodes_info[n], localNodeInfo[n], Pending(n))
    <3>1. \/ i \in 1 .. Len(subscribers[n]) /\ subscribers'[n][i] = subscribers[n][i]
          \/ subscribers'[n][i] = registering[n]
      BY <2>2
    <3> QED
      BY <2>2, <3>1 DEF SubscriberInv, SubscribersFaithful
  <2>4. SubscribersFaithful'
    BY <2>1, <2>2, <2>3 DEF SubscriberInv, SubscribersFaithful
  <2> QED
    BY <1>0, <2>1, <2>4 DEF SubscriberInv, OwnAddress
<1>9. ASSUME NEW n \in Node, UpdateNode(n) PROVE SubscriberInv'
  <2> DEFINE q == peer[n]
  <2>1. /\ q \in Node /\ fetched[n] \in NodeInfo
        /\ nodes_info[n] \in [Node -> NodeInfo \cup {Absent}]
        /\ nodes_info[n][q] # Absent => Older(nodes_info[n][q], fetched[n])
        /\ UNCHANGED <<localNodeInfo, subscribers, registering>>
    BY <1>0, <1>9 DEF UpdateNode, RegistryInv, LoopConsistent, InHand, TypeOK, Known, subVars
  <2>2. /\ nodes_info'[n] = [nodes_info[n] EXCEPT ![q] = fetched[n]]
        /\ Pending(n) = {} /\ Pending(n)' = {q}
        /\ \A m \in Node \ {n} : nodes_info'[m] = nodes_info[m] /\ Pending(m)' = Pending(m)
    BY <1>0, <1>9 DEF UpdateNode, TypeOK, Pending
  <2> HIDE DEF q
  <2>3. \A sub : Faithful(sub, nodes_info[n], localNodeInfo[n], Pending(n))
                     => Faithful(sub, nodes_info'[n], localNodeInfo[n], Pending(n)')
    BY <2>1, <2>2, UpdateFaithful
  <2>4. \A m \in Node : \A sub :
          Faithful(sub, nodes_info[m], localNodeInfo[m], Pending(m))
                             => Faithful(sub, nodes_info'[m], localNodeInfo[m], Pending(m)')
    BY <2>2, <2>3
  <2>5. SubscribersFaithful'
    BY <2>1, <2>4 DEF SubscriberInv, SubscribersFaithful
  <2> QED
    BY <1>0, <2>1, <2>5 DEF SubscriberInv, OwnAddress
<1>10. ASSUME NEW n \in Node, TriggerUpdate(n) PROVE SubscriberInv'
  <2> DEFINE q == peer[n]
  <2>1. /\ q \in Node /\ nodes_info[n][q] = fetched[n] /\ fetched[n] \in NodeInfo
        /\ nodes_info[n][q] # Absent
        /\ registering[n] = Absent
        /\ subscribers[n] \in Seq(Subscriber)
        /\ UNCHANGED <<localNodeInfo, nodes_info, registering>>
    BY <1>0, <1>10, AbsentAssumption
       DEF TriggerUpdate, RegistryInv, LoopConsistent, InHand, TypeOK, managerVars
  <2>2. /\ subscribers'[n] = UpdateTopicSubscriber(subscribers[n], fetched[n])
        /\ Pending(n) = {q} /\ Pending(n)' = {}
        /\ \A m \in Node \ {n} : subscribers'[m] = subscribers[m] /\ Pending(m)' = Pending(m)
    BY <1>0, <1>10 DEF TriggerUpdate, TypeOK, Pending
  <2> HIDE DEF q
  <2>3. Len(subscribers'[n]) = Len(subscribers[n])
    BY <2>1, <2>2, UpdateTopicSubscriberType
  <2>4. ASSUME NEW i \in 1 .. Len(subscribers[n])
        PROVE  Faithful(subscribers'[n][i], nodes_info[n], localNodeInfo[n], {})
    <3> DEFINE sub == subscribers[n][i]
    <3>1. subscribers'[n][i] =
              WithURLs(sub, sub.publisherURLs \cup TopicURLs(nodes_info[n][q], sub.topicName))
      BY <2>1, <2>2 DEF UpdateTopicSubscriber
    <3>2. Faithful(sub, nodes_info[n], localNodeInfo[n], {q})
      BY <2>2 DEF SubscriberInv, SubscribersFaithful
    <3> HIDE DEF sub
    <3>3. nodes_info[n][q] # Absent /\ q \in Node
      BY <2>1
    <3>4. Faithful(WithURLs(sub, sub.publisherURLs \cup TopicURLs(nodes_info[n][q], sub.topicName)),
                   nodes_info[n], localNodeInfo[n], {})
      BY <3>2, <3>3, TriggerFaithful, Zenon
    <3> QED
      BY <3>1, <3>4, Zenon
  <2>5. SubscribersFaithful'
    BY <2>1, <2>2, <2>3, <2>4 DEF SubscriberInv, SubscribersFaithful
  <2> QED
    BY <1>0, <2>1, <2>5 DEF SubscriberInv, OwnAddress
<1>11. ASSUME NEW n \in Node, CheckHeartbeats(n) PROVE SubscriberInv'
  <2> DEFINE gone == Expired(n)
             infos == {nodes_info[n][p] : p \in {q \in gone : nodes_info[n][q] # Absent}}
  <2>1. /\ gone \in SUBSET Node
        /\ gone # {} => registering[n] = Absent
        /\ subscribers[n] \in Seq(Subscriber)
        /\ UNCHANGED <<localNodeInfo, registering>>
    BY <1>0, <1>11 DEF CheckHeartbeats, TypeOK, Expired
  <2>2. /\ subscribers'[n] = RemoveTopicSubscriber(subscribers[n], infos)
        /\ nodes_info'[n] = Erase(nodes_info[n], gone)
        /\ Pending(n) = {} /\ Pending(n)' = {}
    BY <1>0, <1>11 DEF CheckHeartbeats, TypeOK, Known, Pending
  <2>3. \A m \in Node \ {n} : /\ subscribers'[m] = subscribers[m]
                              /\ nodes_info'[m] = nodes_info[m] /\ Pending(m)' = Pending(m)
    BY <1>0, <1>11 DEF CheckHeartbeats, TypeOK, Pending
  <2>4. gone = {} => nodes_info'[n] = nodes_info[n]
    BY <1>0, <2>2 DEF Erase, TypeOK
  <2>5. Len(subscribers'[n]) = Len(subscribers[n])
    BY <2>1, <2>2, RemoveTopicSubscriberType
  <2>6. ASSUME NEW i \in 1 .. Len(subscribers[n])
        PROVE  Faithful(subscribers'[n][i], nodes_info'[n], localNodeInfo[n], {})
    <3> DEFINE sub == subscribers[n][i]
    <3>1. subscribers'[n][i] =
              WithURLs(sub, sub.publisherURLs \ AllTopicURLs(infos, sub.topicName))
      BY <2>1, <2>2 DEF RemoveTopicSubscriber
    <3>2. Faithful(sub, nodes_info[n], localNodeInfo[n], {})
      BY <2>2 DEF SubscriberInv, SubscribersFaithful
    <3>3. \A p \in Node : nodes_info[n][p] # Absent =>
              \A u \in TopicURLs(nodes_info[n][p], sub.topicName) : u[1] = p
      BY <1>0, KnownAddress DEF SubscriberInv
    <3>4. Faithful(WithURLs(sub, sub.publisherURLs \ AllTopicURLs(infos, sub.topicName)),
                   Erase(nodes_info[n], gone), localNodeInfo[n], {})
      <4> HIDE DEF sub, gone
      <4> QED
        BY <2>1, <3>2, <3>3, EvictFaithful
    <3> HIDE DEF sub, gone, infos
    <3> QED
      BY <2>2, <3>1, <3>4
  <2>7. SubscribersFaithful'
    BY <2>1, <2>2, <2>3, <2>4, <2>5, <2>6 DEF SubscriberInv, SubscribersFaithful
  <2> QED
    BY <1>0, <2>1, <2>7 DEF SubscriberInv, OwnAddress
<1> QED
  BY <1>2, <1>3, <1>4, <1>5, <1>6, <1>7, <1>8, <1>9, <1>10, <1>11 DEF Next

\* The strengthened subscriber invariant holds in every reachable state.
LEMMA SubscriberInvariant == Spec => []SubscriberInv
BY SubscriberInit, SubscriberNext, PTL DEF Spec

\* Every subscriber is connected to all publishers of its topic that the
\* registry lists, whatever registrations, updates and evictions interleave.
THEOREM SubscribersAlwaysFollow == Spec => []SubscribersFollowRegistry
<1>1. ASSUME SubscriberInv PROVE SubscribersFollowRegistry
  BY <1>1 DEF SubscriberInv, SubscribersFaithful, Faithful, Tracks, Pending,
     SubscribersFollowRegistry, Known
<1> QED
  BY SubscriberInvariant, <1>1, PTL

\* No subscriber is connected to a publisher that nobody lists any more.
THEOREM NeverGhostConnections == Spec => []NoGhostConnections
<1>1. ASSUME SubscriberInv PROVE NoGhostConnections
  BY <1>1 DEF SubscriberInv, SubscribersFaithful, Faithful, Honest, Listed,
     NoGhostConnections, FindTopicURLs, Known
<1> QED
  BY SubscriberInvariant, <1>1, PTL
=============================================================================
