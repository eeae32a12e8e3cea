----------------------------- MODULE NodeLocks ------------------------------
(* The threads inside one node, the mutexes they take and the data they      *)
(* touch.  An operation is the sequence of its lock, unlock, read and write  *)
(* steps, in the order of the code; Discovery shows what the operations      *)
(* compute, this module what the order of their locks allows.                *)
(* A mutex that is taken while no other is waited for under it (that of an   *)
(* Event, the logger's) is left out.                                         *)
EXTENDS Naturals, Sequences

CONSTANTS
    Thread,   \* the pool threads of the four loops, and application threads
    Offers,   \* Offers[t]: the operations thread t performs
    None      \* no thread, no operation

Mutex == {"data_mutex", "mutex", "local_mutex"}
Data  == {"registry", "localNodeInfo", "subscribers", "handlers"}

Step == [do : {"lock", "share", "unlock"}, what : Mutex] \cup [do : {"read", "write"}, what : Data]

Read(d)  == <<[do |-> "read", what |-> d]>>
Write(d) == <<[do |-> "write", what |-> d]>>

\* std::lock_guard, std::unique_lock: the mutex is held for the scope.
Locked(m, body) == <<[do |-> "lock", what |-> m]>> \o body \o <<[do |-> "unlock", what |-> m]>>

\* std::shared_lock.
Shared(m, body) == <<[do |-> "share", what |-> m]>> \o body \o <<[do |-> "unlock", what |-> m]>>

-----------------------------------------------------------------------------
(* The operations.                                                           *)

\* createHeartbeat; getLocalNodeInfo.
CreateHeartbeat == Locked("local_mutex", Read("localNodeInfo"))

\* A slip: the event handlers without mutex_.
UpdateSubscribersUnlocked == Write("subscribers")

\* updateTopicSubscriber and removeTopicSubscriber, the two event handlers.
UpdateSubscribers == Locked("mutex", Write("subscribers"))

\* processHeartbeat of a node whose info is current.
ProcessHeartbeat == Locked("data_mutex", Write("registry"))

\* A slip: the update event is triggered inside the critical section.
ProcessAndFetchLocked ==
    ProcessHeartbeat \o Locked("data_mutex", Write("registry") \o UpdateSubscribers)

\* processHeartbeat of a new or changed node: the fetch holds no lock, the
\* update event is triggered after the second critical section.
ProcessAndFetch ==
    ProcessHeartbeat \o Locked("data_mutex", Write("registry")) \o UpdateSubscribers

\* checkHeartbeats, when no node has expired and when one has: the remove event
\* is triggered inside the critical section.
CheckHeartbeats == Locked("data_mutex", Read("registry"))
CheckAndRemove  == Locked("data_mutex", Read("registry") \o UpdateSubscribers \o Write("registry"))

\* A slip: getPublisherInfo without its shared_lock.
RegisterSubscriberUnshared ==
    Locked("mutex", Read("registry") \o Read("localNodeInfo") \o Write("subscribers"))

\* _registerTopicSubscriber, with getPublisherInfo inside.
RegisterSubscriber ==
    Locked("mutex",
           Shared("data_mutex", Read("registry") \o Read("localNodeInfo")) \o Write("subscribers"))

\* SubscriberManager::pollOnce: pointers to the subscribers are collected under
\* mutex_ and followed after it.
PollSubscribers == Locked("mutex", Read("subscribers")) \o Read("subscribers")

\* A slip: registerLocalTopic without local_mutex_.
RegisterTopicUnlocked == CreateHeartbeat \o Write("localNodeInfo")

\* Publisher's constructor: getLocalNodeInfo, then registerLocalTopic.
RegisterTopic == CreateHeartbeat \o Locked("local_mutex", Write("localNodeInfo"))

\* registerServiceHandler: registerHandler, then registerLocalService.
RegisterService == Write("handlers") \o Locked("local_mutex", Write("localNodeInfo"))

\* handleRequest for get_node_info.
HandleRequest == Read("handlers") \o CreateHeartbeat

\* request(): getServiceInfo returns a pointer into the registry, which is
\* followed after the lock is released.
Request ==
    Shared("data_mutex", Read("registry") \o Read("localNodeInfo")) \o Read("registry")

Program ==
    [CreateHeartbeat    |-> CreateHeartbeat,
     ProcessHeartbeat   |-> ProcessHeartbeat,
     ProcessAndFetch    |-> ProcessAndFetch,
     CheckHeartbeats    |-> CheckHeartbeats,
     CheckAndRemove     |-> CheckAndRemove,
     RegisterSubscriber |-> RegisterSubscriber,
     PollSubscribers    |-> PollSubscribers,
     RegisterTopic      |-> RegisterTopic,
     RegisterService    |-> RegisterService,
     HandleRequest      |-> HandleRequest,
     Request            |-> Request]

Operation == DOMAIN Program

ASSUME OffersAssumption ==
    /\ Offers \in [Thread -> SUBSET Operation]
    /\ None \notin Thread /\ None \notin Operation

-----------------------------------------------------------------------------
(* The threads.                                                              *)

VARIABLES
    op,      \* the operation each thread executes
    at,      \* the step of it that is next
    owner,   \* the thread that holds a mutex exclusively
    sharers  \* the threads that hold it shared

vars == <<op, at, owner, sharers>>

Init ==
    /\ op = [t \in Thread |-> None]
    /\ at = [t \in Thread |-> 1]
    /\ owner = [m \in Mutex |-> None]
    /\ sharers = [m \in Mutex |-> {}]

\* t's next step.
Doing(t, do, what) == op[t] # None /\ Program[op[t]][at[t]] = [do |-> do, what |-> what]

\* t goes on to the step after this one, or has finished.
Advance(t) ==
    IF at[t] = Len(Program[op[t]])
    THEN /\ op' = [op EXCEPT ![t] = None]
         /\ at' = [at EXCEPT ![t] = 1]
    ELSE /\ op' = op
         /\ at' = [at EXCEPT ![t] = @ + 1]

Call(t, o) ==
    /\ op[t] = None /\ o \in Offers[t]
    /\ op' = [op EXCEPT ![t] = o]
    /\ UNCHANGED <<at, owner, sharers>>

\* No mutex of the code is recursive.
Lock(t, m) ==
    /\ Doing(t, "lock", m)
    /\ owner[m] = None /\ sharers[m] = {}
    /\ owner' = [owner EXCEPT ![m] = t]
    /\ Advance(t)
    /\ UNCHANGED sharers

Share(t, m) ==
    /\ Doing(t, "share", m)
    /\ owner[m] = None
    /\ sharers' = [sharers EXCEPT ![m] = @ \cup {t}]
    /\ Advance(t)
    /\ UNCHANGED owner

Unlock(t, m) ==
    /\ Doing(t, "unlock", m)
    /\ owner' = [owner EXCEPT ![m] = IF @ = t THEN None ELSE @]
    /\ sharers' = [sharers EXCEPT ![m] = @ \ {t}]
    /\ Advance(t)

Access(t, d) ==
    /\ Doing(t, "read", d) \/ Doing(t, "write", d)
    /\ Advance(t)
    /\ UNCHANGED <<owner, sharers>>

Next ==
    \E t \in Thread :
        \/ \E o \in Operation : Call(t, o)
        \/ \E m \in Mutex : Lock(t, m) \/ Share(t, m) \/ Unlock(t, m)
        \/ \E d \in Data : Access(t, d)

Spec == Init /\ [][Next]_vars

-----------------------------------------------------------------------------
(* Properties.                                                               *)

\* Every variable has its type, and a mutex has one owner or some sharers.  (A
\* part of the invariant of the proofs.)
TypeOK ==
    /\ op \in [Thread -> Operation \cup {None}]
    /\ \A t \in Thread : at[t] \in 1 .. (IF op[t] = None THEN 1 ELSE Len(Program[op[t]]))
    /\ owner \in [Mutex -> Thread \cup {None}]
    /\ sharers \in [Mutex -> SUBSET Thread]
    /\ \A m \in Mutex : owner[m] # None => sharers[m] = {}

\* t waits for a mutex that u holds.
WaitsFor(t, u) ==
    \E m \in Mutex :
        \/ Doing(t, "lock", m) /\ (owner[m] = u \/ u \in sharers[m])
        \/ Doing(t, "share", m) /\ owner[m] = u

\* There are no threads of which each waits for another one.
NoDeadlock ==
    \A T \in (SUBSET Thread) \ {{}} : \E t \in T : \A u \in T : ~WaitsFor(t, u)

\* t is about to write d while u is about to access it: nothing orders the two.
Racing(t, u, d) ==
    t # u /\ Doing(t, "write", d) /\ (Doing(u, "write", d) \/ Doing(u, "read", d))

\* u is at the last step of o.
AtEnd(u, o) == op[u] = o /\ at[u] = Len(Program[o])

\* The maps of NodeInfoManager have one race, whoever registers, calls services
\* or receives meanwhile: a request() follows the pointer that getServiceInfo
\* took out of them, with data_mutex_ released, while a heartbeat changes them.
RegistryRaces ==
    \A t, u \in Thread : Racing(t, u, "registry") => AtEnd(u, "Request")

\* localNodeInfo_ has one race: a thread in getPublisherInfo or getServiceInfo
\* reads it with data_mutex_ shared, while another one that registers a topic or
\* a service writes it with local_mutex_.  The loops that announce and serve it
\* are safe, and so are writers from each other.
LocalNodeInfoRaces ==
    \A t, u \in Thread :
        Racing(t, u, "localNodeInfo") =>
            /\ Doing(u, "read", "localNodeInfo") /\ u \in sharers["data_mutex"]
            /\ owner["local_mutex"] = t

\* subscribers_ has one race: pollOnce() follows the pointers it collected, with
\* mutex_ released, while a subscriber is registered or an event handler changes
\* the list.  Registrations and handlers are safe from each other.
SubscriberRaces ==
    \A t, u \in Thread : Racing(t, u, "subscribers") => AtEnd(u, "PollSubscribers")
=============================================================================
