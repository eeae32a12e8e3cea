# A TLA+ verification of ZeroLanCom

ZeroLanCom connects the processes of a local network without a broker. A node
announces itself with UDP multicast heartbeats, learns about other nodes by
asking them for their description, connects its subscribers to their
publishers over ZeroMQ and calls their services. This directory holds TLA+
models of that machinery, TLC configurations that check them on small
instances, and TLAPS proofs, for all instances, of every safety property that
the passing runs check.

## 1. The system: inventory

| Component | State | Operations | Interacts with |
|---|---|---|---|
| `NodeInfoManager` | `localNodeInfo_` (own topics, services and `infoID`), `nodes_info_`, `nodes_info_id_`, `nodes_heartbeat_`; `data_mutex_`, `local_mutex_` | `registerLocalTopic`, `registerLocalService`, `createHeartbeat`, `processHeartbeat`, `checkHeartbeats`, `getPublisherInfo`, `getServiceInfo` | raises `node_update_event`, `node_remove_event`; fetches from peers with `Client` |
| `MulticastSender` | a UDP socket, a loop | one heartbeat per second | `createHeartbeat` |
| `MulticastReceiver` | a UDP socket, a loop | blocking `recvfrom`, filters (subnet, group, own id), then `processHeartbeat` and `checkHeartbeats` | `NodeInfoManager` |
| `SubscriberManager` | `subscribers_`, `mutex_`, a loop | registration, `updateTopicSubscriber`, `removeTopicSubscriber`, `pollOnce` | handlers of the two events; `getPublisherInfo` |
| `ServiceManager` | `handlers_`, a REP socket, a loop | `registerHandler`, `removeHandler`, `clearHandlers`, `pollOnce`, `handleRequest` | serves `get_node_info` to peers; its handlers may call services |
| `Publisher` | a PUB socket | the constructor registers the topic, `publish` | `NodeInfoManager` |
| `Client`, `request()`, `waitForService` | a REQ socket for each call | wait for the service, look it up, send, block for the answer | `NodeInfoManager`; used by applications, handlers and the fetch |
| `HeartbeatMessage`, `isInSameSubnet` | none | `encode`, `decode`, the address filter | the two multicast loops |
| `ThreadPool` | `tasks_`, `active_tasks_`, `is_running_`, workers | `start`, `stop`, `enqueue`, `wait` | runs the four loops |
| `PeriodicTask` | `is_running_`, a promise | `start`, `stop`, the loop | one for each loop |
| `ZeroLanComNode`, `Singleton` | which singletons exist, `running` | `init`, `shutdown`, `spin`, `stop` | builds and destroys everything |
| Codec, logger, bindings, examples | none that matters here | | |

What is hard in this system:

* *discovery*: versions are compared by a number that crosses a signed field;
  the answer of a fetch may be newer than the heartbeat that caused it;
  heartbeats are lost, duplicated and reordered; a peer dies at any point; the
  receive loop releases its lock around the fetch and around the update event
  while the application registers things;
* *threads*: five threads or more share four data structures under three
  mutexes; a condition variable connects clients, workers and waiters;
* *shutdown*: loops that block, a wait with a timeout, a second caller;
* *service calls*: a blocking client without a timeout, a REP socket that must
  answer before it receives, handlers on the one thread of the service loop,
  a status that the client does not look at;
* *rates and sizes*: one datagram per 100 ms, a bounded socket buffer, fetches
  in the receive loop, two seconds of tolerated silence, a 1024-byte receive
  buffer, one message per socket and round, ZeroMQ's high-water mark;
* *delivery*: callbacks that throw in the middle of a round, sockets that lose
  a connection between poll and recv.

`PROJECT.json` lists the hazards one by one, at their lines.

## 2. The modules

```
NodeInfo  <--  Directory            what discovery promises
   ^               ^ refinement
   |               |
   +------ Discovery <-- MCDiscovery      (TLC)
                 ^------ DiscoveryProofs  (TLAPS)
TaskPool                            what the pool promises
   ^ refinement
   |
ThreadPool                          the pool                (TLC)
   ^-------- ThreadPoolProofs                               (TLAPS)
NodeLifecycle                       init, loops, stop       (TLC)
   ^-------- NodeLifecycleProofs                            (TLAPS)
NodeLocks <-- MCNodeLocks           mutexes and shared data (TLC)
   ^-------- NodeLocksProofs                                (TLAPS)
ServiceRpc <-- MCServiceRpc         service calls           (TLC)
   ^-------- ServiceRpcProofs                               (TLAPS)
Heartbeat <-- HeartbeatChannel <-- MCHeartbeat
                    |               bytes and rates         (TLC)
                    ^-- HeartbeatProofs                     (TLAPS)
                              ^-- HeartbeatTimingProofs     (TLAPS)
PubSub <-- MCPubSub                 delivery of messages    (TLC)
   ^-------- PubSubProofs                                   (TLAPS)
```

**NodeInfo** has the data: a `NodeInfo` record, its versions (`Older`), the
conversions of `infoID`, the URLs of publishers and what the two event
handlers do to a list of subscribers. A node's UUID, name and address are one
identity; a restarted process has a new UUID and is another node. A port is
the position of the publisher in the node's list: no two publishers of a node
share one.

**Discovery** has one action per critical section of the receive loop
(`ReceiveHeartbeat`, `FetchReply` or `FetchFail`, `UpdateNode`,
`TriggerUpdate`, `CheckHeartbeats`), the sender (`SendHeartbeat`), the
application's registrations, a lossy network that keeps datagrams in a set
(so they may be overtaken, and arrive after newer ones) and a clock.
`_registerTopicSubscriber` is two actions, because what it reads from the
registry may be outdated when it appends the subscriber: `registering` is the
subscriber it builds while it holds `mutex_`, for which `TriggerUpdate` and an
evicting `CheckHeartbeats` wait. The order of the two mutexes is the subject
of NodeLocks; here a registration takes both in one step. `Tick` is
independent of all other steps: nothing bounds how long a step takes.

**Directory** is the abstract specification: nodes publish growing
descriptions, views take over published versions and never an older one,
and may forget peers. `ImplementsDirectory` maps `published` to
`localNodeInfo` and `view` to `nodes_info`.

**ThreadPool** has one action per critical section and one per step between
two of them. `is_running_` is a plain `bool` that `enqueue()`, `stop()` and
`start()` test without the mutex: those tests are steps of their own. One
controller calls `start()` and `stop()`, as the node does. Tasks in `Endless`
may return or not; the others do. `late` records the tasks that were pushed
after `stop()` had cleared `is_running_`.

**TaskPool** is its abstract specification: a queue from which tasks begin in
order, at most `Size` at a time, and a `wait()` that returns when what was
submitted before the call has finished; no threads, locks, notifications or
restarts. `ImplementsTaskPool` maps `running` to the tasks in the hands of the
workers.

**NodeLifecycle** follows `init()` through the constructor's list, the four
loops through `PeriodicTask::runLoop`, and each caller of `stop()` through its
three parts: stop the loops, stop and join the pool, destroy the singletons.
`Peers` says whether other nodes exist; `inbox` holds the node's own
heartbeats, which multicast loops back. A callback may wait in a call that has
no timeout (`Block`): the receive loop in a fetch, the poll loop in `recv` of a
socket that an eviction emptied, the service loop in a handler's `request()`.
Whether it ever comes back (`Unblock`) is up to others.

**NodeLocks** describes each operation by the sequence of its lock, unlock,
read and write steps. A race is a state in which two threads are about to
access the same object and one of them to write. Mutexes under which no other
one is taken (those of `Event` and of the logger) are left out.

**ServiceRpc** has the three kinds of threads that call services: application
threads, the service loop inside a handler, and the receive loop inside a
fetch. `call[t]` is the state of a thread's call and `inbox[n]` the requests
that wait at the REP socket of `n`. A handler is two steps (`StartHandler`,
`SendResponse`) so that it can make a call in between; `rep[n] = "jammed"` is
the REP socket that owes an answer pollOnce will never send. An answer is a
status and a payload that is empty or one value; as in the code the client
only looks at the payload. The registry is reduced to the services it lists
for each peer, with `FetchNodeInfo`, `ReceiveResponse` and `Forget` for what
Discovery has in full. `getServiceInfo` returns some listed node: the order of
an `unordered_map` is arbitrary.

**Heartbeat** holds the operators for the wire format over bytes of any base and
integers of any width (`DecodeInt` of one word, `ReadInt` at an offset);
**HeartbeatChannel** sends such bytes in time. A slot is
one round of the receive loop (100 ms in the code), every sender sends once
per `Period`, the loop reads one datagram per slot and none while it waits
for a fetch, and `checkHeartbeats` counts whole seconds. What is computed takes
no time.

**PubSub** follows messages from `publish` through the connection of each
subscriber to its callback. A round of the poll loop is `Collect` (under
`mutex_`), `Poll`, and then one `Deliver` or `DeliverAndThrow` for each ready
socket in order. ZeroMQ is external and modelled by what its documentation
says: a connection carries messages from the moment the subscription arrives
(`Join`), in order, up to the high-water mark, and `disconnect` discards what is
queued. `overflow` and `emptied` only record that. Messages are numbered so that
order and gaps show; a publisher in `Busy` publishes for ever, and its messages
are not.

Definitions marked as a *slip* change one operation the way a plausible
mistake would; nothing uses them but the mutants of `PROJECT.json`, which
show that each property notices its mistake.

## 3. What the runs show

Passing runs:

| Run | Instance | Properties |
|---|---|---|
| `discovery_safety` | 3 nodes in 2 groups, 3 registrations (topics and services), 2 subscribers, a crash, `Half = 2` so that the second version is negative in the signed field | `TypeOK`, `NoFetchMeansCurrent`, `SubscribersFollowRegistry`, `NoGhostConnections`, `RegistryConsistent`, `RegistryJustified`, `ImplementsDirectory` |
| `discovery_live` | 3 nodes of one group, 1 registration by a node that does not crash, 1 subscriber, a crash of another node | `RegistrationsSpread`, `SubscribersConnect`, `DeadAreForgotten` |
| `pool` | 2 workers, 2 clients that both push and wait, 2 tasks, one of which need not return, 2 starts | `TypeOK`, `StopDrains`, `ActiveCounts`, `NoLostWakeup`, `ImplementsTaskPool`, `PushedTasksRun`, `StopReturns`, `WaitReturns` |
| `lifecycle` | 2 calls of `init()`, other nodes on the network, loops that may block | `NoUseAfterDestroy`, `RunningIsComplete`, `CleanRestart`, `ShutdownReturns` |
| `locks` | the four loops and two application threads that register and call services; no peer falls silent | `NoDeadlock`, `RegistryRaces`, `LocalNodeInfoRaces`, `SubscriberRaces` |
| `service` | 2 nodes, 2 services, one of which calls the other, 1 application thread, fetches in both directions, a crash, handlers that are removed, handlers that throw anything | `TypeOK`, `RequestsConserved`, `ListedIsServed`, `NoCircularWait`, `LearntServicesStay`, `RequestsReturn` |
| `heartbeat` | 4 senders, one of them a stranger, 1 registration each, `Period = 6`, `Capacity = 4` | `AcceptedIsSent`, `NothingDropped`, `HeardInTime` |
| `pubsub` | 2 subscribers, 3 publishers, one of which never stops, one sends 3 messages and one sends 1, a high-water mark of 2, 1 eviction, any number of exceptions | `TypeOK`, `InOrderOnce`, `NoneMissing`, `BlocksOnlyAfterRemoval`, `QueuedAreDelivered` |

In words: discovery keeps the three maps of a registry in agreement and holds
only real versions of nodes it may hear of; it skips a fetch only when that
loses nothing; subscribers are connected to exactly what is listed, under
every interleaving of registrations, updates and evictions; what is registered
reaches the peers in spite of lost datagrams and failed fetches; dead nodes are
forgotten as long as somebody else is heard of. The pool loses no wakeup,
runs what was queued before it stops, and to its callers it is a queue. A node
can be shut down and started again; one that says it runs is complete. Each of
the three shared structures has one kind of race, which is named. A request is
never lost, served twice or answered by another node; a service is listed only
when its handler exists; `request()` returns unless the node it asked is dead,
jammed or waits for such a node. A heartbeat that passes the filters is one a
companion sent, field by field; a receive loop that is fast enough drops
nothing and never takes a running node for dead. Callbacks get the messages of
a connection in order and once, and an exception in one of them takes nothing
away from the others.

Runs that end in a counterexample, each against what a comment, a test or a
document of the repository says (quoted in `PROJECT.json`):

| Run | What happens |
|---|---|
| `discovery_stalled` | a peer dies after its heartbeat; the fetch has no timeout and discovery stops |
| `lifecycle_alone` | without other nodes, `recvfrom()` never returns once the sender has stopped, and `shutdown()` joins for ever |
| `lifecycle_spin` | `spin()` and `shutdown()` both stop the node; the second one finds the flags cleared, does not join, and destroys what running loops use |
| `locks_removal` | eviction takes `data_mutex_` and then `mutex_`, the registration of a subscriber `mutex_` and then `data_mutex_` |

### What the properties leave out

Where the code does not give what one would like, the instance of the run
contains the case and the property names the exception; without the exception
TLC finds a counterexample in that very instance:

* `SubscribersConnect`, `RegistrationsSpread` and `DeadAreForgotten` leave out a
  node whose receive loop waits for the answer of a dead peer (`Stalled`), the
  state that `discovery_stalled` is about.
* `WaitReturns` lets *one* of the threads in `wait()` return. Completion wakes
  one waiting thread (`notify_one`, `thread_pool.hpp:236`); a second one may
  sleep on although everything is done, so the property fails if it asks for
  each of them. It also leaves out a task that never returns, be it enqueued
  after the call: `wait()` waits for later tasks, against the comment at
  `thread_pool.hpp:139`. If the workers have gone for good and a task was
  pushed late, nobody returns (`Stopped`).
* `StopDrains` says what `stop()` of the pool does with queued tasks: it runs
  them. The comment at `thread_pool.hpp:88` says that it "clears remaining
  tasks". What an `enqueue()` pushes that had tested `is_running_` earlier may
  be left over (`late`), and the next `start()` runs it.
* `PushedTasksRun` leaves out workers that are all taken up by tasks that do not
  return, as in a node, whose four loops occupy the pool for its whole life.
* `ShutdownReturns` leaves out a loop that stays blocked in a call without a
  timeout: the wait for a loop ends after five seconds, the join does not.
* `RegistryRaces`, `LocalNodeInfoRaces` and `SubscriberRaces` each name the one
  race there is: `Request` follows a pointer into the registry after
  `data_mutex_` is free; `getPublisherInfo` and `getServiceInfo` read
  `localNodeInfo_` under `data_mutex_` while another thread registers under
  `local_mutex_`; `pollOnce` follows pointers into `subscribers_` outside
  `mutex_`. This is against `.github/copilot-instructions.md:147`, which calls
  the public functions thread-safe. All three occur in the instance of `locks`.
  The handler map has no mutex at all, so there is nothing to state about it.
* `QueuedAreDelivered` leaves out earlier callbacks that throw again and again
  (`ThrowForEver`): an exception ends the round, and if every message of a busy
  topic raises one, the sockets after it are never read. It also leaves out a loop
  in a `recv` without a timeout (`Blocked`), where an eviction between poll and
  recv can leave it.

Other limits of the runs and of the models:

* `PeriodicTask::stop()` may return while the loop runs (`WaitTimeout`), against
  the comment at `periodic_task.hpp:65`. What keeps `NoUseAfterDestroy` true for
  a single stopper is the join that follows.
* `SubscribersConnect` is about publishers of *other* nodes. A subscriber that is
  registered before a publisher of its own node is never connected to it: the
  receive loop ignores the node's own heartbeats (`multicast.cpp:143`) and
  `registerLocalTopic` raises no event. `test_pubsub.cpp` skips when it gets no
  message in this situation.
* `service` has handlers that call in one direction. With `Nested` in a circle, or
  a handler that calls a service of its own node, `NoCircularWait` fails: the
  service loop waits for itself. `CheckInterval` is positive; with 0,
  `waited_ms` stays 0 and `waitForService` never gives up.
* A peer that took its handlers away answers a fetch with `NOSERVICE` and an
  empty payload, which the client takes for a success: the registry then holds
  a description without entries (and an `infoID` that was never written).
  `LearntServicesStay` leaves out exactly the nodes in `Unhandling`.
* `handleRequest` answers a request that does not decode with
  `INVALID_RESPONSE` and a response that does not encode with
  `INVALID_REQUEST`; `Outcomes` keeps what the code does. No caller sees it.
* `heartbeat` has a load that fits a period (`Schedulable`, below). With more
  datagrams per period than slots the loop falls behind for good (`Period = 3`
  and four senders: `NothingDropped` fails); in the code the limit is ten datagrams
  per second, those of other groups and the node's own included. A fetch that
  takes longer than a period fills the buffer and lets running nodes expire (three
  senders, `Period = 4`, `MaxFetch = 6`: `NothingDropped` fails, and even with
  `Capacity = 12` `HeardInTime` does).
* A group name of more than 968 bytes does not fit the receive buffer, and nodes
  with such a name never accept each other's heartbeats (`NameFits`).
* PubSub takes each operation on a SUB socket for atomic; in the code the
  receive loop connects and disconnects sockets that the poll loop reads
  without a common mutex, which ZeroMQ does not allow.
* Discovery reads the node's own topics atomically, which is right for one
  registering thread, and takes both mutexes of a registration at once, so that
  it goes on where the code may be stuck as in `locks_removal`. Its safety
  results are not affected by this; its liveness results are about executions
  in which that deadlock does not happen.
* A `connect` that throws in the middle of an update event
  (`subscriber_manager.cpp:93`) would leave the subscribers after it
  unconnected; in Discovery it succeeds, because a URL that a peer announces is
  well-formed. A fetch that a peer answers with an empty payload is a subject of
  ServiceRpc and not of Discovery.
* A request with more than two frames (`service_manager.cpp:118`) runs its handler,
  cannot be answered while frames are left, and jams the REP socket a round
  later; ServiceRpc has the message with too few frames
  (`ReceiveMalformed`), which jams it at once. The clients of the library send
  neither.

### Bounds

`MaxInfoID`, `MaxRegistrations`, `MaxSubscribers`, `MaxStarts`, `MaxInits`,
`Buffer`, `MaxSent`, `MaxRemovals`, `MaxFetch` and the set `Task`
bound the runs; in the proofs they are arbitrary constants. Two
registrations give a version that is skipped, one that is negative in the
signed field, and a fetch that answers with a newer version than announced.
Two subscribers of one topic are needed for an eviction that forgets one.
`Timeout` is 1 instead of 2 seconds; ages are capped one above it, where
comparing no longer tells them apart. `Observer` is the set of nodes whose
receive loop is fed: registries of different nodes do not influence each
other, so one observer of several peers shows all that a registry can do.
`Crashable` restricts who may die. A registry entry's age advances for all
nodes together. Three threads at the pool (two clients and the controller)
with two workers make every pair of steps meet; two starts let a task survive a
stop. Both clients may wait, and one task need not return, so that a second waiter
and a pool that is never idle occur. In the locks model one thread
stands for each loop, as in the code, and two application threads for any
number: a race or a circle of two mutexes needs no more.

In `service`, `MaxWait` is one check interval, which is enough for a service to be
missing, found at once or found on the second look; `Crashable`, `Unhandling`
and `Exposed` say which node does what, so that each way of failing meets both
sides of a call. In `heartbeat` a byte is a bit and an integer has two of them:
`FirstInfoID = 1` and one registration cross the sign; group names of one to
three bits are a prefix of the group's, the group's and one that is cut off.
`Period = 6` and `Capacity = 4` are the least values that `Schedulable` allows
for four senders, two of which may be fetched from; all phases of the senders
are initial states. In `pubsub` two messages of a connection can wait, the third
is an overflow, two publishers share a socket, and one of them never stops, so
that rounds never run out of messages.

`CHECK_DEADLOCK` is off: a network may fall silent, an application need not
call anything, and `NoDeadlock` and `NoCircularWait` state what deadlock means for
mutexes and for service loops.

### Fairness

`FairSpec` of Discovery: the loops of a running node keep running (weak
fairness for the sender, for the steps between `recvfrom()` calls, and for a
registration to end) and the clock advances. If a loop is in `recvfrom()` again
and again, and datagrams of a peer come again and again, it receives one of
them again and again (the network is lossy, not disconnected), and a fetch
that is tried again and again from a running peer succeeds at last. Nothing is fair
about starting, crashing, registering, losing a datagram or failing. Of
ThreadPool: threads that can run do, but a worker that executes a task in
`Endless` owes nothing; nobody must call anything, and no
condition variable must wake spuriously. Of NodeLifecycle: the same, with
`Receive` enabled only when there is a datagram; nothing is fair about a callback
that has blocked. Of ServiceRpc: the threads
that make a call keep running, handlers return, and a REP socket takes waiting
requests in turn, which is ZeroMQ's fair queueing; a jammed or dead node owes
nothing. Of PubSub: the poll loop keeps running and a socket reads its
connections in turn, fair queueing again; callbacks may throw or not as they
like. HeartbeatChannel has no fairness: its
time steps wait for what is due, and its properties are safety. All temporal
counterexamples are found under this fairness.

## 4. What is proved

Each `*Proofs.tla` module extends the module it is about and is checked by TLAPS
from the named assumptions on the constants, which TLC evaluates on every run.
The argument has one shape throughout: an inductive invariant (`IInv`, or
`TypeInv`, `RegistryInv` and `SubscriberInv` in Discovery) that holds initially,
is kept by every action, one step of the proof for each, and implies the
property of the run. The invariants were checked with TLC on the instances of
the runs before they were proved.

**DiscoveryProofs**, for any sets of nodes, topics and services, any groups and
subnets, any timeout and bounds. Assumed: `Half` positive, `MaxInfoID < 2 * Half`
so that no version number is used twice, `MaxRegistrations` at most
`MaxInfoID`, `Absent` different from all values.

* `TypeCorrect`: `Spec => []TypeOK`. `TypeOK` is not inductive: what the
  receive loop has in hand must exist when it is used. `TypeInv` adds `InHand`.
* `RegistryIsConsistent`, `RegistryIsJustified`, `CacheCoherent`: from
  `RegistryInv`, which adds `LoopConsistent` (the peer being processed passed
  the filters; the reply in hand is a version the peer had and no older than
  the one in the registry). The heart is that `Older` is an order and that a
  registration makes a strictly newer version.
* `DiscoveryImplementsDirectory`: every step maps to `Publish`, `Learn`,
  `Forget` or a stutter.
* `SubscribersAlwaysFollow`, `NeverGhostConnections`: from `SubscriberInv`,
  by which every subscriber, also the one being registered, is connected to
  exactly what the registry and the node itself list, but for the peer whose
  update event is still to be handled; and the URLs of a node carry its own
  address, so that evicting one node never disconnects another.

**ThreadPoolProofs**, for any number of workers, any clients and tasks and any
number of restarts. Assumed: the workers are finitely many and at least one,
which the constructor sees to (`thread_pool.hpp:44`).

* `TypeCorrect`, `ActiveExact` (`ActiveCounts`), `QueueDrained` (`StopDrains`):
  they are proved together, because each needs the others. The invariant adds
  `Conservation` (a pushed task is in one place, queued, in the hands of one
  worker or finished), `Handles` (a client that has passed the unlocked test of
  `is_running_` holds a task that nobody else holds and nobody has pushed, a
  worker that executes holds one) and `Threads` (a `start()` finds no worker of
  the previous one). That `active_tasks_`, a `size_t`, never goes below 0 is
  the type of the counter: it is the cardinality of a set that contains the
  worker about to decrement it.
* `WakeupsKept` (`NoLostWakeup`), which is inductive with the types.
* `PoolImplementsTaskPool` (`ImplementsTaskPool`): a push is `Submit`, the
  critical section that takes a task `Begin`, the return of the task `End`, and
  every other step of a worker, client or controller a call or return of
  `wait()` or a stutter. Three facts carry it. A client that pushes holds a task
  that is nowhere yet. A worker about to take a task executes none, so fewer
  than `Size` run. An empty queue and a counter at 0 leave no place but
  `finished` for a task that was pushed, so `wait()` returns no earlier than
  the abstract one.

**NodeLifecycleProofs**, for any number of `init()` calls, with or without peers.

* `LoopsAreSafe` (`NoUseAfterDestroy`), `RunningNodesAreComplete`
  (`RunningIsComplete`) and `RestartIsClean` (`CleanRestart`) under the
  hypothesis `Stopper = {"shutdown"}`; with `spin()` as a second caller the first
  is false, which is what `lifecycle_spin` shows. None of them is
  inductive. `Order` says which singletons exist at each step of the
  constructor and of `stop()`, when the pool runs, and which loops may be active
  or have their flag set; the proof hangs on the fact that `stop()` reaches the
  first `destroy()` only through the join, whether or not the wait for a loop
  has timed out.

**NodeLocksProofs**, for any threads and any way to distribute the operations
among them. A lemma for each operation reads off its text which mutexes it holds
at each step (`Disciplined`); the invariant `Holding` says that a thread holds
exactly those.

* `RegistryRacesKnown` (`RegistryRaces`), `LocalNodeInfoRacesKnown`
  (`LocalNodeInfoRaces`), `SubscriberRacesKnown` (`SubscriberRaces`), without any
  hypothesis: two threads at conflicting steps hold mutexes that exclude each
  other, but for the steps the properties name.
* `DeadlockFree` (`NoDeadlock`), unless one thread removes silent nodes and
  another one registers a subscriber. The deadlock of `locks_removal` is thus
  the only one between these mutexes.

**ServiceRpcProofs**, for any nodes, services and threads, any nesting of
services and any nodes that crash, take handlers away or whose handlers throw.

* `TypeCorrect`, `NoRequestLost` (`RequestsConserved`).
* `ServicesAreServed` (`ListedIsServed`) and the action property `ServicesStay`
  (`LearntServicesStay`). The invariant follows a service from the handler map to
  the node's own list, to the answers under way and to the registries of other
  nodes (`Registrations`, `Learnt`, `Calls`), each a subset of the one before.
* `NoCircle` (`NoCircularWait`), for every assignment of levels to nodes such
  that handlers only call services of lower ones (`Layered`): the waiting node
  of the lowest level waits for nobody. The instance of `service` has such
  levels, which an assumption of `MCServiceRpc` states.

**PubSubProofs**, for any publishers, subscribers, topics and high-water marks.

* `TypeCorrect`, `DeliveredInOrder` (`InOrderOnce`), `NothingMissing`
  (`NoneMissing`), `BlocksAfterRemovalOnly` (`BlocksOnlyAfterRemoval`). For each
  connection the invariant relates the queue, the message delivered last and the
  number of messages sent (`Ordered`, `Exact`): appending, delivering,
  discarding and joining keep the relation. Of a publisher in
  `Busy`, whose messages are not counted, it only says that no more than `HWM`
  of them wait (`Uncounted`).

**HeartbeatProofs**, for any width of words, length of ids, size of the receive
buffer and capacity of the socket's, any senders and any timing.

* `WordsSurvive`: an integer of any width survives the casts, `htonl` and `ntohl`.
  `DecodeInt` adds the bytes up by recursion, and the values on the way are the
  quotients of the number by falling powers of `Base`. That the recursive
  functions exist and have one value is an induction, which is done by
  contradiction from the least place where it fails (`Least`): the induction
  theorems of the library take an operator and cannot be used. Powers are the
  function `Power` instead of `^`, of which the provers know nothing.
* `RoundTrip`: `decode` inverts `encode`, and the receive buffer leaves a
  datagram that fits alone. The proof takes the seven joined fields apart at
  their offsets.
* `OnlySentAccepted` (`AcceptedIsSent`): the socket buffer only holds what has
  been sent so far, and what passes the filters can only be a peer's. Its
  hypotheses are that the group names fit the receive buffer and that no stranger's
  datagram reads like a heartbeat of the group (`ForeignIgnored`); an assumption
  of `MCHeartbeat` (`HypothesesHold`) checks these, and `Schedulable` below, for
  the instance of `heartbeat`.

**HeartbeatTimingProofs**, for any number of senders in any phases, any fetch
time, period and timeout. `Load(S)` is what reading one datagram of every node in
`S` costs at most: a slot each, and `MaxFetch` slots for each peer. Under the
hypotheses above and `Schedulable` (the load of all senders fits a period, the
socket buffer has room for one datagram of each):

* `NeverOverflows` (`NothingDropped`), `NobodyMissed` (`HeardInTime`). Neither is
  inductive, and no bound on the queue alone is: it does not say whose datagrams
  wait. The invariant `Timely` is a busy-period argument. There are a sender for
  each waiting datagram, no two the same, and a set `B` of those who have sent
  since the loop was idle last, `k` slots ago (`Schedule`); what is left of the
  fetch, the load of the waiting datagrams and `k` together are at most
  `Load(B)`. As that fits a period, the loop is idle again before anybody in
  `B` sends a second time, which is why a set is enough. So a
  heartbeat is read before its sender's next one, the buffer never holds more
  than one of each, and a node is silent for less than two periods.
  The invariant was checked with TLC for three senders and `Period = 4` with
  `Timeout` 1 and 2.

In the code a period has ten slots and strangers on the port count as senders:
with fetches that take a slot, `Schedulable` admits five nodes of a group, with
fetches that are over within the round ten.

Only model-checked is all liveness (`RegistrationsSpread`, `SubscribersConnect`,
`DeadAreForgotten`, `PushedTasksRun`, `StopReturns`, `WaitReturns`,
`ShutdownReturns`, `RequestsReturn`, `QueuedAreDelivered`): fairness and `ENABLED`
are out of the prover's reach.

## 5. What is not modelled, and the plan

Not modelled:

* the MessagePack templates beyond the exceptions they throw, and the byte buffer
  under them: no decision of the program depends on their contents;
* the logger (output only), the Python bindings and the examples (callers);
* ZeroMQ and UDP beyond what the code relies on; socket options;
* ports that a new process takes over: `fetchNodeInfo` would store the answer
  under the dead node's id. Ports are identities here;
* `ByteBuffer::write` and the exhaustion of memory;
* `NodeInfoManager::removeNode`, `checkNodeID` and `checkNodeInfoID`, which
  nothing calls.

What is left: `Schedulable` charges a fetch to every heartbeat of a peer,
although a peer is fetched from once per registration, unless the fetch fails; a
condition that counts registrations would admit up to ten nodes.
