---------------------------- MODULE PubSubProofs ----------------------------
(* Theorems about PubSub, for every set of publishers and subscribers, every *)
(* high-water mark and every bound.                                          *)
EXTENDS PubSub, SequenceTheorems, TLAPS

-----------------------------------------------------------------------------
(* The queue of one connection, with the message delivered last and the      *)
(* number of messages sent.                                                  *)

\* A queue that has taken a message is not empty.
LEMMA NeverEmpty == \A q \in Seq(Nat), m \in Nat : Append(q, m) # <<>>
<1> SUFFICES ASSUME NEW q \in Seq(Nat), NEW m \in Nat PROVE Append(q, m) # <<>>
  OBVIOUS
<1>1. Len(Append(q, m)) = Len(q) + 1 /\ Len(q) \in Nat
  BY AppendProperties, LenProperties
<1> QED
  BY <1>1, Len(<<>>) = 0

\* What waits was sent, and is newer than what was delivered and than what waits
\* in front of it.
Ordered(q, l, s) ==
    /\ q \in Seq(Nat) /\ l \in Nat /\ s \in Nat /\ l <= s
    /\ \A k \in 1 .. Len(q) : q[k] <= s /\ q[k] > (IF k = 1 THEN l ELSE q[k - 1])

\* What waits is everything that was sent after what was delivered last.
Exact(q, l, s) == Len(q) = s - l /\ \A k \in 1 .. Len(q) : q[k] = l + k

\* A publisher's next message is put behind the ones that wait.
LEMMA AppendNext ==
    ASSUME NEW q, NEW l, NEW s, Ordered(q, l, s)
    PROVE  /\ Ordered(Append(q, s + 1), l, s + 1)
           /\ Exact(q, l, s) => Exact(Append(q, s + 1), l, s + 1)
<1> DEFINE r == Append(q, s + 1)
<1>1. /\ r \in Seq(Nat) /\ Len(q) \in Nat /\ Len(r) = Len(q) + 1 /\ r[Len(q) + 1] = s + 1
      /\ \A k \in 1 .. Len(q) : r[k] = q[k]
  BY DEF Ordered
<1>2. ASSUME NEW k \in 1 .. Len(r)
      PROVE  r[k] <= s + 1 /\ r[k] > (IF k = 1 THEN l ELSE r[k - 1])
  <2>1. CASE k \in 1 .. Len(q)
    <3>1. k # 1 => k - 1 \in 1 .. Len(q)
      BY <1>1, <2>1
    <3>2. r[k] = q[k] /\ (k # 1 => r[k - 1] = q[k - 1])
      BY <1>1, <2>1, <3>1
    <3>3. q[k] \in Nat /\ q[k] <= s /\ q[k] > (IF k = 1 THEN l ELSE q[k - 1])
      BY <2>1 DEF Ordered
    <3>4. s \in Nat
      BY DEF Ordered
    <3> HIDE DEF r
    <3> QED
      BY <3>2, <3>3, <3>4
  <2>2. CASE k = Len(q) + 1
    <3>1. r[k] = s + 1 /\ s \in Nat /\ l \in Nat /\ l <= s
      BY <1>1, <2>2 DEF Ordered
    <3>2. CASE k = 1
      BY <3>1, <3>2
    <3>3. CASE k # 1
      <4>1. k - 1 \in 1 .. Len(q)
        BY <1>1, <2>2, <3>3
      <4>2. r[k - 1] = q[k - 1] /\ q[k - 1] \in Nat /\ q[k - 1] <= s
        BY <1>1, <4>1 DEF Ordered
      <4> HIDE DEF r
      <4> QED
        BY <3>1, <3>3, <4>2
    <3> QED
      BY <3>2, <3>3
  <2> QED
    BY <1>1, <2>1, <2>2
<1>3. ASSUME Exact(q, l, s) PROVE Exact(r, l, s + 1)
  <2>1. l \in Nat /\ s \in Nat /\ Len(q) = s - l
    BY <1>3 DEF Exact, Ordered
  <2>2. ASSUME NEW k \in 1 .. Len(r) PROVE r[k] = l + k
    <3>1. k \in 1 .. Len(q) \/ k = Len(q) + 1
      BY <1>1
    <3> HIDE DEF r
    <3> QED
      BY <1>1, <1>3, <2>1, <3>1 DEF Exact
  <2> HIDE DEF r
  <2> QED
    BY <1>1, <2>1, <2>2 DEF Exact
<1> QED
  BY <1>1, <1>2, <1>3 DEF Ordered

\* A message that does not enter the queue leaves it in order.
LEMMA SkipNext ==
    ASSUME NEW q, NEW l, NEW s, Ordered(q, l, s) PROVE Ordered(q, l, s + 1)
BY DEF Ordered

\* Taking the oldest message leaves the rest in order behind it.
LEMMA TakeOldest ==
    ASSUME NEW q, NEW l, NEW s, Ordered(q, l, s), q # <<>>
    PROVE  /\ Ordered(Tail(q), Head(q), s)
           /\ Exact(q, l, s) => Exact(Tail(q), Head(q), s)
<1> DEFINE r == Tail(q)
<1>1. /\ r \in Seq(Nat) /\ Len(q) \in Nat /\ Len(q) >= 1 /\ Len(r) = Len(q) - 1 /\ Head(q) = q[1]
      /\ \A k \in 1 .. Len(r) : r[k] = q[k + 1] /\ k + 1 \in 1 .. Len(q)
  BY DEF Ordered
<1>2. q[1] \in Nat /\ q[1] <= s /\ q[1] > l
  BY <1>1 DEF Ordered
<1>3. ASSUME NEW k \in 1 .. Len(r)
      PROVE  r[k] <= s /\ r[k] > (IF k = 1 THEN q[1] ELSE r[k - 1])
  <2>1. q[k + 1] <= s /\ q[k + 1] > q[k]
    BY <1>1 DEF Ordered
  <2>2. k # 1 => r[k - 1] = q[k]
    BY <1>1
  <2> HIDE DEF r
  <2> QED
    BY <1>1, <2>1, <2>2
<1>4. ASSUME Exact(q, l, s) PROVE Exact(r, q[1], s)
  <2>1. l \in Nat /\ s \in Nat /\ Len(q) = s - l /\ q[1] = l + 1
    BY <1>1, <1>3, <1>4 DEF Exact, Ordered
  <2>2. ASSUME NEW k \in 1 .. Len(r) PROVE r[k] = q[1] + k
    <3>1. r[k] = q[k + 1] /\ q[k + 1] = l + (k + 1)
      BY <1>1, <1>4 DEF Exact
    <3> HIDE DEF r
    <3> QED
      BY <2>1, <3>1
  <2> HIDE DEF r
  <2> QED
    BY <1>1, <2>1, <2>2 DEF Exact
<1> QED
  BY <1>1, <1>2, <1>3, <1>4 DEF Ordered

\* An empty queue is in order.
LEMMA EmptyQueue ==
    ASSUME NEW l \in Nat, NEW s \in Nat, l <= s
    PROVE  Ordered(<<>>, l, s) /\ Exact(<<>>, s, s)
BY DEF Ordered, Exact

-----------------------------------------------------------------------------
(* The inductive invariant.                                                  *)

\* Everything but the contents of the queues has its type.
Fields ==
    /\ sent \in [Publisher -> Nat] /\ \A p \in Publisher : sent[p] <= MaxSent[p]
    /\ queue \in [Subscriber -> [Publisher -> Seq(Nat)]]
    /\ last \in [Subscriber -> [Publisher -> Nat]]
    /\ count \in 0 .. Len(SubTopic) /\ subs \in 0 .. count
    /\ listed \subseteq Publisher
    /\ urls \in [Subscriber -> SUBSET Publisher]
    /\ joined \in [Subscriber -> SUBSET Publisher]
    /\ overflow \in [Subscriber -> SUBSET Publisher]
    /\ emptied \subseteq Subscriber
    /\ removals \in 0 .. MaxRemovals

\* A poll item waits to be read only while a round is gone through.
Round ==
    /\ pc \in {"sleep", "poll", "scan"}
    /\ ready \subseteq 1 .. subs
    /\ pc # "scan" => ready = {}

\* Messages that are not counted.
Uncounted(q, l) == q \in Seq({0}) /\ l = 0

\* A connection holds what was sent since the last delivery, in order and up to
\* the high-water mark; without the connection nothing waits.
Connection(i, p) ==
    /\ p \in Busy => Uncounted(queue[i][p], last[i][p]) /\ sent[p] = 0
    /\ p \notin Busy => Ordered(queue[i][p], last[i][p], sent[p])
    /\ Len(queue[i][p]) <= HWM
    /\ p \notin joined[i] => queue[i][p] = <<>>
    /\ p \in joined[i] \ (overflow[i] \cup Busy) => Exact(queue[i][p], last[i][p], sent[p])

Connections == \A i \in Subscriber, p \in Publisher : Connection(i, p)

IInv == Fields /\ Round /\ Connections /\ BlocksOnlyAfterRemoval

\* The invariant implies the types that the run checks.
LEMMA TypesFollow == IInv => TypeOK
<1> SUFFICES ASSUME IInv PROVE TypeOK
  OBVIOUS
<1> USE DEF IInv
<1>1. ASSUME NEW i \in Subscriber, NEW p \in Publisher
      PROVE  /\ queue[i][p] \in UNION {[1 .. n -> Message(p)] : n \in 0 .. HWM}
             /\ last[i][p] \in 0 .. MaxSent[p]
  <2> DEFINE q == queue[i][p]
  <2>1. /\ sent[p] \in Nat /\ MaxSent[p] \in Nat /\ sent[p] <= MaxSent[p] /\ q \in Seq(Nat)
        /\ Connection(i, p)
    BY BoundAssumption DEF Fields, Connections
  <2>2. Len(q) \in 0 .. HWM
    BY <2>1, HWMAssumption DEF Connection
  <2>3. last[i][p] \in 0 .. MaxSent[p]
    BY <2>1 DEF Connection, Ordered, Uncounted
  <2>4. ASSUME NEW k \in 1 .. Len(q) PROVE q[k] \in Message(p)
    <3>1. CASE p \in Busy
      <4>1. q \in Seq({0})
        BY <2>1, <3>1 DEF Connection, Uncounted
      <4> HIDE DEF q
      <4>2. q[k] \in {0}
        BY <4>1, ElementOfSeq
      <4> QED
        BY <3>1, <4>2 DEF Message
    <3>2. CASE p \notin Busy
      <4>1. /\ q[k] \in Nat /\ q[k] <= sent[p] /\ q[k] > (IF k = 1 THEN last[i][p] ELSE q[k - 1])
            /\ last[i][p] \in Nat
        BY <2>1, <3>2 DEF Connection, Ordered
      <4> HIDE DEF q
      <4>2. ASSUME k # 1 PROVE q[k - 1] \in Nat
        <5>1. Len(q) \in Nat /\ k - 1 \in 1 .. Len(q)
          BY <2>1, <4>2, LenProperties
        <5> QED
          BY <2>1, <5>1, ElementOfSeq
      <4> QED
        BY <2>1, <3>2, <4>1, <4>2 DEF Message
    <3> QED
      BY <3>1, <3>2
  <2>5. q \in [1 .. Len(q) -> Message(p)]
    BY <2>1, <2>4
  <2> HIDE DEF q
  <2>6. q \in UNION {[1 .. n -> Message(p)] : n \in 0 .. HWM}
    BY <2>2, <2>5
  <2> QED
    BY <2>3, <2>6 DEF q
<1>2. ASSUME NEW p \in Publisher PROVE sent[p] \in 0 .. MaxSent[p]
  <2>1. sent[p] \in Nat /\ MaxSent[p] \in Nat /\ sent[p] <= MaxSent[p]
    BY BoundAssumption DEF Fields
  <2> QED
    BY <2>1
<1> QED
  BY <1>1, <1>2 DEF TypeOK, Fields, Round

\* The initial state satisfies the invariant.
LEMMA InitIInv == Init => IInv
<1> SUFFICES ASSUME Init PROVE IInv
  OBVIOUS
<1>1. Fields
  BY SubscriberAssumption, BoundAssumption DEF Init, Fields
<1>2. Round /\ BlocksOnlyAfterRemoval
  BY DEF Init, Round, BlocksOnlyAfterRemoval
<1>3. ASSUME NEW i \in Subscriber, NEW p \in Publisher PROVE Connection(i, p)
  <2>1. /\ queue[i][p] = <<>> /\ last[i][p] = 0 /\ sent[p] = 0
    BY DEF Init
  <2>2. joined[i] = {}
    BY DEF Init
  <2>3. Ordered(<<>>, 0, 0) /\ Uncounted(<<>>, 0)
    BY EmptyQueue DEF Uncounted
  <2> QED
    BY <2>1, <2>2, <2>3, HWMAssumption DEF Connection
<1> QED
  BY <1>1, <1>2, <1>3 DEF IInv, Connections

\* A subscriber whose socket was polled is registered.
LEMMA ReadyRegistered == ASSUME Fields, Round PROVE ready \subseteq Subscriber
BY SubscriberAssumption DEF Fields, Round, Subscriber

\* A step that touches neither a queue nor what belongs to it keeps Connections.
LEMMA ConnectionsKept ==
    ASSUME Connections, UNCHANGED <<sent, queue, last, joined, overflow>>
    PROVE  Connections'
BY DEF Connections, Connection

\* publish() keeps the invariant: every queue gets the message or is full.
LEMMA PublishStep == ASSUME IInv, NEW p \in Publisher, Publish(p) PROVE IInv'
<1> USE DEF IInv, Publish
<1> DEFINE m == NextMessage(p)
<1>1. /\ sent[p] \in Nat /\ MaxSent[p] \in Nat /\ m \in Nat
      /\ p \in Busy => m = 0 /\ sent' = sent
      /\ p \notin Busy => m = sent[p] + 1 /\ sent'[p] = m /\ sent[p] < MaxSent[p]
  BY BoundAssumption DEF Fields, NextMessage, Sent
<1>2. ASSUME NEW i \in Subscriber, NEW x \in Publisher, x # p
      PROVE  queue'[i][x] = queue[i][x] /\ sent'[x] = sent[x]
  BY <1>2 DEF Fields, Sent
<1> HIDE DEF m
<1>3. ASSUME NEW i \in Subscriber
      PROVE  queue'[i][p] = IF p \in joined[i] /\ Len(queue[i][p]) < HWM
                            THEN Append(queue[i][p], m) ELSE queue[i][p]
  BY DEF Fields, m
<1>4. Fields'
  <2>1. sent' \in [Publisher -> Nat]
    BY <1>1 DEF Fields, Sent
  <2>2. ASSUME NEW x \in Publisher PROVE sent'[x] <= MaxSent[x]
    <3>1. CASE x = p
      BY <1>1, <3>1 DEF Fields
    <3>2. CASE x # p
      BY <2>1, <3>2 DEF Fields, Sent
    <3> QED
      BY <3>1, <3>2
  <2>3. queue' \in [Subscriber -> [Publisher -> Seq(Nat)]]
    BY <1>1 DEF Fields, m
  <2>4. overflow' \in [Subscriber -> SUBSET Publisher]
    BY DEF Fields
  <2> QED
    BY <2>1, <2>2, <2>3, <2>4 DEF Fields, loop
<1>5. Round'
  BY DEF Round, loop
<1>6. ASSUME NEW i \in Subscriber, NEW x \in Publisher PROVE Connection(i, x)'
  <2> DEFINE q == queue[i][x]
  <2>1. Connection(i, x) /\ last'[i][x] = last[i][x] /\ joined'[i] = joined[i]
    BY DEF Connections
  <2>2. q \in Seq(Nat) /\ Len(q) \in Nat
    BY DEF Fields
  <2>3. CASE x # p
    <3>1. x \in joined'[i] \ (overflow'[i] \cup Busy) => x \in joined[i] \ (overflow[i] \cup Busy)
      BY <2>3
    <3> QED
      BY <1>2, <2>1, <2>3, <3>1 DEF Connection
  <2>4. CASE x = p /\ p \in joined[i] /\ Len(q) < HWM
    <3>1. queue'[i][p] = Append(q, m) /\ overflow'[i] = overflow[i]
      <4>1. queue'[i][p] = Append(q, m)
        BY <1>3, <2>4
      <4>2. ~(Len(queue[i][p]) >= HWM)
        BY <2>2, <2>4, HWMAssumption
      <4> QED
        BY <4>1, <4>2
    <3>2. ASSUME p \notin Busy
          PROVE  /\ Ordered(Append(q, m), last[i][p], m)
                 /\ Exact(q, last[i][p], sent[p]) => Exact(Append(q, m), last[i][p], m)
      BY <1>1, <2>1, <2>4, <3>2, AppendNext DEF Connection
    <3>3. ASSUME p \in Busy PROVE Append(q, m) \in Seq({0})
      BY <1>1, <2>1, <2>4, <3>3 DEF Connection, Uncounted
    <3> HIDE DEF q
    <3>4. Len(Append(q, m)) <= HWM
      BY <1>1, <2>2, <2>4, HWMAssumption
    <3> QED
      BY <1>1, <2>1, <2>4, <3>1, <3>2, <3>3, <3>4 DEF Connection, Uncounted, q
  <2>5. CASE x = p /\ ~(p \in joined[i] /\ Len(q) < HWM)
    <3>1. queue'[i][p] = q
      BY <1>3, <2>5
    <3>2. p \notin joined'[i] \ overflow'[i]
      BY <2>2, <2>5, HWMAssumption DEF Fields
    <3>3. ASSUME p \notin Busy PROVE Ordered(q, last[i][p], m)
      BY <1>1, <2>1, <2>5, <3>3, SkipNext DEF Connection
    <3> HIDE DEF q
    <3> QED
      BY <1>1, <2>1, <2>5, <3>1, <3>2, <3>3 DEF Connection, q
  <2> QED
    BY <2>3, <2>4, <2>5
<1>7. BlocksOnlyAfterRemoval'
  <2> SUFFICES ASSUME NEW i \in ready', NEW x \in Publisher, queue[i][x] # <<>>
               PROVE  queue'[i][x] # <<>>
    BY DEF BlocksOnlyAfterRemoval, loop
  <2>1. i \in Subscriber
    BY ReadyRegistered DEF loop
  <2>2. queue[i][x] \in Seq(Nat)
    BY <2>1 DEF Fields
  <2>3. CASE x # p
    BY <1>2, <2>1, <2>3
  <2>4. CASE x = p
    <3>1. Append(queue[i][p], m) # <<>>
      BY <1>1, <2>2, <2>4, NeverEmpty
    <3> QED
      BY <1>3, <2>1, <2>4, <3>1
  <2> QED
    BY <2>3, <2>4
<1> QED
  BY <1>4, <1>5, <1>6, <1>7 DEF Connections

\* Registering a subscriber, and an update event, only change what the sockets
\* will connect to.
LEMMA RegistryStep ==
    ASSUME IInv, RegisterTopicSubscriber \/ \E p \in Publisher : UpdateTopicSubscriber(p)
    PROVE  IInv'
<1> USE DEF IInv
<1>1. CASE RegisterTopicSubscriber
  <2> USE <1>1 DEF RegisterTopicSubscriber
  <2>1. Fields'
    BY SubscriberAssumption DEF Fields, Subscriber, loop
  <2>2. Round' /\ BlocksOnlyAfterRemoval'
    BY DEF Round, BlocksOnlyAfterRemoval, loop
  <2> QED
    BY <2>1, <2>2, ConnectionsKept
<1>2. ASSUME NEW p \in Publisher, UpdateTopicSubscriber(p) PROVE IInv'
  <2> USE <1>2 DEF UpdateTopicSubscriber
  <2>1. Fields'
    BY DEF Fields, loop
  <2>2. Round' /\ BlocksOnlyAfterRemoval'
    BY DEF Round, BlocksOnlyAfterRemoval, loop
  <2> QED
    BY <2>1, <2>2, ConnectionsKept
<1> QED
  BY <1>1, <1>2

\* A new connection starts with the messages sent from then on.
LEMMA JoinStep ==
    ASSUME IInv, NEW i \in Subscriber, NEW p \in Publisher, Join(i, p) PROVE IInv'
<1> USE DEF IInv, Join
<1>1. Fields'
  BY DEF Fields, loop
<1>2. Round' /\ BlocksOnlyAfterRemoval'
  BY DEF Round, BlocksOnlyAfterRemoval, loop
<1>3. ASSUME NEW j \in Subscriber, NEW x \in Publisher PROVE Connection(j, x)'
  <2>1. Connection(j, x)
    BY DEF Connections
  <2>2. CASE j = i /\ x = p
    <3>1. queue[i][p] = <<>> /\ last'[i][p] = sent[p] /\ p \in joined'[i] /\ sent[p] \in Nat
      BY <2>1, <2>2 DEF Connection, Fields
    <3>2. Ordered(<<>>, sent[p], sent[p]) /\ Exact(<<>>, sent[p], sent[p])
      BY <3>1, EmptyQueue
    <3> QED
      BY <2>1, <2>2, <3>1, <3>2, HWMAssumption DEF Connection, Uncounted
  <2>3. CASE ~(j = i /\ x = p)
    <3>1. last'[j][x] = last[j][x]
      BY <2>3 DEF Fields
    <3>2. x \in joined'[j] <=> x \in joined[j]
      BY <2>3 DEF Fields
    <3>3. x \in overflow'[j] <=> x \in overflow[j]
      BY <2>3 DEF Fields
    <3> QED
      BY <2>1, <3>1, <3>2, <3>3 DEF Connection
  <2> QED
    BY <2>2, <2>3
<1> QED
  BY <1>1, <1>2, <1>3 DEF Connections

\* An eviction empties the queues of its connections and notes the sockets.
LEMMA RemoveStep ==
    ASSUME IInv, NEW p \in Publisher, RemoveTopicSubscriber(p) PROVE IInv'
<1> USE DEF IInv, RemoveTopicSubscriber
<1>1. ASSUME NEW j \in Subscriber, NEW x \in Publisher
      PROVE  queue'[j][x] = IF x = p THEN <<>> ELSE queue[j][x]
  BY DEF Fields
<1>2. Fields'
  <2>1. queue' \in [Subscriber -> [Publisher -> Seq(Nat)]]
    BY DEF Fields
  <2>2. removals' \in 0 .. MaxRemovals
    BY BoundAssumption DEF Fields
  <2> QED
    BY <2>1, <2>2 DEF Fields, loop
<1>3. Round'
  BY DEF Round, loop
<1>4. ASSUME NEW j \in Subscriber, NEW x \in Publisher PROVE Connection(j, x)'
  <2>1. Connection(j, x)
    BY DEF Connections
  <2>2. last'[j][x] = last[j][x] /\ sent'[x] = sent[x] /\ overflow'[j] = overflow[j]
    OBVIOUS
  <2>3. x \in joined'[j] <=> (x \in joined[j] /\ x # p)
    OBVIOUS
  <2>4. CASE x = p
    <3>1. x \notin Busy => Ordered(<<>>, last[j][x], sent[x])
      BY <2>1, EmptyQueue DEF Connection, Ordered
    <3>2. x \in Busy => Uncounted(<<>>, last[j][x])
      BY <2>1 DEF Connection, Uncounted
    <3> QED
      BY <1>1, <2>1, <2>2, <2>3, <2>4, <3>1, <3>2, HWMAssumption DEF Connection
  <2>5. CASE x # p
    BY <1>1, <2>1, <2>2, <2>3, <2>5 DEF Connection
  <2> QED
    BY <2>4, <2>5
<1>5. BlocksOnlyAfterRemoval'
  <2> SUFFICES ASSUME NEW j \in ready', \A x \in Publisher : queue'[j][x] = <<>>
               PROVE  j \in emptied'
    BY DEF BlocksOnlyAfterRemoval
  <2>1. j \in ready /\ j \in Subscriber
    BY ReadyRegistered DEF loop
  <2>2. CASE p \in joined[j]
    BY <2>1, <2>2
  <2>3. CASE p \notin joined[j]
    <3>1. queue[j][p] = <<>>
      BY <2>1, <2>3 DEF Connections, Connection
    <3>2. \A x \in Publisher : queue[j][x] = <<>>
      BY <1>1, <2>1, <3>1
    <3> QED
      BY <2>1, <3>2 DEF BlocksOnlyAfterRemoval
  <2> QED
    BY <2>2, <2>3
<1> QED
  BY <1>2, <1>3, <1>4, <1>5 DEF Connections

\* Collecting and polling the sockets keeps the invariant.
LEMMA PollStep == ASSUME IInv, Collect \/ Poll PROVE IInv'
<1> USE DEF IInv
<1>1. CASE Collect
  <2>1. Fields'
    BY <1>1 DEF Collect, Fields, sockets
  <2>2. Round' /\ BlocksOnlyAfterRemoval'
    BY <1>1 DEF Collect, Round, BlocksOnlyAfterRemoval, Fields
  <2> QED
    BY <1>1, <2>1, <2>2, ConnectionsKept DEF Collect, sockets
<1>2. CASE Poll
  <2>1. Fields'
    BY <1>2 DEF Poll, Fields, sockets
  <2>2. Round'
    BY <1>2 DEF Poll, Round
  <2>3. BlocksOnlyAfterRemoval'
    BY <1>2 DEF Poll, BlocksOnlyAfterRemoval, sockets
  <2> QED
    BY <1>2, <2>1, <2>2, <2>3, ConnectionsKept DEF Poll, sockets
<1> QED
  BY <1>1, <1>2

\* A message that leaves a socket is the oldest, whether its callback throws or
\* not, and the socket is not read again before the next poll.
LEMMA DeliverStep ==
    ASSUME IInv, NEW i \in Subscriber, NEW p \in Publisher,
           Deliver(i, p) \/ DeliverAndThrow(i, p)
    PROVE  IInv'
<1> USE DEF IInv
<1>1. Take(i, p)
  BY DEF Deliver, DeliverAndThrow
<1>2. ready' \subseteq ready \ {i} /\ pc' \in {"sleep", "scan"} /\ (pc' # "scan" => ready' = {})
  BY <1>1 DEF Deliver, DeliverAndThrow
<1> DEFINE q == queue[i][p]
<1>3. q # <<>> /\ Len(q) <= HWM /\ q \in Seq(Nat) /\ Head(q) \in Nat
  BY <1>1 DEF Connections, Connection, Take, Fields
<1>4. ASSUME NEW j \in Subscriber, NEW x \in Publisher
      PROVE  /\ queue'[j][x] = IF j = i /\ x = p THEN Tail(q) ELSE queue[j][x]
             /\ last'[j][x] = IF j = i /\ x = p THEN Head(q) ELSE last[j][x]
  BY <1>1 DEF Take, Fields
<1>5. Fields'
  <2>1. queue' \in [Subscriber -> [Publisher -> Seq(Nat)]]
    BY <1>1, <1>3 DEF Take, Fields
  <2>2. last' \in [Subscriber -> [Publisher -> Nat]]
    BY <1>1, <1>3 DEF Take, Fields
  <2> QED
    BY <1>1, <2>1, <2>2 DEF Fields, Take
<1>6. Round'
  BY <1>1, <1>2 DEF Round, Take
<1>7. ASSUME NEW j \in Subscriber, NEW x \in Publisher PROVE Connection(j, x)'
  <2>1. Connection(j, x)
    BY DEF Connections
  <2>2. sent' = sent /\ joined' = joined /\ overflow' = overflow
    BY <1>1 DEF Take
  <2>3. CASE j = i /\ x = p
    <3>1. queue'[i][p] = Tail(q) /\ last'[i][p] = Head(q)
      BY <1>4
    <3>2. ASSUME p \notin Busy
          PROVE  /\ Ordered(Tail(q), Head(q), sent[p])
                 /\ Exact(q, last[i][p], sent[p]) => Exact(Tail(q), Head(q), sent[p])
      BY <1>3, <2>1, <2>3, <3>2, TakeOldest DEF Connection
    <3>3. ASSUME p \in Busy PROVE Uncounted(Tail(q), Head(q))
      <4>1. q \in Seq({0})
        BY <2>1, <2>3, <3>3 DEF Connection, Uncounted
      <4> HIDE DEF q
      <4> QED
        BY <1>3, <4>1 DEF Uncounted
    <3>4. Len(Tail(q)) <= HWM
      <4> HIDE DEF q
      <4> QED
        BY <1>3, HWMAssumption
    <3>5. p \in joined[i]
      BY <1>3, <2>1, <2>3 DEF Connection
    <3> QED
      BY <2>1, <2>2, <2>3, <3>1, <3>2, <3>3, <3>4, <3>5 DEF Connection
  <2>4. CASE ~(j = i /\ x = p)
    BY <1>4, <2>1, <2>2, <2>4 DEF Connection
  <2> QED
    BY <2>3, <2>4
<1>8. BlocksOnlyAfterRemoval'
  <2> SUFFICES ASSUME NEW j \in ready', \A x \in Publisher : queue'[j][x] = <<>>
               PROVE  j \in emptied'
    BY DEF BlocksOnlyAfterRemoval
  <2>1. j \in ready /\ j \in Subscriber /\ j # i
    BY <1>2, ReadyRegistered
  <2>2. \A x \in Publisher : queue[j][x] = <<>>
    BY <1>4, <2>1
  <2> QED
    BY <1>1, <2>1, <2>2 DEF BlocksOnlyAfterRemoval, Take
<1> QED
  BY <1>5, <1>6, <1>7, <1>8 DEF Connections

-----------------------------------------------------------------------------
(* The theorems.                                                             *)

\* The invariant holds in every reachable state.
LEMMA Invariance == Spec => []IInv
<1>1. ASSUME IInv, [Next]_vars PROVE IInv'
  <2>1. CASE Next
    <3>1. CASE PollLoop
      BY <1>1, <3>1, PollStep, DeliverStep DEF PollLoop
    <3> QED
      BY <1>1, <2>1, <3>1, PublishStep, RegistryStep, RemoveStep, JoinStep DEF Next
  <2>2. CASE UNCHANGED vars
    <3> USE <1>1, <2>2 DEF IInv, vars, loop, sockets
    <3>1. Fields' /\ Round' /\ BlocksOnlyAfterRemoval'
      BY DEF Fields, Round, BlocksOnlyAfterRemoval
    <3> QED
      BY <3>1, ConnectionsKept
  <2> QED
    BY <1>1, <2>1, <2>2
<1> QED
  BY <1>1, InitIInv, PTL DEF Spec

\* Every variable keeps its type, and no connection holds more than HWM messages.
THEOREM TypeCorrect == Spec => []TypeOK
BY Invariance, TypesFollow, PTL

\* A callback gets the messages of a connection in the order of publication and
\* each at most once.
THEOREM DeliveredInOrder == Spec => []InOrderOnce
<1>1. ASSUME IInv PROVE InOrderOnce
  <2> SUFFICES ASSUME NEW i \in Subscriber, NEW p \in Publisher \ Busy, NEW k \in DOMAIN queue[i][p]
               PROVE  queue[i][p][k] > (IF k = 1 THEN last[i][p] ELSE queue[i][p][k - 1])
    BY DEF InOrderOnce
  <2>1. Ordered(queue[i][p], last[i][p], sent[p])
    BY <1>1 DEF IInv, Connections, Connection
  <2>2. k \in 1 .. Len(queue[i][p])
    BY <2>1 DEF Ordered
  <2> QED
    BY <2>1, <2>2 DEF Ordered
<1> QED
  BY <1>1, Invariance, PTL

\* A connection below its high-water mark loses nothing: what waits is exactly
\* what was published after the message delivered last.
THEOREM NothingMissing == Spec => []NoneMissing
<1>1. ASSUME IInv PROVE NoneMissing
  <2> SUFFICES ASSUME NEW i \in Subscriber, NEW p \in joined[i] \ (overflow[i] \cup Busy)
               PROVE  queue[i][p] = [k \in 1 .. (sent[p] - last[i][p]) |-> last[i][p] + k]
    BY DEF NoneMissing
  <2> DEFINE q == queue[i][p]
  <2>1. p \in Publisher
    BY <1>1 DEF IInv, Fields
  <2>2. Ordered(q, last[i][p], sent[p]) /\ Exact(q, last[i][p], sent[p])
    BY <1>1, <2>1 DEF IInv, Connections, Connection
  <2>3. q \in Seq(Nat) /\ Len(q) = sent[p] - last[i][p] /\ \A k \in 1 .. Len(q) : q[k] = last[i][p] + k
    BY <2>2 DEF Ordered, Exact
  <2>4. q = [k \in 1 .. Len(q) |-> q[k]]
    BY <2>3
  <2> HIDE DEF q
  <2>5. q = [k \in 1 .. (sent[p] - last[i][p]) |-> last[i][p] + k]
    BY <2>3, <2>4
  <2> QED
    BY <2>5 DEF q
<1> QED
  BY <1>1, Invariance, PTL

\* recv, which has no timeout, is called on a socket without a message only if an
\* eviction emptied it after the poll.
THEOREM BlocksAfterRemovalOnly == Spec => []BlocksOnlyAfterRemoval
<1>1. IInv => BlocksOnlyAfterRemoval
  BY DEF IInv
<1> QED
  BY <1>1, Invariance, PTL
=============================================================================
