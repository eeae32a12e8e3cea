-------------------------- MODULE NodeLocksProofs ---------------------------
(* Theorems about NodeLocks, for every set of threads and every way to       *)
(* distribute the operations among them (for NoDeadlock, every one that the  *)
(* theorem's hypothesis allows).                                             *)
EXTENDS NodeLocks, TLAPS

-----------------------------------------------------------------------------
(* What the text of an operation says about locks.                           *)

Acquires(m)  == [do |-> "lock", what |-> m]
SharesIn(m)  == [do |-> "share", what |-> m]
Releases(m)  == [do |-> "unlock", what |-> m]
ReadsFrom(d) == [do |-> "read", what |-> d]
WritesTo(d)  == [do |-> "write", what |-> d]

\* The mutexes that an execution of o holds exclusively, or shared, when step k
\* is next: those it took before and has not released since.
Owned(o, k) ==
    {m \in Mutex : \E i \in 1 .. (k - 1) :
        /\ Program[o][i] = Acquires(m)
        /\ \A j \in i .. (k - 1) : Program[o][j] # Releases(m)}

Joined(o, k) ==
    {m \in Mutex : \E i \in 1 .. (k - 1) :
        /\ Program[o][i] = SharesIn(m)
        /\ \A j \in i .. (k - 1) : Program[o][j] # Releases(m)}

\* An operation leaves no mutex locked.
Balanced(o) ==
    LET end == Len(Program[o]) + 1
    IN  end \in Nat \ {0, 1} /\ Owned(o, end) = {} /\ Joined(o, end) = {}

\* Step k of an operation accesses the registry under data_mutex_ and subscribers_
\* under mutex_, but for the pointers that request() and pollOnce() follow at their
\* end; localNodeInfo_ is written under local_mutex_ and read under that or, in
\* getPublisherInfo and getServiceInfo, under a shared data_mutex_.
Guarded(o) ==
    \A k \in 1 .. Len(Program[o]) :
        /\ Program[o][k] = WritesTo("registry") => "data_mutex" \in Owned(o, k)
        /\ Program[o][k] = ReadsFrom("registry")
              => "data_mutex" \in Owned(o, k) \cup Joined(o, k) \/ (o = "Request" /\ k = Len(Program[o]))
        /\ Program[o][k] = WritesTo("localNodeInfo") => "local_mutex" \in Owned(o, k)
        /\ Program[o][k] = ReadsFrom("localNodeInfo")
              => "local_mutex" \in Owned(o, k) \/ "data_mutex" \in Joined(o, k)
        /\ Program[o][k] = WritesTo("subscribers") => "mutex" \in Owned(o, k)
        /\ Program[o][k] = ReadsFrom("subscribers")
              => "mutex" \in Owned(o, k) \/ (o = "PollSubscribers" /\ k = Len(Program[o]))

\* Two operations take a mutex while they hold another one, in opposite orders:
\* the registration of a subscriber and the removal of a node.
InOrder(o) ==
    \A k \in 1 .. Len(Program[o]), held, m \in Mutex :
        (/\ Program[o][k] \in {Acquires(m), SharesIn(m)}
         /\ held \in Owned(o, k) \cup Joined(o, k))
            => \/ o = "RegisterSubscriber" /\ held = "mutex" /\ m = "data_mutex"
               \/ o = "CheckAndRemove" /\ held = "data_mutex" /\ m = "mutex"

Disciplined(o) == Balanced(o) /\ Guarded(o) /\ InOrder(o)

USE DEF Acquires, SharesIn, Releases, ReadsFrom, WritesTo, Mutex

\* CreateHeartbeat is disciplined.
LEMMA CreateHeartbeatSteps == Disciplined("CreateHeartbeat")
<1> DEFINE p == Program["CreateHeartbeat"]
<1>1. /\ Len(p) = 3
      /\ p[1] = Acquires("local_mutex") /\ p[2] = ReadsFrom("localNodeInfo")
      /\ p[3] = Releases("local_mutex")
  BY DEF Program, CreateHeartbeat, Locked, Read
<1>2. Balanced("CreateHeartbeat")
  BY <1>1 DEF Balanced, Owned, Joined
<1>3. Guarded("CreateHeartbeat")
  BY <1>1 DEF Guarded, Owned, Joined
<1>4. InOrder("CreateHeartbeat")
  BY <1>1 DEF InOrder, Owned, Joined
<1> QED
  BY <1>2, <1>3, <1>4 DEF Disciplined

\* ProcessHeartbeat is disciplined.
LEMMA ProcessHeartbeatSteps == Disciplined("ProcessHeartbeat")
<1> DEFINE p == Program["ProcessHeartbeat"]
<1>1. /\ Len(p) = 3
      /\ p[1] = Acquires("data_mutex") /\ p[2] = WritesTo("registry")
      /\ p[3] = Releases("data_mutex")
  BY DEF Program, ProcessHeartbeat, Locked, Write
<1>2. Balanced("ProcessHeartbeat")
  BY <1>1 DEF Balanced, Owned, Joined
<1>3. Guarded("ProcessHeartbeat")
  BY <1>1 DEF Guarded, Owned, Joined
<1>4. InOrder("ProcessHeartbeat")
  BY <1>1 DEF InOrder, Owned, Joined
<1> QED
  BY <1>2, <1>3, <1>4 DEF Disciplined

\* ProcessAndFetch is disciplined.
LEMMA ProcessAndFetchSteps == Disciplined("ProcessAndFetch")
<1> DEFINE p == Program["ProcessAndFetch"]
<1>1. /\ Len(p) = 9
      /\ p[1] = Acquires("data_mutex") /\ p[2] = WritesTo("registry")
      /\ p[3] = Releases("data_mutex") /\ p[4] = Acquires("data_mutex")
      /\ p[5] = WritesTo("registry") /\ p[6] = Releases("data_mutex")
      /\ p[7] = Acquires("mutex") /\ p[8] = WritesTo("subscribers")
      /\ p[9] = Releases("mutex")
  BY DEF Program, ProcessAndFetch, ProcessHeartbeat, UpdateSubscribers, Locked, Write
<1>2. Balanced("ProcessAndFetch")
  BY <1>1 DEF Balanced, Owned, Joined
<1>3. Guarded("ProcessAndFetch")
  BY <1>1 DEF Guarded, Owned, Joined
<1>4. InOrder("ProcessAndFetch")
  BY <1>1 DEF InOrder, Owned, Joined
<1> QED
  BY <1>2, <1>3, <1>4 DEF Disciplined

\* CheckHeartbeats is disciplined.
LEMMA CheckHeartbeatsSteps == Disciplined("CheckHeartbeats")
<1> DEFINE p == Program["CheckHeartbeats"]
<1>1. /\ Len(p) = 3
      /\ p[1] = Acquires("data_mutex") /\ p[2] = ReadsFrom("registry")
      /\ p[3] = Releases("data_mutex")
  BY DEF Program, CheckHeartbeats, Locked, Read
<1>2. Balanced("CheckHeartbeats")
  BY <1>1 DEF Balanced, Owned, Joined
<1>3. Guarded("CheckHeartbeats")
  BY <1>1 DEF Guarded, Owned, Joined
<1>4. InOrder("CheckHeartbeats")
  BY <1>1 DEF InOrder, Owned, Joined
<1> QED
  BY <1>2, <1>3, <1>4 DEF Disciplined

\* CheckAndRemove is disciplined.
LEMMA CheckAndRemoveSteps == Disciplined("CheckAndRemove")
<1> DEFINE p == Program["CheckAndRemove"]
<1>1. /\ Len(p) = 7
      /\ p[1] = Acquires("data_mutex") /\ p[2] = ReadsFrom("registry")
      /\ p[3] = Acquires("mutex") /\ p[4] = WritesTo("subscribers")
      /\ p[5] = Releases("mutex") /\ p[6] = WritesTo("registry")
      /\ p[7] = Releases("data_mutex")
  BY DEF Program, CheckAndRemove, UpdateSubscribers, Locked, Read, Write
<1>2. Balanced("CheckAndRemove")
  BY <1>1 DEF Balanced, Owned, Joined
<1>3. Guarded("CheckAndRemove")
  BY <1>1 DEF Guarded, Owned, Joined
<1>4. InOrder("CheckAndRemove")
  BY <1>1 DEF InOrder, Owned, Joined
<1> QED
  BY <1>2, <1>3, <1>4 DEF Disciplined

\* RegisterSubscriber is disciplined.
LEMMA RegisterSubscriberSteps == Disciplined("RegisterSubscriber")
<1> DEFINE p == Program["RegisterSubscriber"]
<1>1. /\ Len(p) = 7
      /\ p[1] = Acquires("mutex") /\ p[2] = SharesIn("data_mutex")
      /\ p[3] = ReadsFrom("registry") /\ p[4] = ReadsFrom("localNodeInfo")
      /\ p[5] = Releases("data_mutex") /\ p[6] = WritesTo("subscribers")
      /\ p[7] = Releases("mutex")
  BY DEF Program, RegisterSubscriber, Locked, Shared, Read, Write
<1>2. Balanced("RegisterSubscriber")
  BY <1>1 DEF Balanced, Owned, Joined
<1>3. Guarded("RegisterSubscriber")
  BY <1>1 DEF Guarded, Owned, Joined
<1>4. InOrder("RegisterSubscriber")
  BY <1>1 DEF InOrder, Owned, Joined
<1> QED
  BY <1>2, <1>3, <1>4 DEF Disciplined

\* PollSubscribers is disciplined.
LEMMA PollSubscribersSteps == Disciplined("PollSubscribers")
<1> DEFINE p == Program["PollSubscribers"]
<1>1. /\ Len(p) = 4
      /\ p[1] = Acquires("mutex") /\ p[2] = ReadsFrom("subscribers")
      /\ p[3] = Releases("mutex") /\ p[4] = ReadsFrom("subscribers")
  BY DEF Program, PollSubscribers, Locked, Read
<1>2. Balanced("PollSubscribers")
  BY <1>1 DEF Balanced, Owned, Joined
<1>3. Guarded("PollSubscribers")
  BY <1>1 DEF Guarded, Owned, Joined
<1>4. InOrder("PollSubscribers")
  BY <1>1 DEF InOrder, Owned, Joined
<1> QED
  BY <1>2, <1>3, <1>4 DEF Disciplined

\* RegisterTopic is disciplined.
LEMMA RegisterTopicSteps == Disciplined("RegisterTopic")
<1> DEFINE p == Program["RegisterTopic"]
<1>1. /\ Len(p) = 6
      /\ p[1] = Acquires("local_mutex") /\ p[2] = ReadsFrom("localNodeInfo")
      /\ p[3] = Releases("local_mutex") /\ p[4] = Acquires("local_mutex")
      /\ p[5] = WritesTo("localNodeInfo") /\ p[6] = Releases("local_mutex")
  BY DEF Program, RegisterTopic, CreateHeartbeat, Locked, Read, Write
<1>2. Balanced("RegisterTopic")
  BY <1>1 DEF Balanced, Owned, Joined
<1>3. Guarded("RegisterTopic")
  BY <1>1 DEF Guarded, Owned, Joined
<1>4. InOrder("RegisterTopic")
  BY <1>1 DEF InOrder, Owned, Joined
<1> QED
  BY <1>2, <1>3, <1>4 DEF Disciplined

\* RegisterService is disciplined.
LEMMA RegisterServiceSteps == Disciplined("RegisterService")
<1> DEFINE p == Program["RegisterService"]
<1>1. /\ Len(p) = 4
      /\ p[1] = WritesTo("handlers") /\ p[2] = Acquires("local_mutex")
      /\ p[3] = WritesTo("localNodeInfo") /\ p[4] = Releases("local_mutex")
  BY DEF Program, RegisterService, Locked, Write
<1>2. Balanced("RegisterService")
  BY <1>1 DEF Balanced, Owned, Joined
<1>3. Guarded("RegisterService")
  BY <1>1 DEF Guarded, Owned, Joined
<1>4. InOrder("RegisterService")
  BY <1>1 DEF InOrder, Owned, Joined
<1> QED
  BY <1>2, <1>3, <1>4 DEF Disciplined

\* HandleRequest is disciplined.
LEMMA HandleRequestSteps == Disciplined("HandleRequest")
<1> DEFINE p == Program["HandleRequest"]
<1>1. /\ Len(p) = 4
      /\ p[1] = ReadsFrom("handlers") /\ p[2] = Acquires("local_mutex")
      /\ p[3] = ReadsFrom("localNodeInfo") /\ p[4] = Releases("local_mutex")
  BY DEF Program, HandleRequest, CreateHeartbeat, Locked, Read
<1>2. Balanced("HandleRequest")
  BY <1>1 DEF Balanced, Owned, Joined
<1>3. Guarded("HandleRequest")
  BY <1>1 DEF Guarded, Owned, Joined
<1>4. InOrder("HandleRequest")
  BY <1>1 DEF InOrder, Owned, Joined
<1> QED
  BY <1>2, <1>3, <1>4 DEF Disciplined

\* Request is disciplined.
LEMMA RequestSteps == Disciplined("Request")
<1> DEFINE p == Program["Request"]
<1>1. /\ Len(p) = 5
      /\ p[1] = SharesIn("data_mutex") /\ p[2] = ReadsFrom("registry")
      /\ p[3] = ReadsFrom("localNodeInfo") /\ p[4] = Releases("data_mutex")
      /\ p[5] = ReadsFrom("registry")
  BY DEF Program, Request, Shared, Read
<1>2. Balanced("Request")
  BY <1>1 DEF Balanced, Owned, Joined
<1>3. Guarded("Request")
  BY <1>1 DEF Guarded, Owned, Joined
<1>4. InOrder("Request")
  BY <1>1 DEF InOrder, Owned, Joined
<1> QED
  BY <1>2, <1>3, <1>4 DEF Disciplined

\* Every operation is disciplined.
LEMMA Discipline == \A o \in Operation : Disciplined(o)
BY CreateHeartbeatSteps, ProcessHeartbeatSteps, ProcessAndFetchSteps, CheckHeartbeatsSteps,
   CheckAndRemoveSteps, RegisterSubscriberSteps, PollSubscribersSteps, RegisterTopicSteps,
   RegisterServiceSteps, HandleRequestSteps, RequestSteps
   DEF Operation, Program

\* What a step does to the mutexes held.
LEMMA HeldNext ==
    ASSUME NEW o, NEW k \in Nat \ {0}, NEW m \in Mutex
    PROVE  /\ m \in Owned(o, k + 1) <=> \/ Program[o][k] = Acquires(m)
                                        \/ m \in Owned(o, k) /\ Program[o][k] # Releases(m)
           /\ m \in Joined(o, k + 1) <=> \/ Program[o][k] = SharesIn(m)
                                         \/ m \in Joined(o, k) /\ Program[o][k] # Releases(m)
<1>1. 1 .. k = (1 .. (k - 1)) \cup {k} /\ (k + 1) - 1 = k
  OBVIOUS
<1>2. \A i \in 1 .. (k - 1) : i .. k = (i .. (k - 1)) \cup {k}
  OBVIOUS
<1>3. k .. k = {k}
  OBVIOUS
<1> QED
  BY <1>1, <1>2, <1>3 DEF Owned, Joined

-----------------------------------------------------------------------------
(* The inductive invariant: a thread holds what the text of its operation    *)
(* says.                                                                     *)

OwnedBy(t)  == IF op[t] = None THEN {} ELSE Owned(op[t], at[t])
JoinedBy(t) == IF op[t] = None THEN {} ELSE Joined(op[t], at[t])

Holding ==
    \A t \in Thread, m \in Mutex :
        /\ owner[m] = t <=> m \in OwnedBy(t)
        /\ t \in sharers[m] <=> m \in JoinedBy(t)

\* A thread executes what it offers.
Assigned == \A t \in Thread : op[t] # None => op[t] \in Offers[t]

IInv == at \in [Thread -> Nat \ {0}] /\ TypeOK /\ Holding /\ Assigned

\* The initial state satisfies the invariant.
LEMMA InitIInv == Init => IInv
<1> SUFFICES ASSUME Init PROVE IInv
  OBVIOUS
<1>1. at \in [Thread -> Nat \ {0}] /\ TypeOK
  BY DEF Init, TypeOK
<1>2. Holding
  BY OffersAssumption DEF Init, Holding, OwnedBy, JoinedBy
<1>3. Assigned
  BY DEF Init, Assigned
<1> QED
  BY <1>1, <1>2, <1>3 DEF IInv

\* A thread that goes on, or finishes, holds what its step leaves it.
LEMMA AdvanceFacts ==
    ASSUME IInv, NEW t \in Thread, op[t] # None, Advance(t)
    PROVE  /\ op' \in [Thread -> Operation \cup {None}]
           /\ at' \in [Thread -> Nat \ {0}]
           /\ \A u \in Thread : at'[u] \in 1 .. (IF op'[u] = None THEN 1 ELSE Len(Program[op'[u]]))
           /\ \A u \in Thread \ {t} : OwnedBy(u)' = OwnedBy(u) /\ JoinedBy(u)' = JoinedBy(u)
           /\ \A m \in Mutex :
                 /\ m \in OwnedBy(t)' <=>
                       \/ Doing(t, "lock", m)
                       \/ m \in OwnedBy(t) /\ ~Doing(t, "unlock", m)
                 /\ m \in JoinedBy(t)' <=>
                       \/ Doing(t, "share", m)
                       \/ m \in JoinedBy(t) /\ ~Doing(t, "unlock", m)
           /\ Assigned'
<1> USE DEF IInv, TypeOK
<1> DEFINE o == op[t]
<1> DEFINE k == at[t]
<1> DEFINE n == Len(Program[o])
<1>1. o \in Operation /\ k \in Nat \ {0} /\ k \in 1 .. n
  OBVIOUS
<1>2. n \in Nat \ {0} /\ Owned(o, n + 1) = {} /\ Joined(o, n + 1) = {}
  <2>1. Balanced(o)
    BY <1>1, Discipline DEF Disciplined
  <2>2. n + 1 \in Nat \ {0, 1}
    BY <2>1 DEF Balanced
  <2>3. n \in Nat
    BY <1>1
  <2> HIDE DEF n
  <2>4. n \in Nat \ {0}
    BY <2>2, <2>3
  <2> QED
    BY <2>1, <2>4 DEF Balanced, n
<1> HIDE DEF n
<1>3. op' \in [Thread -> Operation \cup {None}] /\ at' \in [Thread -> Nat \ {0}]
  <2>1. op' \in [Thread -> Operation \cup {None}]
    BY DEF Advance
  <2>2. at' \in [Thread -> Nat \ {0}]
    <3>1. at \in [Thread -> Nat \ {0}] /\ at[t] + 1 \in Nat \ {0} /\ 1 \in Nat \ {0}
      BY <1>1
    <3> QED
      BY <3>1 DEF Advance
  <2> QED
    BY <2>1, <2>2
<1>4. \A u \in Thread \ {t} : op'[u] = op[u] /\ at'[u] = at[u]
  BY DEF Advance
<1>5. at'[t] \in 1 .. (IF op'[t] = None THEN 1 ELSE Len(Program[op'[t]]))
  BY <1>1, <1>2 DEF Advance, n
<1>6. \A u \in Thread \ {t} : OwnedBy(u)' = OwnedBy(u) /\ JoinedBy(u)' = JoinedBy(u)
  BY <1>4 DEF OwnedBy, JoinedBy
<1>7. OwnedBy(t)' = Owned(o, k + 1) /\ JoinedBy(t)' = Joined(o, k + 1)
  <2>1. CASE k = n
    <3>1. op'[t] = None
      BY <2>1 DEF Advance, n
    <3> QED
      BY <1>2, <2>1, <3>1 DEF OwnedBy, JoinedBy
  <2>2. CASE k # n
    <3>1. op'[t] = o /\ at'[t] = k + 1
      BY <2>2 DEF Advance, n
    <3> QED
      BY <3>1 DEF OwnedBy, JoinedBy
  <2> QED
    BY <2>1, <2>2
<1>8. OwnedBy(t) = Owned(o, k) /\ JoinedBy(t) = Joined(o, k)
  BY DEF OwnedBy, JoinedBy
<1>9. Assigned'
  BY <1>4 DEF Assigned, Advance
<1>10. \A m \in Mutex :
          /\ m \in Owned(o, k + 1) <=> \/ Doing(t, "lock", m)
                                       \/ m \in Owned(o, k) /\ ~Doing(t, "unlock", m)
          /\ m \in Joined(o, k + 1) <=> \/ Doing(t, "share", m)
                                        \/ m \in Joined(o, k) /\ ~Doing(t, "unlock", m)
  <2> TAKE m \in Mutex
  <2>1. /\ Doing(t, "lock", m) <=> Program[o][k] = Acquires(m)
        /\ Doing(t, "share", m) <=> Program[o][k] = SharesIn(m)
        /\ Doing(t, "unlock", m) <=> Program[o][k] = Releases(m)
    BY DEF Doing
  <2> HIDE DEF o, k, Mutex, Acquires, SharesIn, Releases
  <2> QED
    BY <1>1, <2>1, HeldNext
<1> QED
  BY <1>3, <1>4, <1>5, <1>6, <1>7, <1>8, <1>9, <1>10

\* A thread does one thing at a time.
LEMMA OneStep ==
    ASSUME NEW t, NEW a, NEW x, Doing(t, a, x), NEW b, NEW y, Doing(t, b, y)
    PROVE  a = b /\ x = y
BY DEF Doing

\* Every step keeps the invariant.
LEMMA StepIInv == ASSUME IInv, [Next]_vars PROVE IInv'
<1> USE DEF IInv, TypeOK
<1>1. ASSUME NEW t \in Thread, NEW o \in Operation, Call(t, o) PROVE IInv'
  <2> USE <1>1 DEF Call
  <2>1. op'[t] = o /\ at'[t] = 1 /\ at' = at /\ op' \in [Thread -> Operation \cup {None}]
    BY OffersAssumption
  <2>2. \A u \in Thread \ {t} : op'[u] = op[u]
    OBVIOUS
  <2>3. Len(Program[o]) + 1 \in Nat \ {0, 1} /\ Len(Program[o]) \in Nat
    BY Discipline DEF Disciplined, Balanced
  <2>4. TypeOK'
    BY <2>1, <2>2, <2>3
  <2>5. Holding'
    <3>1. OwnedBy(t)' = {} /\ JoinedBy(t)' = {}
      BY <2>1, OffersAssumption DEF OwnedBy, JoinedBy, Owned, Joined
    <3>2. OwnedBy(t) = {} /\ JoinedBy(t) = {}
      BY DEF OwnedBy, JoinedBy
    <3>3. \A u \in Thread \ {t} : OwnedBy(u)' = OwnedBy(u) /\ JoinedBy(u)' = JoinedBy(u)
      BY <2>1, <2>2 DEF OwnedBy, JoinedBy
    <3> QED
      BY <3>1, <3>2, <3>3 DEF Holding
  <2>6. Assigned'
    BY <2>1, <2>2 DEF Assigned
  <2> QED
    BY <2>1, <2>4, <2>5, <2>6
<1>2. ASSUME NEW t \in Thread, NEW m \in Mutex, Lock(t, m) PROVE IInv'
  <2>1. op[t] # None /\ Advance(t) /\ Doing(t, "lock", m)
    BY <1>2 DEF Lock, Doing
  <2>2. TypeOK' /\ at' \in [Thread -> Nat \ {0}] /\ Assigned'
    BY <1>2, <2>1, AdvanceFacts DEF Lock
  <2>3. Holding'
    <3>1. \A x \in Mutex : ~Doing(t, "unlock", x) /\ ~Doing(t, "share", x)
                           /\ (Doing(t, "lock", x) => x = m)
      BY <2>1, OneStep
    <3>2. owner[m] = None /\ \A x \in Mutex : owner'[x] = IF x = m THEN t ELSE owner[x]
      BY <1>2 DEF Lock
    <3>3. sharers' = sharers
      BY <1>2 DEF Lock
    <3> QED
      BY <2>1, <3>1, <3>2, <3>3, AdvanceFacts, OffersAssumption DEF Holding
  <2> QED
    BY <2>2, <2>3
<1>3. ASSUME NEW t \in Thread, NEW m \in Mutex, Share(t, m) PROVE IInv'
  <2>1. op[t] # None /\ Advance(t) /\ Doing(t, "share", m)
    BY <1>3 DEF Share, Doing
  <2>2. TypeOK' /\ at' \in [Thread -> Nat \ {0}] /\ Assigned'
    BY <1>3, <2>1, AdvanceFacts DEF Share
  <2>3. Holding'
    <3>1. \A x \in Mutex : ~Doing(t, "unlock", x) /\ ~Doing(t, "lock", x)
                           /\ (Doing(t, "share", x) => x = m)
      BY <2>1, OneStep
    <3>2. \A x \in Mutex : sharers'[x] = IF x = m THEN sharers[x] \cup {t} ELSE sharers[x]
      BY <1>3 DEF Share
    <3>3. owner' = owner
      BY <1>3 DEF Share
    <3> QED
      BY <2>1, <3>1, <3>2, <3>3, AdvanceFacts DEF Holding
  <2> QED
    BY <2>2, <2>3
<1>4. ASSUME NEW t \in Thread, NEW m \in Mutex, Unlock(t, m) PROVE IInv'
  <2>1. op[t] # None /\ Advance(t) /\ Doing(t, "unlock", m)
    BY <1>4 DEF Unlock, Doing
  <2>2. TypeOK' /\ at' \in [Thread -> Nat \ {0}] /\ Assigned'
    BY <1>4, <2>1, AdvanceFacts DEF Unlock
  <2>3. Holding'
    <3>1. \A x \in Mutex : ~Doing(t, "share", x) /\ ~Doing(t, "lock", x)
                           /\ (Doing(t, "unlock", x) => x = m)
      BY <2>1, OneStep
    <3>2. \A x \in Mutex :
              /\ sharers'[x] = IF x = m THEN sharers[x] \ {t} ELSE sharers[x]
              /\ owner'[x] = IF x = m /\ owner[x] = t THEN None ELSE owner[x]
      BY <1>4 DEF Unlock
    <3>3. ASSUME NEW u \in Thread, NEW x \in Mutex
          PROVE  /\ owner'[x] = u <=> x \in OwnedBy(u)'
                 /\ u \in sharers'[x] <=> x \in JoinedBy(u)'
      <4>1. u # None /\ t # None
        BY OffersAssumption
      <4>2. CASE u = t
        BY <2>1, <3>1, <3>2, <4>1, <4>2, AdvanceFacts DEF Holding
      <4>3. CASE u # t
        BY <2>1, <3>2, <4>1, <4>3, AdvanceFacts DEF Holding
      <4> QED
        BY <4>2, <4>3
    <3> QED
      BY <3>3 DEF Holding
  <2> QED
    BY <2>2, <2>3
<1>5. ASSUME NEW t \in Thread, NEW d \in Data, Access(t, d) PROVE IInv'
  <2>1. op[t] # None /\ Advance(t) /\ (Doing(t, "read", d) \/ Doing(t, "write", d))
    BY <1>5 DEF Access, Doing
  <2>2. TypeOK' /\ at' \in [Thread -> Nat \ {0}] /\ Assigned'
    BY <1>5, <2>1, AdvanceFacts DEF Access
  <2>3. Holding'
    <3>1. \A x \in Mutex : ~Doing(t, "share", x) /\ ~Doing(t, "lock", x) /\ ~Doing(t, "unlock", x)
      BY <2>1, OneStep
    <3>2. owner' = owner /\ sharers' = sharers
      BY <1>5 DEF Access
    <3>3. ASSUME NEW u \in Thread, NEW x \in Mutex
          PROVE  /\ owner'[x] = u <=> x \in OwnedBy(u)'
                 /\ u \in sharers'[x] <=> x \in JoinedBy(u)'
      <4>1. CASE u = t
        BY <2>1, <3>1, <3>2, <4>1, AdvanceFacts DEF Holding
      <4>2. CASE u # t
        BY <2>1, <3>2, <4>2, AdvanceFacts DEF Holding
      <4> QED
        BY <4>1, <4>2
    <3> QED
      BY <3>3 DEF Holding
  <2> QED
    BY <2>2, <2>3
<1>6. CASE UNCHANGED vars
  BY <1>6 DEF vars, Holding, Assigned, OwnedBy, JoinedBy
<1> QED
  BY <1>1, <1>2, <1>3, <1>4, <1>5, <1>6 DEF Next

\* The invariant holds in every reachable state.
LEMMA Invariance == Spec => []IInv
BY InitIInv, StepIInv, PTL DEF Spec

-----------------------------------------------------------------------------
(* The theorems.                                                             *)

\* A thread about to access data holds what the text of its operation says, and
\* is the only one to own it.
LEMMA AccessFacts ==
    ASSUME IInv, NEW t \in Thread, NEW a, NEW d, Doing(t, a, d)
    PROVE  /\ op[t] \in Operation /\ op[t] \in Offers[t] /\ Disciplined(op[t])
           /\ at[t] \in 1 .. Len(Program[op[t]])
           /\ \A m \in Mutex : m \in Owned(op[t], at[t]) <=> owner[m] = t
           /\ \A m \in Mutex : m \in Joined(op[t], at[t]) <=> t \in sharers[m]
<1>1. op[t] # None /\ op[t] \in Operation
  BY DEF Doing, IInv, TypeOK
<1> QED
  BY <1>1, Discipline DEF IInv, TypeOK, Holding, Assigned, OwnedBy, JoinedBy

\* Whatever the threads do, the maps of NodeInfoManager have no race but the one
\* of a request() that follows the pointer of getServiceInfo after data_mutex_ is
\* released (node_info_manager.cpp, client.hpp).
THEOREM RegistryRacesKnown == Spec => []RegistryRaces
<1>1. ASSUME IInv PROVE RegistryRaces
  <2> SUFFICES ASSUME NEW t \in Thread, NEW u \in Thread, t # u, Doing(t, "write", "registry"),
                      Doing(u, "write", "registry") \/ Doing(u, "read", "registry")
               PROVE  AtEnd(u, "Request")
    BY DEF RegistryRaces, Racing
  <2>1. owner["data_mutex"] = t
    BY <1>1, AccessFacts DEF Disciplined, Guarded, Doing
  <2>2. owner["data_mutex"] = u \/ u \in sharers["data_mutex"] \/ AtEnd(u, "Request")
    BY <1>1, AccessFacts DEF Disciplined, Guarded, Doing, AtEnd
  <2>3. t # None /\ (owner["data_mutex"] # None => sharers["data_mutex"] = {})
    BY <1>1, OffersAssumption DEF IInv, TypeOK
  <2> QED
    BY <2>1, <2>2, <2>3
<1> QED
  BY <1>1, Invariance, PTL

\* Whatever the threads do, localNodeInfo_ has no race but the one of a reader
\* with data_mutex_ shared against a writer with local_mutex_: heartbeats and
\* get_node_info always see it whole, and no registration is lost
\* (node_info_manager.cpp).
THEOREM LocalNodeInfoRacesKnown == Spec => []LocalNodeInfoRaces
<1>1. ASSUME IInv PROVE LocalNodeInfoRaces
  <2> SUFFICES ASSUME NEW t \in Thread, NEW u \in Thread, t # u, Doing(t, "write", "localNodeInfo"),
                      Doing(u, "write", "localNodeInfo") \/ Doing(u, "read", "localNodeInfo")
               PROVE  /\ Doing(u, "read", "localNodeInfo") /\ u \in sharers["data_mutex"]
                      /\ owner["local_mutex"] = t
    BY DEF LocalNodeInfoRaces, Racing
  <2>1. owner["local_mutex"] = t
    BY <1>1, AccessFacts DEF Disciplined, Guarded, Doing
  <2>2. Doing(u, "write", "localNodeInfo") => owner["local_mutex"] = u
    BY <1>1, AccessFacts DEF Disciplined, Guarded, Doing
  <2>3. Doing(u, "read", "localNodeInfo") => owner["local_mutex"] = u \/ u \in sharers["data_mutex"]
    BY <1>1, AccessFacts DEF Disciplined, Guarded, Doing
  <2> QED
    BY <2>1, <2>2, <2>3
<1> QED
  BY <1>1, Invariance, PTL

\* Whatever the threads do, subscribers_ has no race but the one of pollOnce()
\* following its pointers after mutex_ is released (subscriber_manager.cpp).
THEOREM SubscriberRacesKnown == Spec => []SubscriberRaces
<1>1. ASSUME IInv PROVE SubscriberRaces
  <2> SUFFICES ASSUME NEW t \in Thread, NEW u \in Thread, t # u, Doing(t, "write", "subscribers"),
                      Doing(u, "write", "subscribers") \/ Doing(u, "read", "subscribers")
               PROVE  AtEnd(u, "PollSubscribers")
    BY DEF SubscriberRaces, Racing
  <2>1. owner["mutex"] = t
    BY <1>1, AccessFacts DEF Disciplined, Guarded, Doing
  <2>2. owner["mutex"] = u \/ AtEnd(u, "PollSubscribers")
    BY <1>1, AccessFacts DEF Disciplined, Guarded, Doing, AtEnd
  <2> QED
    BY <2>1, <2>2
<1> QED
  BY <1>1, Invariance, PTL

\* Threads never wait for each other in a circle, unless one thread removes
\* silent nodes (checkHeartbeats) while another one registers a subscriber
\* (_registerTopicSubscriber): these two are the only operations that wait for
\* a mutex with another one in hand, and the one deadlock of the run
\* locks_removal is the only kind there is.
THEOREM DeadlockFree ==
    ASSUME \A t, u \in Thread :
               ("CheckAndRemove" \in Offers[t] /\ "RegisterSubscriber" \in Offers[u]) => t = u
    PROVE  Spec => []NoDeadlock
<1>1. ASSUME IInv PROVE NoDeadlock
  <2>1. ASSUME NEW t \in Thread, NEW held \in Mutex, NEW m \in Mutex,
               Doing(t, "lock", m) \/ Doing(t, "share", m),
               owner[held] = t \/ t \in sharers[held]
        PROVE  /\ op[t] \in Offers[t]
               /\ \/ op[t] = "RegisterSubscriber" /\ held = "mutex" /\ m = "data_mutex"
                  \/ op[t] = "CheckAndRemove" /\ held = "data_mutex" /\ m = "mutex"
    <3>1. op[t] \in Offers[t] /\ InOrder(op[t]) /\ at[t] \in 1 .. Len(Program[op[t]])
      BY <1>1, <2>1, AccessFacts DEF Disciplined
    <3>2. held \in Owned(op[t], at[t]) \cup Joined(op[t], at[t])
      BY <1>1, <2>1, AccessFacts
    <3>3. Program[op[t]][at[t]] \in {Acquires(m), SharesIn(m)}
      BY <2>1 DEF Doing
    <3> HIDE DEF Acquires, SharesIn, Mutex
    <3> QED
      BY <3>1, <3>2, <3>3 DEF InOrder
  <2> SUFFICES ASSUME NEW T \in (SUBSET Thread) \ {{}}, \A t \in T : \E u \in T : WaitsFor(t, u)
               PROVE  FALSE
    BY DEF NoDeadlock
  <2>2. PICK t \in T, u \in T, v \in T, w \in T : WaitsFor(t, u) /\ WaitsFor(u, v) /\ WaitsFor(v, w)
    OBVIOUS
  <2>3. PICK m1 \in Mutex : owner[m1] = u \/ u \in sharers[m1]
    BY <2>2 DEF WaitsFor
  <2>4. PICK m2 \in Mutex : /\ Doing(u, "lock", m2) \/ Doing(u, "share", m2)
                            /\ owner[m2] = v \/ v \in sharers[m2]
    BY <2>2 DEF WaitsFor
  <2>5. PICK m3 \in Mutex : Doing(v, "lock", m3) \/ Doing(v, "share", m3)
    BY <2>2 DEF WaitsFor
  <2>6. op[u] \in Offers[u] /\ (\/ op[u] = "RegisterSubscriber" /\ m2 = "data_mutex"
                                \/ op[u] = "CheckAndRemove" /\ m2 = "mutex")
    BY <2>1, <2>3, <2>4
  <2>7. op[v] \in Offers[v] /\ (\/ op[v] = "RegisterSubscriber" /\ m2 = "mutex"
                                \/ op[v] = "CheckAndRemove" /\ m2 = "data_mutex")
    BY <2>1, <2>4, <2>5
  <2> QED
    BY <2>6, <2>7
<1> QED
  BY <1>1, Invariance, PTL
=============================================================================
