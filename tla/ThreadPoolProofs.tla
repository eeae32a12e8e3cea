-------------------------- MODULE ThreadPoolProofs --------------------------
(* Theorems about ThreadPool, for every number of workers, every set of      *)
(* clients and tasks and every number of restarts.                           *)
EXTENDS ThreadPool, FiniteSetTheorems, TLAPS

-----------------------------------------------------------------------------
(* The inductive invariant.                                                  *)

\* A client that has passed the test of is_running_ holds one task that nobody
\* else holds and that was never pushed; a worker that executes holds a task;
\* wait() remembers tasks that were pushed.
Handles ==
    /\ \A c \in Client : cpc[c] = "push" => arg[c] \in Task
    /\ \A c \in Client : arg[c] \notin pushed
    /\ \A c, d \in Client : (arg[c] = arg[d] /\ arg[c] # None) => c = d
    /\ \A w \in Worker : wpc[w] = "running" => hand[w] \in Task
    /\ \A c \in Client : due[c] \subseteq pushed

\* The threads of the pool follow is_running_: none has gone while it is set, and
\* a controller outside stop() leaves none behind once it is cleared.
Threads ==
    /\ is_running => \A w \in Worker : wpc[w] \notin {"none", "exited"}
    /\ spc = "clear" => is_running
    /\ spc \in {"notify", "join"} => ~is_running
    /\ (spc = "idle" /\ ~is_running) => \A w \in Worker : wpc[w] = "none"

\* The workers active_tasks_ counts.
Counted == {w \in Worker : wpc[w] \in {"running", "returned"}}

IInv == TypeOK /\ Handles /\ Threads /\ Conservation /\ ActiveCounts /\ StopDrains

-----------------------------------------------------------------------------
(* Type correctness.                                                         *)

\* The initial state satisfies the invariant.
LEMMA InitIInv == Init => IInv
<1> SUFFICES ASSUME Init PROVE IInv
  OBVIOUS
<1>1. TypeOK
  <2>1. is_running \in BOOLEAN
    BY DEF Init
  <2>2. wpc \in [Worker -> WorkerPC] /\ cpc \in [Client -> ClientPC] /\ spc \in StopPC
    BY DEF Init, WorkerPC, ClientPC, StopPC
  <2> QED
    BY <2>1, <2>2, PoolAssumption DEF Init, TypeOK
<1>2. Handles /\ Threads
  BY PoolAssumption DEF Init, Handles, Threads
<1>3. Conservation
  BY DEF Init, Conservation, Queued, Held
<1>4. ActiveCounts
  <2>1. {w \in Worker : wpc[w] \in {"running", "returned"}} = {}
    BY DEF Init
  <2> QED
    BY <2>1, FS_EmptySet DEF Init, ActiveCounts
<1>5. StopDrains
  BY DEF Init, StopDrains, Queued
<1> QED
  BY <1>1, <1>2, <1>3, <1>4, <1>5 DEF IInv

\* The workers that active_tasks_ counts are finitely many.
LEMMA CountedFinite == IsFiniteSet(Counted) /\ Cardinality(Counted) \in Nat
<1>1. Counted \in SUBSET Worker
  BY DEF Counted
<1> QED
  BY <1>1, WorkerAssumption, FS_Subset, FS_CardinalityType

\* A worker that is about to decrement active_tasks_ finds it positive, so that
\* the unsigned counter does not wrap.
LEMMA ActivePositive ==
    ASSUME ActiveCounts, NEW w \in Worker, wpc[w] \in {"running", "returned"}
    PROVE  active > 0 /\ active \in Nat
<1>1. Counted # {}
  BY DEF Counted
<1>2. Cardinality(Counted) # 0
  BY <1>1, CountedFinite, FS_EmptySet
<1> QED
  BY <1>2, CountedFinite DEF ActiveCounts, Counted

\* A step of a worker keeps the types.
LEMMA WorkerType ==
    ASSUME IInv, NEW w \in Worker, WorkerStep(w) \/ SpuriousWakeup(w)
    PROVE  TypeOK'
<1> USE DEF TypeOK, IInv, WorkerPC, ClientPC
<1>1. CASE Sleep(w) \/ Exit(w) \/ SpuriousWakeup(w)
  BY <1>1 DEF Sleep, Exit, SpuriousWakeup, poolVars, clientVars, stopVars
<1>2. CASE Take(w)
  BY <1>2 DEF Take, clientVars, stopVars
<1>3. CASE Return(w)
  BY <1>3 DEF Return, Handles, poolVars, clientVars, stopVars
<1>4. CASE Decrement(w)
  <2>1. active' \in Nat
    BY <1>4, ActivePositive DEF Decrement
  <2> QED
    BY <1>4, <2>1 DEF Decrement, clientVars, stopVars
<1>5. CASE NotifyDone(w)
  BY <1>5 DEF NotifyDone, poolVars, stopVars
<1> QED
  BY <1>1, <1>2, <1>3, <1>4, <1>5 DEF WorkerStep

\* A step of a client keeps the types.
LEMMA ClientType ==
    ASSUME IInv, NEW c \in Client,
           ClientStep(c) \/ Wait(c) \/ SpuriousDone(c) \/ \E t \in Task : Enqueue(c, t)
    PROVE  TypeOK'
<1> USE DEF TypeOK, IInv, WorkerPC, ClientPC
<1>1. CASE Push(c)
  BY <1>1 DEF Push, Handles, workerVars, stopVars
<1>2. CASE NotifyOne(c)
  BY <1>2 DEF NotifyOne, poolVars, stopVars
<1>3. CASE WaitTest(c) \/ SpuriousDone(c)
  BY <1>3 DEF WaitTest, SpuriousDone, poolVars, workerVars, stopVars
<1>4. CASE Wait(c)
  BY <1>4 DEF Wait, poolVars, workerVars, stopVars
<1>5. ASSUME NEW t \in Task, Enqueue(c, t) PROVE TypeOK'
  BY <1>5 DEF Enqueue, poolVars, workerVars, stopVars
<1> QED
  BY <1>1, <1>2, <1>3, <1>4, <1>5 DEF ClientStep

\* A step of the controller keeps the types.
LEMMA ControllerType ==
    ASSUME IInv, Start \/ Stop \/ StopStep PROVE TypeOK'
<1> USE DEF TypeOK, IInv, WorkerPC, ClientPC, StopPC
<1>1. CASE Start
  BY <1>1, PoolAssumption DEF Start, clientVars
<1>2. CASE Stop \/ StopClear
  BY <1>2 DEF Stop, StopClear, poolVars, workerVars, clientVars
<1>3. CASE StopNotify
  BY <1>3 DEF StopNotify, poolVars, clientVars
<1>4. CASE StopJoin
  BY <1>4 DEF StopJoin, poolVars, clientVars
<1> QED
  BY <1>1, <1>2, <1>3, <1>4 DEF StopStep

-----------------------------------------------------------------------------
(* Who holds which task, and which threads there are.                        *)

\* Every step keeps Handles.
LEMMA HandlesStep == ASSUME IInv, Next PROVE Handles'
<1> USE DEF TypeOK, IInv, Handles
<1>1. ASSUME NEW w \in Worker, WorkerStep(w) \/ SpuriousWakeup(w) PROVE Handles'
  <2>1. CASE Sleep(w) \/ Exit(w) \/ SpuriousWakeup(w) \/ Decrement(w)
    BY <2>1 DEF Sleep, Exit, SpuriousWakeup, Decrement, clientVars
  <2>2. CASE Take(w)
    BY <2>2 DEF Take, clientVars
  <2>3. CASE Return(w)
    BY <2>3 DEF Return, clientVars
  <2>4. CASE NotifyDone(w)
    BY <2>4 DEF NotifyDone
  <2> QED
    BY <1>1, <2>1, <2>2, <2>3, <2>4 DEF WorkerStep
<1>2. ASSUME NEW c \in Client, ClientStep(c) \/ Wait(c) \/ SpuriousDone(c) PROVE Handles'
  <2>1. CASE Push(c)
    BY <2>1, PoolAssumption DEF Push, workerVars
  <2>2. CASE NotifyOne(c)
    BY <2>2 DEF NotifyOne
  <2>3. CASE WaitTest(c) \/ SpuriousDone(c)
    BY <2>3 DEF WaitTest, SpuriousDone, workerVars
  <2>4. CASE Wait(c)
    BY <2>4 DEF Wait, workerVars
  <2> QED
    BY <1>2, <2>1, <2>2, <2>3, <2>4 DEF ClientStep
<1>3. ASSUME NEW c \in Client, NEW t \in Task, Enqueue(c, t) PROVE Handles'
  BY <1>3, PoolAssumption DEF Enqueue, workerVars
<1>4. CASE Start
  BY <1>4 DEF Start, clientVars
<1>5. CASE Stop \/ StopClear
  BY <1>5 DEF Stop, StopClear, clientVars, workerVars
<1>6. CASE StopNotify \/ StopJoin
  BY <1>6 DEF StopNotify, StopJoin, clientVars
<1> QED
  BY <1>1, <1>2, <1>3, <1>4, <1>5, <1>6 DEF Next, StopStep

\* Every step keeps Threads: a worker leaves "none" only in start(), and start()
\* and stop() are calls of one controller.
LEMMA ThreadsStep == ASSUME IInv, Next PROVE Threads'
<1> USE DEF TypeOK, IInv, Threads
<1>1. ASSUME NEW w \in Worker, WorkerStep(w) \/ SpuriousWakeup(w) PROVE Threads'
  <2>1. wpc[w] # "none"
    BY <1>1 DEF WorkerStep, Sleep, Exit, SpuriousWakeup, Take, Return, Decrement, NotifyDone
  <2>2. ~(spc = "idle" /\ ~is_running)
    BY <2>1
  <2>3. is_running' = is_running /\ spc' = spc
    BY <1>1 DEF WorkerStep, Sleep, Exit, SpuriousWakeup, Take, Return, Decrement, NotifyDone,
                poolVars, stopVars
  <2>4. is_running => \A v \in Worker : wpc'[v] \notin {"none", "exited"}
    BY <1>1 DEF WorkerStep, Sleep, Exit, SpuriousWakeup, Take, Return, Decrement, NotifyDone
  <2> QED
    BY <2>2, <2>3, <2>4
<1>2. ASSUME NEW c \in Client, ClientStep(c) \/ Wait(c) \/ SpuriousDone(c)
                                  \/ \E t \in Task : Enqueue(c, t)
      PROVE  Threads'
  <2>1. is_running' = is_running /\ spc' = spc
    BY <1>2 DEF ClientStep, Push, NotifyOne, WaitTest, Wait, SpuriousDone, Enqueue,
                poolVars, stopVars
  <2>2. (\A w \in Worker : wpc[w] = "none") => wpc' = wpc
    BY <1>2 DEF ClientStep, Push, NotifyOne, WaitTest, Wait, SpuriousDone, Enqueue, workerVars
  <2>3. \A w \in Worker : wpc'[w] = wpc[w] \/ wpc'[w] = "loop"
    BY <1>2 DEF ClientStep, Push, NotifyOne, WaitTest, Wait, SpuriousDone, Enqueue, workerVars
  <2> QED
    BY <2>1, <2>2, <2>3
<1>3. CASE Start
  BY <1>3 DEF Start
<1>4. CASE Stop \/ StopClear
  BY <1>4 DEF Stop, StopClear, poolVars, workerVars
<1>5. CASE StopNotify \/ StopJoin
  BY <1>5 DEF StopNotify, StopJoin, poolVars
<1> QED
  BY <1>1, <1>2, <1>3, <1>4, <1>5 DEF Next, StopStep

-----------------------------------------------------------------------------
(* Conservation.                                                             *)

\* A step that moves no task keeps Conservation.
LEMMA ConservationKept ==
    ASSUME Conservation, UNCHANGED <<tasks, hand, pushed, finished>>,
           \A w \in Worker : wpc'[w] = "running" <=> wpc[w] = "running"
    PROVE  Conservation'
<1>1. Held' = Held /\ Queued' = Queued
  BY DEF Held, Queued
<1> QED
  BY <1>1 DEF Conservation

\* Taking a task moves it from the front of the queue into one worker's hand.
LEMMA ConservationTake ==
    ASSUME IInv, NEW w \in Worker, Take(w) PROVE Conservation' /\ Held' = Held \cup {Head(tasks)}
<1> USE DEF IInv, TypeOK, Take
<1> DEFINE t == Head(tasks)
<1>1. tasks \in Seq(Task) /\ tasks # <<>> /\ Len(tasks) \in Nat /\ Len(tasks) >= 1 /\ t = tasks[1]
  OBVIOUS
<1>2. /\ Len(tasks') = Len(tasks) - 1
      /\ \A i \in 1 .. Len(tasks') : tasks'[i] = tasks[i + 1]
  BY <1>1
<1>3. t \in Queued /\ t \in Task
  BY <1>1 DEF Queued
<1>4. Queued' = Queued \ {t}
  <2>1. ASSUME NEW x \in Queued' PROVE x \in Queued \ {t}
    <3>1. PICK i \in 1 .. Len(tasks') : x = tasks'[i]
      BY DEF Queued
    <3>2. i + 1 \in 1 .. Len(tasks) /\ x = tasks[i + 1] /\ i + 1 # 1
      BY <3>1, <1>1, <1>2
    <3> QED
      BY <3>2, <1>1 DEF Queued, Conservation
  <2>2. ASSUME NEW x \in Queued \ {t} PROVE x \in Queued'
    <3>1. PICK i \in 1 .. Len(tasks) : x = tasks[i]
      BY DEF Queued
    <3>2. i # 1
      BY <3>1, <1>1
    <3>3. i - 1 \in 1 .. Len(tasks') /\ tasks'[i - 1] = tasks[i]
      BY <3>2, <1>1, <1>2
    <3> QED
      BY <3>1, <3>3 DEF Queued
  <2> QED
    BY <2>1, <2>2
<1>5. Held' = Held \cup {t}
  BY DEF Held
<1>6. \A i, j \in 1 .. Len(tasks') : tasks'[i] = tasks'[j] => i = j
  <2> SUFFICES ASSUME NEW i \in 1 .. Len(tasks'), NEW j \in 1 .. Len(tasks'), tasks'[i] = tasks'[j]
               PROVE  i = j
    OBVIOUS
  <2>1. i + 1 \in 1 .. Len(tasks) /\ j + 1 \in 1 .. Len(tasks) /\ tasks[i + 1] = tasks[j + 1]
    BY <1>1, <1>2
  <2>2. i + 1 = j + 1
    BY <2>1 DEF Conservation
  <2> QED
    BY <2>2
<1>7. ASSUME NEW u \in Worker, NEW v \in Worker,
             wpc'[u] = "running", wpc'[v] = "running", hand'[u] = hand'[v]
      PROVE  u = v
  <2>1. ASSUME NEW x \in Worker, x # w, wpc'[x] = "running"
        PROVE  hand'[x] = hand[x] /\ hand[x] \in Held /\ wpc[x] = "running"
    BY <2>1 DEF Held
  <2>2. hand'[w] = t
    OBVIOUS
  <2>3. t \notin Held
    BY <1>3 DEF Conservation
  <2> QED
    BY <1>7, <2>1, <2>2, <2>3 DEF Conservation
<1>8. pushed' = Queued' \cup Held' \cup finished'
  BY <1>3, <1>4, <1>5 DEF Conservation
<1>9. Queued' \cap Held' = {} /\ Queued' \cap finished' = {} /\ Held' \cap finished' = {}
  BY <1>3, <1>4, <1>5 DEF Conservation
<1> QED
  BY <1>5, <1>6, <1>7, <1>8, <1>9 DEF Conservation

\* A task that returns moves from its worker's hand to the finished ones.
LEMMA ConservationReturn ==
    ASSUME IInv, NEW w \in Worker, Return(w)
    PROVE  Conservation' /\ hand[w] \in Held /\ Held' = Held \ {hand[w]}
<1> USE DEF IInv, TypeOK, Return
<1>1. Queued' = Queued
  BY DEF Queued, poolVars
<1>2. hand[w] \in Held
  BY DEF Held
<1>3. Held' = Held \ {hand[w]}
  <2>1. \A v \in Worker : wpc'[v] = "running" <=> (wpc[v] = "running" /\ v # w)
    OBVIOUS
  <2>2. \A v \in Worker : v # w => hand'[v] = hand[v]
    OBVIOUS
  <2>3. \A v \in Worker : (wpc[v] = "running" /\ v # w) => hand[v] # hand[w]
    BY DEF Conservation
  <2> QED
    BY <2>1, <2>2, <2>3 DEF Held
<1>4. \A u, v \in Worker :
         (wpc'[u] = "running" /\ wpc'[v] = "running" /\ hand'[u] = hand'[v]) => u = v
  BY DEF Conservation
<1>5. \A i, j \in 1 .. Len(tasks') : tasks'[i] = tasks'[j] => i = j
  BY DEF Conservation, poolVars
<1>6. /\ pushed' = Queued' \cup Held' \cup finished'
      /\ Queued' \cap Held' = {} /\ Queued' \cap finished' = {} /\ Held' \cap finished' = {}
  BY <1>1, <1>2, <1>3 DEF Conservation
<1> QED
  BY <1>2, <1>3, <1>4, <1>5, <1>6 DEF Conservation

\* Pushing a task that was never pushed adds it to the queue, once.
LEMMA ConservationPush ==
    ASSUME IInv, NEW c \in Client, Push(c) PROVE Conservation'
<1> USE DEF IInv, TypeOK, Push
<1> DEFINE t == arg[c]
<1>1. t \in Task /\ t \notin pushed
  BY DEF Handles
<1>2. /\ Len(tasks) \in Nat /\ Len(tasks') = Len(tasks) + 1 /\ tasks'[Len(tasks) + 1] = t
      /\ \A i \in 1 .. Len(tasks) : tasks'[i] = tasks[i]
  BY <1>1
<1>3. Queued' = Queued \cup {t}
  <2>1. ASSUME NEW x \in Queued' PROVE x \in Queued \cup {t}
    <3>1. PICK i \in 1 .. Len(tasks') : x = tasks'[i]
      BY DEF Queued
    <3>2. i \in 1 .. Len(tasks) \/ i = Len(tasks) + 1
      BY <1>2
    <3> QED
      BY <1>2, <3>1, <3>2 DEF Queued
  <2>2. ASSUME NEW x \in Queued PROVE x \in Queued'
    <3>1. PICK i \in 1 .. Len(tasks) : x = tasks[i]
      BY DEF Queued
    <3>2. i \in 1 .. Len(tasks') /\ tasks'[i] = x
      BY <1>2, <3>1
    <3> QED
      BY <3>2 DEF Queued
  <2>3. t \in Queued'
    <3>1. Len(tasks) + 1 \in 1 .. Len(tasks')
      BY <1>2
    <3> QED
      BY <1>2, <3>1 DEF Queued
  <2> QED
    BY <2>1, <2>2, <2>3
<1>4. Held' = Held /\ finished' = finished
  BY DEF Held, workerVars
<1>5. t \notin Queued /\ t \notin Held /\ t \notin finished
  BY <1>1 DEF Conservation
<1>6. \A i, j \in 1 .. Len(tasks') : tasks'[i] = tasks'[j] => i = j
  <2> SUFFICES ASSUME NEW i \in 1 .. Len(tasks'), NEW j \in 1 .. Len(tasks'), tasks'[i] = tasks'[j]
               PROVE  i = j
    OBVIOUS
  <2>1. \A k \in 1 .. Len(tasks) : tasks'[k] \in Queued
    BY <1>2 DEF Queued
  <2>2. i \in 1 .. Len(tasks) \/ i = Len(tasks) + 1
    BY <1>2
  <2>3. j \in 1 .. Len(tasks) \/ j = Len(tasks) + 1
    BY <1>2
  <2>4. CASE i \in 1 .. Len(tasks) /\ j \in 1 .. Len(tasks)
    BY <1>2, <2>4 DEF Conservation
  <2> QED
    BY <1>2, <1>5, <2>1, <2>2, <2>3, <2>4
<1>7. \A u, v \in Worker :
         (wpc'[u] = "running" /\ wpc'[v] = "running" /\ hand'[u] = hand'[v]) => u = v
  BY DEF Conservation, workerVars
<1>8. /\ pushed' = Queued' \cup Held' \cup finished'
      /\ Queued' \cap Held' = {} /\ Queued' \cap finished' = {} /\ Held' \cap finished' = {}
  BY <1>3, <1>4, <1>5 DEF Conservation
<1> QED
  BY <1>6, <1>7, <1>8 DEF Conservation

\* Every step keeps Conservation.
LEMMA ConservationStep == ASSUME IInv, Next PROVE Conservation'
<1> USE DEF TypeOK, IInv
<1>1. ASSUME NEW w \in Worker, WorkerStep(w) \/ SpuriousWakeup(w) PROVE Conservation'
  <2>1. CASE Sleep(w) \/ Exit(w) \/ SpuriousWakeup(w) \/ NotifyDone(w)
    BY <2>1, ConservationKept DEF Sleep, Exit, SpuriousWakeup, NotifyDone, poolVars
  <2>2. CASE Decrement(w)
    BY <2>2, ConservationKept DEF Decrement
  <2> QED
    BY <1>1, <2>1, <2>2, ConservationTake, ConservationReturn DEF WorkerStep
<1>2. ASSUME NEW c \in Client, ClientStep(c) \/ Wait(c) \/ SpuriousDone(c) PROVE Conservation'
  <2>1. CASE NotifyOne(c)
    BY <2>1, ConservationKept DEF NotifyOne, poolVars
  <2>2. CASE WaitTest(c) \/ SpuriousDone(c) \/ Wait(c)
    BY <2>2, ConservationKept DEF WaitTest, SpuriousDone, Wait, poolVars, workerVars
  <2> QED
    BY <1>2, <2>1, <2>2, ConservationPush DEF ClientStep
<1>3. ASSUME NEW c \in Client, NEW t \in Task, Enqueue(c, t) PROVE Conservation'
  BY <1>3, ConservationKept DEF Enqueue, poolVars, workerVars
<1>4. CASE Start
  <2>1. \A w \in Worker : wpc[w] = "none" /\ wpc'[w] = "loop"
    BY <1>4 DEF Start, Threads
  <2> QED
    BY <1>4, <2>1, ConservationKept DEF Start
<1>5. CASE Stop \/ StopClear
  BY <1>5, ConservationKept DEF Stop, StopClear, poolVars, workerVars
<1>6. CASE StopNotify \/ StopJoin
  BY <1>6, ConservationKept DEF StopNotify, StopJoin, poolVars
<1> QED
  BY <1>1, <1>2, <1>3, <1>4, <1>5, <1>6 DEF Next, StopStep

-----------------------------------------------------------------------------
(* active_tasks_.                                                            *)

\* A step in which the same workers are counted keeps ActiveCounts.
LEMMA ActiveKept ==
    ASSUME ActiveCounts, active' = active,
           \A w \in Worker : wpc'[w] \in {"running", "returned"}
                                 <=> wpc[w] \in {"running", "returned"}
    PROVE  ActiveCounts'
<1>1. Counted' = Counted
  BY DEF Counted
<1> QED
  BY <1>1 DEF ActiveCounts, Counted

\* Every step keeps ActiveCounts: the counter moves with the worker that takes a
\* task and with the one that has returned from it.
LEMMA ActiveStep == ASSUME IInv, Next PROVE ActiveCounts'
<1> USE DEF TypeOK, IInv
<1>1. ASSUME NEW w \in Worker, WorkerStep(w) \/ SpuriousWakeup(w) PROVE ActiveCounts'
  <2>1. CASE Sleep(w) \/ Exit(w) \/ SpuriousWakeup(w) \/ NotifyDone(w) \/ Return(w)
    BY <2>1, ActiveKept DEF Sleep, Exit, SpuriousWakeup, NotifyDone, Return, poolVars
  <2>2. CASE Take(w)
    <3>1. Counted' = Counted \cup {w} /\ w \notin Counted
      BY <2>2 DEF Take, Counted
    <3>2. Cardinality(Counted') = Cardinality(Counted) + 1
      BY <3>1, CountedFinite, FS_AddElement
    <3> QED
      BY <2>2, <3>2 DEF Take, ActiveCounts, Counted
  <2>3. CASE Decrement(w)
    <3>1. Counted' = Counted \ {w} /\ w \in Counted
      BY <2>3 DEF Decrement, Counted
    <3>2. Cardinality(Counted') = Cardinality(Counted) - 1
      BY <3>1, CountedFinite, FS_RemoveElement
    <3> QED
      BY <2>3, <3>2 DEF Decrement, ActiveCounts, Counted
  <2> QED
    BY <1>1, <2>1, <2>2, <2>3 DEF WorkerStep
<1>2. ASSUME NEW c \in Client, ClientStep(c) \/ Wait(c) \/ SpuriousDone(c)
                                  \/ \E t \in Task : Enqueue(c, t)
      PROVE  ActiveCounts'
  <2>1. active' = active
    BY <1>2 DEF ClientStep, Push, NotifyOne, WaitTest, Wait, SpuriousDone, Enqueue, poolVars
  <2>2. CASE NotifyOne(c)
    BY <2>1, <2>2, ActiveKept DEF NotifyOne
  <2>3. CASE ~NotifyOne(c)
    <3>1. wpc' = wpc
      BY <1>2, <2>3 DEF ClientStep, Push, WaitTest, Wait, SpuriousDone, Enqueue, workerVars
    <3> QED
      BY <2>1, <3>1, ActiveKept
  <2> QED
    BY <2>2, <2>3
<1>3. CASE Start
  <2>1. \A w \in Worker : wpc[w] = "none" /\ wpc'[w] = "loop"
    BY <1>3 DEF Start, Threads
  <2> QED
    BY <1>3, <2>1, ActiveKept DEF Start
<1>4. CASE Stop \/ StopClear
  BY <1>4, ActiveKept DEF Stop, StopClear, poolVars, workerVars
<1>5. CASE StopNotify \/ StopJoin
  BY <1>5, ActiveKept DEF StopNotify, StopJoin, poolVars
<1> QED
  BY <1>1, <1>2, <1>3, <1>4, <1>5 DEF Next, StopStep

-----------------------------------------------------------------------------
(* What stop() leaves queued.                                                *)

\* A step after which no more is queued keeps StopDrains, unless the last worker
\* goes in it.
LEMMA DrainsKept ==
    ASSUME StopDrains, Queued' \subseteq Queued, late \subseteq late', Stopped' => Stopped
    PROVE  StopDrains'
  BY DEF StopDrains

\* Every step keeps StopDrains: the last worker goes only when it finds the queue
\* empty, and a push into a pool without workers is a late one.
LEMMA DrainsStep == ASSUME IInv, Next PROVE StopDrains'
<1> USE DEF TypeOK, IInv
<1>1. ASSUME NEW w \in Worker, WorkerStep(w) \/ SpuriousWakeup(w) PROVE StopDrains'
  <2>1. CASE Exit(w)
    BY <2>1 DEF Exit, StopDrains, Queued, poolVars
  <2>2. CASE ~Exit(w)
    <3>1. wpc'[w] \notin {"none", "exited"}
      BY <1>1, <2>2 DEF WorkerStep, SpuriousWakeup, Sleep, Take, Return, Decrement, NotifyDone
    <3> QED
      BY <3>1 DEF StopDrains, Stopped
  <2> QED
    BY <2>1, <2>2
<1>2. ASSUME NEW c \in Client, ClientStep(c) \/ Wait(c) \/ SpuriousDone(c)
                                  \/ \E t \in Task : Enqueue(c, t)
      PROVE  StopDrains'
  <2>1. CASE Push(c)
    <3>1. CASE is_running
      <4>1. PICK w \in Worker : TRUE
        BY WorkerAssumption
      <4>2. wpc'[w] \notin {"none", "exited"}
        BY <2>1, <3>1, <4>1 DEF Threads, Push, workerVars
      <4> QED
        BY <4>2 DEF StopDrains, Stopped
    <3>2. CASE ~is_running
      <4>1. Queued' \subseteq Queued \cup {arg[c]}
        <5> SUFFICES ASSUME NEW i \in 1 .. Len(tasks') PROVE tasks'[i] \in Queued \cup {arg[c]}
          BY DEF Queued
        <5>1. arg[c] \in Task /\ tasks' = Append(tasks, arg[c])
          BY <2>1 DEF Push, Handles
        <5>2. i \in 1 .. Len(tasks) \/ i = Len(tasks) + 1
          BY <5>1
        <5>3. i \in 1 .. Len(tasks) => tasks'[i] = tasks[i]
          BY <5>1
        <5>4. i = Len(tasks) + 1 => tasks'[i] = arg[c]
          BY <5>1
        <5> QED
          BY <5>2, <5>3, <5>4 DEF Queued
      <4>2. late' = late \cup {arg[c]} /\ wpc' = wpc
        BY <2>1, <3>2 DEF Push, workerVars
      <4> QED
        BY <4>1, <4>2 DEF StopDrains, Stopped
    <3> QED
      BY <3>1, <3>2
  <2>2. CASE ~Push(c)
    <3>1. Queued' = Queued /\ late' = late
      BY <1>2, <2>2 DEF ClientStep, NotifyOne, WaitTest, Wait, SpuriousDone, Enqueue, poolVars, Queued
    <3>2. \A w \in Worker : wpc'[w] = wpc[w] \/ wpc'[w] = "loop"
      BY <1>2, <2>2 DEF ClientStep, NotifyOne, WaitTest, Wait, SpuriousDone, Enqueue, workerVars
    <3>3. Stopped' => Stopped
      BY <3>2 DEF Stopped
    <3> QED
      BY <3>1, <3>3, DrainsKept
  <2> QED
    BY <2>1, <2>2
<1>3. CASE Start \/ Stop \/ StopStep
  <2>1. Queued' = Queued /\ late' = late
    BY <1>3 DEF Start, Stop, StopStep, StopClear, StopNotify, StopJoin, poolVars, Queued
  <2>2. Stopped' => Stopped
    <3>1. CASE Start
      BY <3>1, WorkerAssumption DEF Start, Stopped
    <3>2. CASE Stop \/ StopClear
      BY <3>2 DEF Stop, StopClear, workerVars, Stopped
    <3>3. CASE StopNotify
      BY <3>3 DEF StopNotify, Stopped
    <3>4. CASE StopJoin
      BY <3>4 DEF StopJoin, Stopped
    <3> QED
      BY <1>3, <3>1, <3>2, <3>3, <3>4 DEF StopStep
  <2> QED
    BY <2>1, <2>2, DrainsKept
<1> QED
  BY <1>1, <1>2, <1>3 DEF Next

-----------------------------------------------------------------------------
(* The theorems.                                                             *)

\* The invariant holds in every reachable state.
LEMMA Invariance == Spec => []IInv
<1>1. ASSUME IInv, [Next]_vars PROVE IInv'
  <2>1. CASE Next
    <3>1. TypeOK'
      BY <1>1, <2>1, WorkerType, ClientType, ControllerType DEF Next
    <3> QED
      BY <1>1, <2>1, <3>1, HandlesStep, ThreadsStep, ConservationStep, ActiveStep, DrainsStep
         DEF IInv
  <2>2. CASE UNCHANGED vars
    <3> USE <1>1, <2>2 DEF IInv, vars, poolVars, workerVars, clientVars, stopVars
    <3>1. TypeOK' /\ Threads'
      BY DEF TypeOK, Threads
    <3>2. Handles'
      BY DEF Handles
    <3>3. Conservation'
      BY ConservationKept
    <3>4. ActiveCounts'
      BY ActiveKept
    <3>5. StopDrains'
      BY DEF StopDrains, Stopped, Queued
    <3> QED
      BY <3>1, <3>2, <3>3, <3>4, <3>5
  <2> QED
    BY <1>1, <2>1, <2>2
<1> QED
  BY <1>1, InitIInv, PTL DEF Spec

\* Every variable of the pool keeps its type: in particular active_tasks_, a
\* size_t, is never decremented at 0.
THEOREM TypeCorrect == Spec => []TypeOK
<1>1. IInv => TypeOK
  BY DEF IInv
<1> QED
  BY <1>1, Invariance, PTL

\* When the last worker has gone, everything pushed before stop() cleared
\* is_running_ has been executed: what is left in tasks_ came from an enqueue()
\* that had passed its test before and pushed after it.
THEOREM QueueDrained == Spec => []StopDrains
<1>1. IInv => StopDrains
  BY DEF IInv
<1> QED
  BY <1>1, Invariance, PTL

\* active_tasks_ is the number of workers between taking a task and accounting
\* for it.
THEOREM ActiveExact == Spec => []ActiveCounts
<1>1. IInv => ActiveCounts
  BY DEF IInv
<1> QED
  BY <1>1, Invariance, PTL

\* A task is never left in the queue with every worker asleep and nobody about to
\* notify: the push and the workers' test are under one mutex.
THEOREM WakeupsKept == Spec => []NoLostWakeup
<1>1. Init => NoLostWakeup
  BY DEF Init, NoLostWakeup
<1>2. ASSUME TypeOK, NoLostWakeup, [Next]_vars PROVE NoLostWakeup'
  <2> USE <1>2 DEF TypeOK, NoLostWakeup
  <2>1. ASSUME NEW w \in Worker, WorkerStep(w) \/ SpuriousWakeup(w) PROVE NoLostWakeup'
    <3>1. CASE Sleep(w)
      BY <3>1 DEF Sleep, poolVars
    <3>2. CASE ~Sleep(w)
      <4>1. wpc'[w] # "asleep"
        BY <2>1, <3>2 DEF WorkerStep, SpuriousWakeup, Exit, Take, Return, Decrement, NotifyDone
      <4> QED
        BY <4>1
    <3> QED
      BY <3>1, <3>2
  <2>2. ASSUME NEW c \in Client, ClientStep(c) PROVE NoLostWakeup'
    <3>1. CASE Push(c)
      BY <3>1 DEF Push
    <3>2. CASE NotifyOne(c)
      <4>1. \E w \in Worker : wpc'[w] # "asleep"
        BY <3>2, WorkerAssumption DEF NotifyOne
      <4> QED
        BY <4>1
    <3>3. CASE WaitTest(c)
      BY <3>3 DEF WaitTest, poolVars, workerVars, stopVars
    <3> QED
      BY <2>2, <3>1, <3>2, <3>3 DEF ClientStep
  <2>3. ASSUME NEW c \in Client, Wait(c) \/ SpuriousDone(c) \/ \E t \in Task : Enqueue(c, t)
        PROVE  NoLostWakeup'
    <3>1. UNCHANGED <<tasks, wpc, spc>>
      BY <2>3 DEF Wait, SpuriousDone, Enqueue, poolVars, workerVars, stopVars
    <3>2. \A d \in Client : cpc[d] = "notify" => cpc'[d] = "notify"
      BY <2>3 DEF Wait, SpuriousDone, Enqueue
    <3> QED
      BY <3>1, <3>2
  <2>4. CASE Start \/ StopNotify \/ StopJoin
    <3>1. \E w \in Worker : wpc'[w] # "asleep"
      BY <2>4, WorkerAssumption DEF Start, StopNotify, StopJoin
    <3> QED
      BY <3>1
  <2>5. CASE Stop \/ StopClear
    BY <2>5 DEF Stop, StopClear, poolVars, workerVars, clientVars
  <2>6. CASE UNCHANGED vars
    BY <2>6 DEF vars, poolVars, workerVars, clientVars, stopVars
  <2> QED
    BY <1>2, <2>1, <2>2, <2>3, <2>4, <2>5, <2>6 DEF Next, StopStep
<1> QED
  BY <1>1, <1>2, TypeCorrect, PTL DEF Spec

-----------------------------------------------------------------------------
(* ThreadPool implements TaskPool.  Five kinds of steps are visible: a push, *)
(* the taking and the return of a task, the call of wait() and its return.   *)

\* A worker that executes nothing leaves room for one more task.
LEMMA BelowSize ==
    ASSUME IInv, NEW w \in Worker, wpc[w] # "running"
    PROVE  Cardinality(Held) < Cardinality(Worker)
<1> DEFINE R == {v \in Worker : wpc[v] = "running"}
           f == [v \in R |-> hand[v]]
<1>1. IsFiniteSet(Worker \ {w}) /\ Cardinality(Worker \ {w}) = Cardinality(Worker) - 1
         /\ Cardinality(Worker) \in Nat
  BY WorkerAssumption, FS_RemoveElement, FS_CardinalityType
<1>2. R \in SUBSET (Worker \ {w})
  OBVIOUS
<1>3. IsFiniteSet(R) /\ Cardinality(R) <= Cardinality(Worker \ {w})
  BY <1>1, <1>2, FS_Subset
<1>4. f \in Surjection(R, Held)
  BY DEF Held, Surjection
<1>5. IsFiniteSet(Held) /\ Cardinality(Held) <= Cardinality(R)
  BY <1>3, <1>4, FS_Surjection
<1>6. Cardinality(Held) \in Nat /\ Cardinality(R) \in Nat
  BY <1>3, <1>5, FS_CardinalityType
<1> QED
  BY <1>1, <1>3, <1>5, <1>6

\* What is submitted is what was pushed.
LEMMA SubmittedPushed == ASSUME Conservation PROVE P!Submitted = pushed
  BY DEF P!Submitted, Conservation, Queued

\* Steps that leave queue, hands and waiting clients alone are not seen.
LEMMA Unseen ==
    ASSUME UNCHANGED <<tasks, hand, finished, due>>,
           \A w \in Worker : wpc'[w] = "running" <=> wpc[w] = "running",
           \A c \in Client : cpc'[c] \in {"wait", "asleep"} <=> cpc[c] \in {"wait", "asleep"}
    PROVE  UNCHANGED <<tasks, Held, finished, Waiting, due>>
<1>1. Held' = Held
  BY DEF Held
<1>2. Waiting' = Waiting
  BY DEF Waiting
<1> QED
  BY <1>1, <1>2

\* wait() returns only when nothing is queued and active_tasks_ is 0: all that was
\* pushed is finished.
LEMMA DoneMeansFinished ==
    ASSUME IInv, AllDone, NEW c \in Client
    PROVE  due[c] \subseteq finished
<1> USE DEF IInv, TypeOK
<1>1. Queued = {}
  BY DEF AllDone, Queued
<1>2. Counted = {}
  BY CountedFinite, FS_EmptySet DEF AllDone, ActiveCounts, Counted
<1>3. Held = {}
  BY <1>2 DEF Counted, Held
<1> QED
  BY <1>1, <1>3 DEF Conservation, Handles

\* A step of a worker begins a task, ends one, or is not seen.
LEMMA WorkerRefines ==
    ASSUME IInv, NEW w \in Worker, WorkerStep(w) \/ SpuriousWakeup(w)
    PROVE  P!Next \/ UNCHANGED <<tasks, Held, finished, Waiting, due>>
<1> USE DEF IInv, TypeOK
<1>1. CASE Take(w)
  <2>1. Held' = Held \cup {Head(tasks)} /\ Cardinality(Held) < Cardinality(Worker)
    BY <1>1, ConservationTake, BelowSize DEF Take
  <2>2. tasks # <<>> /\ tasks' = Tail(tasks) /\ finished' = finished /\ due' = due /\ Waiting' = Waiting
    BY <1>1 DEF Take, clientVars, Waiting
  <2>3. P!Cardinality(Held) = Cardinality(Held)
    BY DEF P!Cardinality, Cardinality
  <2>4. P!Begin
    BY <2>1, <2>2, <2>3 DEF P!Begin
  <2> QED
    BY <2>4 DEF P!Next
<1>2. CASE Return(w)
  <2>1. hand[w] \in Held /\ Held' = Held \ {hand[w]} /\ hand[w] \in Task
    BY <1>2, ConservationReturn DEF Return, Handles
  <2>2. finished' = finished \cup {hand[w]} /\ tasks' = tasks /\ due' = due /\ cpc' = cpc
    BY <1>2 DEF Return, poolVars, clientVars
  <2>3. Waiting' = Waiting
    BY <2>2 DEF Waiting
  <2>4. P!End(hand[w])
    BY <2>1, <2>2, <2>3 DEF P!End
  <2> QED
    BY <2>1, <2>4 DEF P!Next
<1>3. CASE Sleep(w) \/ Exit(w) \/ SpuriousWakeup(w) \/ Decrement(w)
  <2>1. UNCHANGED <<tasks, hand, finished, due, cpc>>
    BY <1>3 DEF Sleep, Exit, SpuriousWakeup, Decrement, poolVars, clientVars
  <2>2. \A v \in Worker : wpc'[v] = "running" <=> wpc[v] = "running"
    BY <1>3 DEF Sleep, Exit, SpuriousWakeup, Decrement
  <2> QED
    BY <2>1, <2>2, Unseen
<1>4. CASE NotifyDone(w)
  <2>1. UNCHANGED <<tasks, hand, finished, due>>
    BY <1>4 DEF NotifyDone, poolVars
  <2>2. \A v \in Worker : wpc'[v] = "running" <=> wpc[v] = "running"
    BY <1>4 DEF NotifyDone
  <2>3. \A c \in Client : cpc'[c] \in {"wait", "asleep"} <=> cpc[c] \in {"wait", "asleep"}
    BY <1>4 DEF NotifyDone
  <2> QED
    BY <2>1, <2>2, <2>3, Unseen
<1> QED
  BY <1>1, <1>2, <1>3, <1>4 DEF WorkerStep

\* A step of a client submits a task, calls wait() or returns from it, or is not
\* seen.
LEMMA ClientRefines ==
    ASSUME IInv, NEW c \in Client,
           ClientStep(c) \/ Wait(c) \/ SpuriousDone(c) \/ \E t \in Task : Enqueue(c, t)
    PROVE  P!Next \/ UNCHANGED <<tasks, Held, finished, Waiting, due>>
<1> USE DEF IInv, TypeOK
<1>1. CASE Push(c)
  <2>1. arg[c] \in Task /\ arg[c] \notin P!Submitted
    BY <1>1, SubmittedPushed DEF Push, Handles
  <2>2. tasks' = Append(tasks, arg[c]) /\ UNCHANGED <<Held, finished, due>>
    BY <1>1 DEF Push, workerVars, Held
  <2>3. Waiting' = Waiting
    BY <1>1 DEF Push, Waiting
  <2>4. P!Submit(arg[c])
    BY <2>1, <2>2, <2>3 DEF P!Submit
  <2> QED
    BY <2>1, <2>4 DEF P!Next
<1>2. CASE Wait(c)
  <2>1. c \notin Waiting /\ Waiting' = Waiting \cup {c}
    BY <1>2 DEF Wait, Waiting
  <2>2. due' = [due EXCEPT ![c] = P!Submitted] /\ UNCHANGED <<tasks, Held, finished>>
    BY <1>2, SubmittedPushed DEF Wait, poolVars, workerVars, Held
  <2>3. P!CallWait(c)
    BY <2>1, <2>2 DEF P!CallWait
  <2> QED
    BY <2>3 DEF P!Next
<1>3. CASE WaitTest(c) /\ AllDone
  <2>1. c \in Waiting /\ Waiting' = Waiting \ {c}
    BY <1>3 DEF WaitTest, Waiting
  <2>2. due[c] \subseteq finished /\ due' = [due EXCEPT ![c] = {}] /\ UNCHANGED <<tasks, Held, finished>>
    BY <1>3, DoneMeansFinished DEF WaitTest, poolVars, workerVars, Held
  <2>3. P!ReturnFromWait(c)
    BY <2>1, <2>2 DEF P!ReturnFromWait
  <2> QED
    BY <2>3 DEF P!Next
<1>4. CASE WaitTest(c) /\ ~AllDone
  <2>1. UNCHANGED <<tasks, hand, finished, due, wpc>>
    BY <1>4 DEF WaitTest, poolVars, workerVars
  <2>2. \A d \in Client : cpc'[d] \in {"wait", "asleep"} <=> cpc[d] \in {"wait", "asleep"}
    BY <1>4 DEF WaitTest
  <2> QED
    BY <2>1, <2>2, Unseen
<1>5. CASE NotifyOne(c)
  <2>1. UNCHANGED <<tasks, hand, finished, due>>
    BY <1>5 DEF NotifyOne, poolVars
  <2>2. \A v \in Worker : wpc'[v] = "running" <=> wpc[v] = "running"
    BY <1>5 DEF NotifyOne
  <2>3. \A d \in Client : cpc'[d] \in {"wait", "asleep"} <=> cpc[d] \in {"wait", "asleep"}
    BY <1>5 DEF NotifyOne
  <2> QED
    BY <2>1, <2>2, <2>3, Unseen
<1>6. CASE SpuriousDone(c) \/ \E t \in Task : Enqueue(c, t)
  <2>1. UNCHANGED <<tasks, hand, finished, due, wpc>>
    BY <1>6 DEF SpuriousDone, Enqueue, poolVars, workerVars
  <2>2. \A d \in Client : cpc'[d] \in {"wait", "asleep"} <=> cpc[d] \in {"wait", "asleep"}
    BY <1>6 DEF SpuriousDone, Enqueue
  <2> QED
    BY <2>1, <2>2, Unseen
<1> QED
  BY <1>1, <1>2, <1>3, <1>4, <1>5, <1>6 DEF ClientStep

\* start() and stop() are not seen: no worker executes a task when they replace
\* the threads.
LEMMA ControllerRefines ==
    ASSUME IInv, Start \/ Stop \/ StopStep
    PROVE  UNCHANGED <<tasks, Held, finished, Waiting, due>>
<1> USE DEF IInv, TypeOK
<1>1. UNCHANGED <<tasks, hand, finished, due, cpc>>
  BY DEF Start, Stop, StopStep, StopClear, StopNotify, StopJoin, poolVars, workerVars, clientVars
<1>2. \A v \in Worker : wpc'[v] = "running" <=> wpc[v] = "running"
  <2>1. CASE Start
    BY <2>1 DEF Start, Threads
  <2>2. CASE Stop \/ StopClear
    BY <2>2 DEF Stop, StopClear, workerVars
  <2>3. CASE StopNotify
    BY <2>3 DEF StopNotify
  <2>4. CASE StopJoin
    BY <2>4 DEF StopJoin
  <2> QED
    BY <2>1, <2>2, <2>3, <2>4 DEF StopStep
<1> QED
  BY <1>1, <1>2, Unseen

\* To its callers the pool is a queue of tasks: whatever the threads, the
\* notifications and restarts do, a task begins after those pushed before it, is
\* executed once, by one of at most num_threads_ at a time, and wait() returns only
\* when every task pushed before the call has finished (thread_pool.hpp).
THEOREM PoolImplementsTaskPool == Spec => ImplementsTaskPool
<1>1. Init => P!Init
  BY DEF Init, P!Init, Held, Waiting
<1>2. ASSUME IInv, [Next]_vars PROVE [P!Next]_<<tasks, Held, finished, Waiting, due>>
  <2>1. CASE UNCHANGED vars
    <3>1. UNCHANGED <<tasks, hand, finished, due, wpc, cpc>>
      BY <2>1 DEF vars, poolVars, workerVars, clientVars
    <3> QED
      BY <3>1, Unseen
  <2> QED
    BY <1>2, <2>1, WorkerRefines, ClientRefines, ControllerRefines DEF Next
<1> QED
  BY <1>1, <1>2, Invariance, PTL DEF Spec, ImplementsTaskPool, P!Spec
=============================================================================
