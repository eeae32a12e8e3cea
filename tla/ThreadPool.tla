----------------------------- MODULE ThreadPool -----------------------------
(* The pool that runs every background loop of a node                        *)
(* (include/zerolancom/utils/thread_pool.hpp): worker threads, threads that  *)
(* call enqueue() and wait(), and a controller that calls start() and        *)
(* stop().  A block under mutex_ is one step; everything between two blocks, *)
(* the unlocked test of is_running_ and the notifications included, is a     *)
(* step of its own.                                                          *)
EXTENDS Integers, Sequences, FiniteSets

CONSTANTS
    Worker,     \* the num_threads_ worker threads
    Client,     \* threads that enqueue tasks and wait for them
    Waiter,     \* the clients that call wait()
    Task,       \* tasks, each enqueued at most once
    Endless,    \* tasks that need not return, as PeriodicTask::runLoop unless it is stopped
    None,       \* no task
    MaxStarts   \* bound: how often start() is called

ASSUME PoolAssumption ==
    /\ Waiter \subseteq Client /\ Endless \subseteq Task
    /\ None \notin Task /\ MaxStarts \in Nat

\* num_threads_ is a size_t, and the constructor makes it at least 1.
ASSUME WorkerAssumption == Worker # {} /\ IsFiniteSet(Worker)

VARIABLES
    is_running,  \* is_running_
    tasks,       \* tasks_
    active,      \* active_tasks_
    wpc,         \* where each worker is
    hand,        \* the task each worker executes
    cpc,         \* where each client is
    arg,         \* the task each client enqueues
    spc,         \* where the controller is
    starts,      \* calls of start() so far
    rejected,    \* tasks enqueue() turned away
    pushed,      \* tasks ever pushed
    late,        \* the tasks among them that were pushed when is_running_ was cleared
    finished,    \* tasks that returned or threw
    due          \* due[c]: the tasks pushed before the call of wait() that c is in

poolVars   == <<is_running, tasks, active>>
workerVars == <<wpc, hand>>
clientVars == <<cpc, arg, due, rejected>>
stopVars   == <<spc, starts>>
vars == <<poolVars, workerVars, clientVars, stopVars, pushed, late, finished>>

WorkerPC == {"none", "loop", "asleep", "running", "returned", "notify", "exited"}
ClientPC == {"idle", "push", "notify", "wait", "asleep"}
StopPC   == {"idle", "clear", "notify", "join"}

-----------------------------------------------------------------------------
(* The worker loop.                                                          *)

\* cv_.wait: the predicate fails, the worker sleeps on cv_.
Sleep(w) ==
    /\ wpc[w] = "loop"
    /\ tasks = <<>> /\ is_running
    /\ wpc' = [wpc EXCEPT ![w] = "asleep"]
    /\ UNCHANGED <<poolVars, hand, clientVars, stopVars, pushed, late, finished>>

\* A condition variable may wake a thread for no reason.
SpuriousWakeup(w) ==
    /\ wpc[w] = "asleep"
    /\ wpc' = [wpc EXCEPT ![w] = "loop"]
    /\ UNCHANGED <<poolVars, hand, clientVars, stopVars, pushed, late, finished>>

\* A slip: a stopped worker leaves without a look at the queue.
ExitAtOnce(w) ==
    /\ wpc[w] = "loop"
    /\ ~is_running
    /\ wpc' = [wpc EXCEPT ![w] = "exited"]
    /\ UNCHANGED <<poolVars, hand, clientVars, stopVars, pushed, late, finished>>

\* The pool is stopped and the queue is drained.
Exit(w) ==
    /\ wpc[w] = "loop"
    /\ tasks = <<>> /\ ~is_running
    /\ wpc' = [wpc EXCEPT ![w] = "exited"]
    /\ UNCHANGED <<poolVars, hand, clientVars, stopVars, pushed, late, finished>>

\* A slip: the task is not counted.
TakeUncounted(w) ==
    /\ wpc[w] = "loop"
    /\ tasks # <<>>
    /\ hand' = [hand EXCEPT ![w] = Head(tasks)]
    /\ tasks' = Tail(tasks)
    /\ wpc' = [wpc EXCEPT ![w] = "running"]
    /\ UNCHANGED <<is_running, active, clientVars, stopVars, pushed, late, finished>>

\* The oldest task leaves the queue.
Take(w) ==
    /\ wpc[w] = "loop"
    /\ tasks # <<>>
    /\ hand' = [hand EXCEPT ![w] = Head(tasks)]
    /\ tasks' = Tail(tasks)
    /\ active' = active + 1
    /\ wpc' = [wpc EXCEPT ![w] = "running"]
    /\ UNCHANGED <<is_running, clientVars, stopVars, pushed, late, finished>>

\* task() returns; an exception is caught and logged.
Return(w) ==
    /\ wpc[w] = "running"
    /\ finished' = finished \cup {hand[w]}
    /\ hand' = [hand EXCEPT ![w] = None]
    /\ wpc' = [wpc EXCEPT ![w] = "returned"]
    /\ UNCHANGED <<poolVars, clientVars, stopVars, pushed, late>>

\* active_tasks_-- under mutex_.
Decrement(w) ==
    /\ wpc[w] = "returned"
    /\ active' = active - 1
    /\ wpc' = [wpc EXCEPT ![w] = "notify"]
    /\ UNCHANGED <<is_running, tasks, hand, clientVars, stopVars, pushed, late, finished>>

\* A slip: completion is not signalled.
NotifyDoneNever(w) ==
    /\ wpc[w] = "notify"
    /\ wpc' = [wpc EXCEPT ![w] = "loop"]
    /\ UNCHANGED <<poolVars, hand, clientVars, stopVars, pushed, late, finished>>

\* cv_done_.notify_one(): one sleeping waiter wakes, if there is one.
NotifyDone(w) ==
    /\ wpc[w] = "notify"
    /\ wpc' = [wpc EXCEPT ![w] = "loop"]
    /\ \/ \E c \in Client : cpc[c] = "asleep" /\ cpc' = [cpc EXCEPT ![c] = "wait"]
       \/ (\A c \in Client : cpc[c] # "asleep") /\ cpc' = cpc
    /\ UNCHANGED <<poolVars, hand, arg, due, rejected, stopVars, pushed, late, finished>>

-----------------------------------------------------------------------------
(* enqueue() and wait().                                                     *)

\* The test of is_running_, without mutex_.
Enqueue(c, t) ==
    /\ cpc[c] = "idle"
    /\ t \notin rejected \cup pushed /\ \A d \in Client : arg[d] # t
    /\ \/ /\ is_running
          /\ cpc' = [cpc EXCEPT ![c] = "push"]
          /\ arg' = [arg EXCEPT ![c] = t]
          /\ rejected' = rejected
       \/ /\ ~is_running
          /\ rejected' = rejected \cup {t}
          /\ UNCHANGED <<cpc, arg>>
    /\ UNCHANGED <<poolVars, workerVars, due, stopVars, pushed, late, finished>>

\* A slip: the notification is forgotten.
PushWithoutNotify(c) ==
    /\ cpc[c] = "push"
    /\ tasks' = Append(tasks, arg[c])
    /\ pushed' = pushed \cup {arg[c]}
    /\ late' = IF is_running THEN late ELSE late \cup {arg[c]}
    /\ arg' = [arg EXCEPT ![c] = None]
    /\ cpc' = [cpc EXCEPT ![c] = "idle"]
    /\ UNCHANGED <<is_running, active, workerVars, due, rejected, stopVars, finished>>

\* tasks_.push under mutex_.
Push(c) ==
    /\ cpc[c] = "push"
    /\ tasks' = Append(tasks, arg[c])
    /\ pushed' = pushed \cup {arg[c]}
    /\ late' = IF is_running THEN late ELSE late \cup {arg[c]}
    /\ arg' = [arg EXCEPT ![c] = None]
    /\ cpc' = [cpc EXCEPT ![c] = "notify"]
    /\ UNCHANGED <<is_running, active, workerVars, due, rejected, stopVars, finished>>

\* cv_.notify_one(): one sleeping worker wakes, if there is one.
NotifyOne(c) ==
    /\ cpc[c] = "notify"
    /\ cpc' = [cpc EXCEPT ![c] = "idle"]
    /\ \/ \E w \in Worker : wpc[w] = "asleep" /\ wpc' = [wpc EXCEPT ![w] = "loop"]
       \/ (\A w \in Worker : wpc[w] # "asleep") /\ wpc' = wpc
    /\ UNCHANGED <<poolVars, hand, arg, due, rejected, stopVars, pushed, late, finished>>

\* The call of wait().
Wait(c) ==
    /\ c \in Waiter
    /\ cpc[c] = "idle"
    /\ cpc' = [cpc EXCEPT ![c] = "wait"]
    /\ due' = [due EXCEPT ![c] = pushed]
    /\ UNCHANGED <<poolVars, workerVars, arg, rejected, stopVars, pushed, late, finished>>

\* A slip: the predicate looks at the queue only.
QueueEmpty == tasks = <<>>

\* The predicate of cv_done_.wait.
AllDone == tasks = <<>> /\ active = 0

\* The predicate is tested under mutex_: return, or sleep on cv_done_.
WaitTest(c) ==
    /\ cpc[c] = "wait"
    /\ \/ /\ AllDone
          /\ cpc' = [cpc EXCEPT ![c] = "idle"]
          /\ due' = [due EXCEPT ![c] = {}]
       \/ /\ ~AllDone
          /\ cpc' = [cpc EXCEPT ![c] = "asleep"]
          /\ due' = due
    /\ UNCHANGED <<poolVars, workerVars, arg, rejected, stopVars, pushed, late, finished>>

\* cv_done_ may wake a thread for no reason, too.
SpuriousDone(c) ==
    /\ cpc[c] = "asleep"
    /\ cpc' = [cpc EXCEPT ![c] = "wait"]
    /\ UNCHANGED <<poolVars, workerVars, arg, due, rejected, stopVars, pushed, late, finished>>

-----------------------------------------------------------------------------
(* start() and stop().                                                       *)

\* start() returns at once on a running pool.
Start ==
    /\ spc = "idle" /\ starts < MaxStarts
    /\ ~is_running
    /\ is_running' = TRUE
    /\ starts' = starts + 1
    /\ wpc' = [w \in Worker |-> "loop"]
    /\ UNCHANGED <<tasks, active, hand, clientVars, spc, pushed, late, finished>>

\* stop(): the unlocked test, which returns at once on a stopped pool.
Stop ==
    /\ spc = "idle"
    /\ is_running
    /\ spc' = "clear"
    /\ UNCHANGED <<poolVars, workerVars, clientVars, starts, pushed, late, finished>>

\* is_running_ = false under mutex_.
StopClear ==
    /\ spc = "clear"
    /\ is_running' = FALSE
    /\ spc' = "notify"
    /\ UNCHANGED <<tasks, active, workerVars, clientVars, starts, pushed, late, finished>>

\* A slip: notify_one() instead of notify_all().
StopNotifyOne ==
    /\ spc = "notify"
    /\ \/ \E w \in Worker : wpc[w] = "asleep" /\ wpc' = [wpc EXCEPT ![w] = "loop"]
       \/ (\A w \in Worker : wpc[w] # "asleep") /\ wpc' = wpc
    /\ spc' = "join"
    /\ UNCHANGED <<poolVars, hand, clientVars, starts, pushed, late, finished>>

\* cv_.notify_all().
StopNotify ==
    /\ spc = "notify"
    /\ wpc' = [w \in Worker |-> IF wpc[w] = "asleep" THEN "loop" ELSE wpc[w]]
    /\ spc' = "join"
    /\ UNCHANGED <<poolVars, hand, clientVars, starts, pushed, late, finished>>

\* Every worker is joined, and workers_ is cleared.
StopJoin ==
    /\ spc = "join"
    /\ \A w \in Worker : wpc[w] = "exited"
    /\ wpc' = [w \in Worker |-> "none"]
    /\ spc' = "idle"
    /\ UNCHANGED <<poolVars, hand, clientVars, starts, pushed, late, finished>>

-----------------------------------------------------------------------------
Init ==
    /\ is_running = FALSE /\ tasks = <<>> /\ active = 0
    /\ wpc = [w \in Worker |-> "none"]
    /\ hand = [w \in Worker |-> None]
    /\ cpc = [c \in Client |-> "idle"]
    /\ arg = [c \in Client |-> None]
    /\ due = [c \in Client |-> {}]
    /\ spc = "idle" /\ starts = 0
    /\ rejected = {} /\ pushed = {} /\ late = {} /\ finished = {}

WorkerStep(w) ==
    Sleep(w) \/ Exit(w) \/ Take(w) \/ Return(w) \/ Decrement(w) \/ NotifyDone(w)

ClientStep(c) == Push(c) \/ NotifyOne(c) \/ WaitTest(c)

StopStep == StopClear \/ StopNotify \/ StopJoin

Next ==
    \/ \E w \in Worker : WorkerStep(w) \/ SpuriousWakeup(w)
    \/ \E c \in Client : ClientStep(c) \/ Wait(c) \/ SpuriousDone(c) \/ \E t \in Task : Enqueue(c, t)
    \/ Start \/ Stop \/ StopStep

Spec == Init /\ [][Next]_vars

\* Threads that can run do run.  Nobody is obliged to call the pool, no task of
\* Endless is obliged to return, and no condition variable is obliged to wake a
\* thread spuriously.
FairSpec ==
    /\ Spec
    /\ \A w \in Worker : WF_vars(hand[w] \notin Endless /\ WorkerStep(w))
    /\ \A c \in Client : WF_vars(ClientStep(c))
    /\ WF_vars(StopStep)

-----------------------------------------------------------------------------
(* Safety.                                                                   *)

\* Every variable has its type.
TypeOK ==
    /\ is_running \in BOOLEAN /\ tasks \in Seq(Task) /\ active \in Nat
    /\ wpc \in [Worker -> WorkerPC] /\ hand \in [Worker -> Task \cup {None}]
    /\ cpc \in [Client -> ClientPC] /\ arg \in [Client -> Task \cup {None}]
    /\ due \in [Client -> SUBSET Task]
    /\ spc \in StopPC /\ starts \in 0 .. MaxStarts
    /\ rejected \subseteq Task /\ pushed \subseteq Task /\ late \subseteq Task /\ finished \subseteq Task

Queued == {tasks[i] : i \in 1 .. Len(tasks)}
Held   == {hand[w] : w \in {v \in Worker : wpc[v] = "running"}}

\* No task is lost or run twice: a task that was pushed is either in the queue,
\* once, or with one worker, or finished.  (A part of the invariant of the proofs.)
Conservation ==
    /\ pushed = Queued \cup Held \cup finished
    /\ Queued \cap Held = {} /\ Queued \cap finished = {} /\ Held \cap finished = {}
    /\ \A i, j \in 1 .. Len(tasks) : tasks[i] = tasks[j] => i = j
    /\ \A v, w \in Worker :
          (wpc[v] = "running" /\ wpc[w] = "running" /\ hand[v] = hand[w]) => v = w

\* No worker thread is left to take a task.
Stopped == \A w \in Worker : wpc[w] \in {"none", "exited"}

\* stop() runs what is queued rather than clearing it: when the last worker has
\* gone, everything that was pushed before is_running_ was cleared has been taken.
\* What is still queued was pushed after that, by an enqueue() whose unlocked
\* test of is_running_ came before; it stays queued until the pool is restarted.
StopDrains == Stopped => Queued \subseteq late

\* active_tasks_ counts the tasks that left the queue and are not yet accounted
\* for, so that wait() can trust it; being unsigned, it must never go below 0.
ActiveCounts == active = Cardinality({w \in Worker : wpc[w] \in {"running", "returned"}})

\* No wakeup is lost: if a task is queued while every worker sleeps, some thread
\* still has a notification to deliver.
NoLostWakeup ==
    (tasks # <<>> /\ \A w \in Worker : wpc[w] = "asleep")
        => (\E c \in Client : cpc[c] = "notify") \/ spc = "notify"

Waiting == {c \in Client : cpc[c] \in {"wait", "asleep"}}

P == INSTANCE TaskPool WITH
        Size <- Cardinality(Worker), queue <- tasks, running <- Held, waiting <- Waiting

\* To its callers the pool is a queue: tasks begin in the order of the pushes, no
\* two workers execute the same one, no more are executed than there are workers,
\* also after a restart, and wait() returns only when all that was pushed before
\* the call is finished.
ImplementsTaskPool == P!Spec

-----------------------------------------------------------------------------
(* Liveness.                                                                 *)

EndlessQueued == Endless \cap (Queued \cup Held) # {}

\* Every worker has gone or executes a task that need not return.
NoneLeft ==
    \A w \in Worker : wpc[w] \in {"none", "exited"} \/ (wpc[w] = "running" /\ hand[w] \in Endless)

\* A task that was pushed and is obliged to return is run, also by a pool that was
\* restarted, unless from some time on every worker has gone or is taken up by a
\* task that does not return.
PushedTasksRun ==
    \A t \in Task \ Endless : (t \in pushed) ~> (t \in finished \/ []NoneLeft)

\* stop() returns, unless some task never does.
StopReturns == (spc # "idle") ~> (spc = "idle" \/ []EndlessQueued)

\* Of the threads that are in wait() when one of them tests the predicate, one
\* returns (or another thread joins them), unless the workers have gone for good
\* or some task never returns, be it pushed before the call of wait() or after
\* it.  Only one: completion is signalled with notify_one(), and a thread that
\* the last notification passes over sleeps on, though all is done.
WaitReturns ==
    \A W \in (SUBSET Waiter) \ {{}} :
        (Waiting = W /\ \E c \in W : cpc[c] = "wait")
            ~> (Waiting # W \/ [](EndlessQueued \/ Stopped))
=============================================================================
