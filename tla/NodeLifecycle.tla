--------------------------- MODULE NodeLifecycle ----------------------------
(* The life of one node: init() builds the singletons and starts the four    *)
(* PeriodicTask loops on the thread pool; stop(), called by shutdown() and   *)
(* by spin(), stops the loops, joins the pool and destroys the singletons.   *)
(* Sources: src/nodes/zerolancom_node.cpp, src/zerolancom.cpp,               *)
(* utils/periodic_task.hpp, utils/singleton.hpp, utils/thread_pool.hpp.      *)
EXTENDS Integers, Sequences

CONSTANTS
    Stopper,   \* the threads that call stop(): shutdown() and perhaps spin()
    Peers,     \* whether other nodes keep sending heartbeats
    Buffer,    \* bound: heartbeats the receiver's socket holds
    MaxInits   \* bound: how often init() is called

ASSUME LifecycleAssumption ==
    /\ "shutdown" \in Stopper /\ Stopper \subseteq {"shutdown", "spin"}
    /\ Peers \in BOOLEAN /\ Buffer \in Nat /\ MaxInits \in Nat

VARIABLES
    alive,    \* the singletons whose instance_ is set
    app,      \* the thread that calls init(): "down", "init", "start" or "up"
    next,     \* the step init() has reached
    inits,    \* calls of init() so far
    failed,   \* whether a constructor has thrown
    running,  \* running of ZeroLanComNode
    pool,     \* is_running_ of the thread pool
    flag,     \* is_running_ of each loop's PeriodicTask
    loop,     \* where each loop is
    inbox,    \* own heartbeats, looped back, that the receiver has not read
    tpc,      \* where each stopping thread is in stop()
    tk        \* the step of a list each stopping thread has reached

initVars == <<app, next, inits, failed>>
stopVars == <<tpc, tk>>
loopVars == <<flag, loop, inbox>>
vars == <<alive, initVars, running, pool, loopVars, stopVars>>

\* The order of initExternal() calls in the constructor.
InitOrder == <<"ThreadPool", "ZMQContext", "NodeInfoManager", "ServiceManager",
               "MulticastReceiver", "MulticastSender", "SubscriberManager">>

\* The order in which the loops are started, and stopped.
LoopOrder == <<"MulticastSender", "MulticastReceiver", "ServiceManager", "SubscriberManager">>

\* A slip: the thread pool is not destroyed.
DestroyOrderWithoutPool == <<"SubscriberManager", "ServiceManager", "MulticastReceiver",
                             "MulticastSender", "NodeInfoManager", "ZMQContext", "ZMQContext">>

\* The order of destroy() calls in stop().
DestroyOrder == <<"SubscriberManager", "ServiceManager", "MulticastReceiver",
                  "MulticastSender", "NodeInfoManager", "ZMQContext", "ThreadPool">>

Singleton == {InitOrder[i] : i \in 1 .. 7}

\* A loop is named after the singleton that owns its PeriodicTask.
Loop == {LoopOrder[i] : i \in 1 .. 4}

\* What the callback of a loop uses: heartbeats come from and go to the
\* registry, the receiver fetches over ZMQ and its events reach subscribers.
Uses(l) ==
    CASE l = "MulticastSender"   -> {l, "NodeInfoManager"}
      [] l = "MulticastReceiver" -> {l, "NodeInfoManager", "ZMQContext", "SubscriberManager"}
      [] l = "ServiceManager"    -> {l, "NodeInfoManager", "ZMQContext"}
      [] l = "SubscriberManager" -> {l, "ZMQContext"}

LoopPC == {"none", "queued", "test", "callback", "blocked", "sleep", "done"}
StopPC == {"idle", "stop", "clear", "wait", "pool", "clear_pool", "join", "destroy", "returned", "threw"}

-----------------------------------------------------------------------------
(* init().                                                                   *)

\* initManaged(): the node must not exist yet.
BeginInit ==
    /\ app = "down" /\ inits < MaxInits
    /\ \A th \in Stopper : tpc[th] \in {"idle", "returned"}
    /\ app' = "init" /\ next' = 1 /\ inits' = inits + 1
    /\ tpc' = [th \in Stopper |-> "idle"]
    /\ UNCHANGED <<alive, failed, running, pool, loopVars, tk>>

\* The next initExternal(): it throws if the singleton exists already.
InitSingleton ==
    LET exists == InitOrder[next] \in alive
    IN  /\ app = "init"
        /\ alive' = alive \cup {InitOrder[next]}
        /\ app' = IF exists THEN "down" ELSE IF next = 7 THEN "start" ELSE "init"
        /\ next' = IF exists \/ next = 7 THEN 1 ELSE next + 1
        /\ UNCHANGED <<inits, failed, running, pool, loopVars, stopVars>>

\* ServiceManager's constructor throws when the address cannot be bound.  What
\* was built before stays.
InitThrows ==
    /\ app = "init" /\ InitOrder[next] = "ServiceManager"
    /\ app' = "down" /\ failed' = TRUE
    /\ UNCHANGED <<alive, next, inits, running, pool, loopVars, stopVars>>

\* ThreadPool::start(), before the loops.
StartPool ==
    /\ app = "start" /\ ~pool
    /\ pool' = TRUE
    /\ UNCHANGED <<alive, initVars, running, loopVars, stopVars>>

\* start() of the next loop: its PeriodicTask is new, and runLoop is enqueued.
StartLoop ==
    /\ app = "start" /\ pool
    /\ flag' = [flag EXCEPT ![LoopOrder[next]] = TRUE]
    /\ loop' = [loop EXCEPT ![LoopOrder[next]] = "queued"]
    /\ next' = next + 1
    /\ app' = IF next = 4 THEN "up" ELSE "start"
    /\ running' = (next = 4)
    /\ UNCHANGED <<alive, inits, failed, pool, inbox, stopVars>>

-----------------------------------------------------------------------------
(* PeriodicTask::runLoop, on a worker of the pool (four workers, four loops).*)

\* A worker takes the loop from the queue.
Begin(l) ==
    /\ loop[l] = "queued"
    /\ loop' = [loop EXCEPT ![l] = "test"]
    /\ UNCHANGED <<alive, initVars, running, pool, flag, inbox, stopVars>>

\* while (is_running_): the callback, or the promise and the end.
Test(l) ==
    /\ loop[l] = "test"
    /\ loop' = [loop EXCEPT ![l] = IF flag[l] THEN "callback" ELSE "done"]
    /\ UNCHANGED <<alive, initVars, running, pool, flag, inbox, stopVars>>

\* The sender's callback: the heartbeat is looped back to the node itself.
Send ==
    /\ loop["MulticastSender"] = "callback"
    /\ loop' = [loop EXCEPT !["MulticastSender"] = "sleep"]
    /\ inbox' = IF inbox < Buffer THEN inbox + 1 ELSE inbox
    /\ UNCHANGED <<alive, initVars, running, pool, flag, stopVars>>

\* The receiver's callback returns: recvfrom() had blocked until there was a
\* heartbeat, of another node or of its own, and a fetch was answered.
Receive ==
    /\ loop["MulticastReceiver"] = "callback"
    /\ ~Peers => inbox > 0
    /\ loop' = [loop EXCEPT !["MulticastReceiver"] = "sleep"]
    /\ inbox' = IF inbox > 0 THEN inbox - 1 ELSE inbox
    /\ UNCHANGED <<alive, initVars, running, pool, flag, stopVars>>

\* The callbacks of the managers return: they poll with a timeout, and what they
\* called for a message or a request came back.
Poll(l) ==
    /\ l \in {"ServiceManager", "SubscriberManager"} /\ loop[l] = "callback"
    /\ loop' = [loop EXCEPT ![l] = "sleep"]
    /\ UNCHANGED <<alive, initVars, running, pool, flag, inbox, stopVars>>

\* A callback waits in a call that has no timeout: the receiver for the answer to
\* its fetch of a peer's NodeInfo, the SubscriberManager in recv() for a message
\* that left with an evicted publisher, the ServiceManager in a handler that calls
\* request(), perhaps on this very node.
Block(l) ==
    /\ l # "MulticastSender" /\ loop[l] = "callback"
    /\ Peers \/ l = "ServiceManager"
    /\ loop' = [loop EXCEPT ![l] = "blocked"]
    /\ UNCHANGED <<alive, initVars, running, pool, flag, inbox, stopVars>>

\* The answer or the message comes after all.  Nobody owes it.
Unblock(l) ==
    /\ loop[l] = "blocked"
    /\ loop' = [loop EXCEPT ![l] = "sleep"]
    /\ UNCHANGED <<alive, initVars, running, pool, flag, inbox, stopVars>>

\* sleep_for(interval).
Wake(l) ==
    /\ loop[l] = "sleep"
    /\ loop' = [loop EXCEPT ![l] = "test"]
    /\ UNCHANGED <<alive, initVars, running, pool, flag, inbox, stopVars>>

-----------------------------------------------------------------------------
(* stop().                                                                   *)

\* A slip: running is not cleared.
CallStopStillRunning(th) ==
    /\ tpc[th] = "idle"
    /\ th = "shutdown" => app = "up"
    /\ th = "spin" => ~running /\ tpc["shutdown"] # "idle"
    /\ tpc' = [tpc EXCEPT ![th] = "stop"]
    /\ tk' = [tk EXCEPT ![th] = 1]
    /\ UNCHANGED <<alive, initVars, running, pool, loopVars>>

\* shutdown() may be called once the node is up; spin() calls stop() when it
\* sees that running is false, however far shutdown() has come by then.
CallStop(th) ==
    /\ tpc[th] = "idle"
    /\ th = "shutdown" => app = "up"
    /\ th = "spin" => ~running /\ tpc["shutdown"] # "idle"
    /\ running' = FALSE
    /\ tpc' = [tpc EXCEPT ![th] = "stop"]
    /\ tk' = [tk EXCEPT ![th] = 1]
    /\ UNCHANGED <<alive, initVars, pool, loopVars>>

\* What follows the stop() of a loop.
AfterLoop(th) == IF tk[th] = 4 THEN "pool" ELSE "stop"

\* The stop() of the next loop: instance() throws if its owner is gone, and
\* PeriodicTask::stop() returns at once if is_running_ is false.
StopLoop(th) ==
    LET l == LoopOrder[tk[th]]
        returns == l \in alive /\ ~flag[l]
    IN  /\ tpc[th] = "stop"
        /\ tpc' = [tpc EXCEPT ![th] = IF l \notin alive THEN "threw"
                                      ELSE IF flag[l] THEN "clear" ELSE AfterLoop(th)]
        /\ tk' = [tk EXCEPT ![th] = IF returns THEN @ + 1 ELSE @]
        /\ UNCHANGED <<alive, initVars, running, pool, loopVars>>

\* A slip: the flag is tested and not cleared.
KeepFlag(th) ==
    /\ tpc[th] = "clear"
    /\ tpc' = [tpc EXCEPT ![th] = "wait"]
    /\ UNCHANGED <<alive, initVars, running, pool, loopVars, tk>>

\* is_running_ = false.
ClearFlag(th) ==
    /\ tpc[th] = "clear"
    /\ flag' = [flag EXCEPT ![LoopOrder[tk[th]]] = FALSE]
    /\ tpc' = [tpc EXCEPT ![th] = "wait"]
    /\ UNCHANGED <<alive, initVars, running, pool, loop, inbox, tk>>

\* task_done_.wait_for(5 s): the loop has ended, or the time is up.
WaitDone(th) ==
    /\ tpc[th] = "wait"
    /\ loop[LoopOrder[tk[th]]] = "done"
    /\ tpc' = [tpc EXCEPT ![th] = AfterLoop(th)]
    /\ tk' = [tk EXCEPT ![th] = @ + 1]
    /\ UNCHANGED <<alive, initVars, running, pool, loopVars>>

WaitTimeout(th) ==
    /\ tpc[th] = "wait"
    /\ loop[LoopOrder[tk[th]]] # "done"
    /\ tpc' = [tpc EXCEPT ![th] = AfterLoop(th)]
    /\ tk' = [tk EXCEPT ![th] = @ + 1]
    /\ UNCHANGED <<alive, initVars, running, pool, loopVars>>

\* ThreadPool::stop(): returns at once if the pool is stopped already, to the
\* destroy() calls.
StopPool(th) ==
    /\ tpc[th] = "pool"
    /\ tpc' = [tpc EXCEPT ![th] = IF "ThreadPool" \notin alive THEN "threw"
                                  ELSE IF pool THEN "clear_pool" ELSE "destroy"]
    /\ tk' = [tk EXCEPT ![th] = 1]
    /\ UNCHANGED <<alive, initVars, running, pool, loopVars>>

ClearPool(th) ==
    /\ tpc[th] = "clear_pool"
    /\ pool' = FALSE
    /\ tpc' = [tpc EXCEPT ![th] = "join"]
    /\ UNCHANGED <<alive, initVars, running, loopVars, tk>>

\* A slip: the workers are not joined.
JoinNobody(th) ==
    /\ tpc[th] = "join"
    /\ tpc' = [tpc EXCEPT ![th] = "destroy"]
    /\ UNCHANGED <<alive, initVars, running, pool, loopVars, tk>>

\* Every worker is joined: the loops have all ended.
Join(th) ==
    /\ tpc[th] = "join"
    /\ \A l \in Loop : loop[l] = "done"
    /\ tpc' = [tpc EXCEPT ![th] = "destroy"]
    /\ UNCHANGED <<alive, initVars, running, pool, loopVars, tk>>

\* The next destroy(), which does nothing if the singleton is gone.  The
\* receiver's socket, and what it held, goes with it.
Destroy(th) ==
    /\ tpc[th] = "destroy" /\ tk[th] <= 7
    /\ alive' = alive \ {DestroyOrder[tk[th]]}
    /\ inbox' = IF DestroyOrder[tk[th]] = "MulticastReceiver" THEN 0 ELSE inbox
    /\ tk' = [tk EXCEPT ![th] = @ + 1]
    /\ UNCHANGED <<initVars, running, pool, flag, loop, tpc>>

\* stop() returns; after shutdown() the node itself is gone and init() may be
\* called again.
StopReturn(th) ==
    /\ tpc[th] = "destroy" /\ tk[th] = 8
    /\ tpc' = [tpc EXCEPT ![th] = "returned"]
    /\ app' = IF th = "shutdown" THEN "down" ELSE app
    /\ UNCHANGED <<alive, next, inits, failed, running, pool, loopVars, tk>>

-----------------------------------------------------------------------------
Init ==
    /\ alive = {} /\ app = "down" /\ next = 1 /\ inits = 0 /\ failed = FALSE
    /\ running = FALSE /\ pool = FALSE
    /\ flag = [l \in Loop |-> FALSE]
    /\ loop = [l \in Loop |-> "none"]
    /\ inbox = 0
    /\ tpc = [th \in Stopper |-> "idle"]
    /\ tk = [th \in Stopper |-> 1]

InitStep == InitSingleton \/ StartPool \/ StartLoop

LoopStep(l) ==
    \/ Begin(l) \/ Test(l) \/ Poll(l) \/ Wake(l)
    \/ l = "MulticastSender" /\ Send
    \/ l = "MulticastReceiver" /\ Receive

StopStep(th) ==
    StopLoop(th) \/ ClearFlag(th) \/ WaitDone(th) \/ WaitTimeout(th) \/ StopPool(th)
        \/ ClearPool(th) \/ Join(th) \/ Destroy(th) \/ StopReturn(th)

Next ==
    \/ BeginInit \/ InitStep \/ InitThrows
    \/ \E l \in Loop : LoopStep(l) \/ Block(l) \/ Unblock(l)
    \/ \E th \in Stopper : CallStop(th) \/ StopStep(th)

Spec == Init /\ [][Next]_vars

\* Threads that can run do run.  A callback returns unless it has come to wait
\* in a call without a timeout, which nothing obliges to end.
FairSpec ==
    /\ Spec
    /\ WF_vars(InitStep)
    /\ \A l \in Loop : WF_vars(LoopStep(l))
    /\ \A th \in Stopper : WF_vars(StopStep(th))

-----------------------------------------------------------------------------
(* Properties.                                                               *)

\* Every variable has its type.  (A part of the invariant of the proofs.)
TypeOK ==
    /\ alive \subseteq Singleton
    /\ app \in {"down", "init", "start", "up"} /\ next \in 1 .. 7
    /\ inits \in 0 .. MaxInits /\ failed \in BOOLEAN
    /\ running \in BOOLEAN /\ pool \in BOOLEAN
    /\ flag \in [Loop -> BOOLEAN] /\ loop \in [Loop -> LoopPC] /\ inbox \in 0 .. Buffer
    /\ tpc \in [Stopper -> StopPC] /\ tk \in [Stopper -> 1 .. 8]

\* No loop runs on a destroyed object: while a loop has not ended, what its
\* callback uses, its PeriodicTask's owner and the pool exist.
NoUseAfterDestroy ==
    \A l \in Loop :
        loop[l] \in {"queued", "test", "callback", "blocked", "sleep"} => Uses(l) \cup {"ThreadPool"} \subseteq alive

\* A thread that sees isRunning(), as the loop of spin() does, finds a complete
\* node, however far a shutdown() of another thread or an init() has come: every
\* singleton exists, the pool runs and no loop has been stopped or has ended.
RunningIsComplete ==
    running =>
        /\ alive = Singleton /\ pool
        /\ \A l \in Loop : flag[l] /\ loop[l] \notin {"none", "done"}

\* After shutdown() nothing is left that would make the next init() throw,
\* unless a constructor had thrown before.
CleanRestart ==
    (app = "down" /\ ~failed) =>
        alive = {} /\ ~pool /\ \A l \in Loop : ~flag[l] /\ loop[l] \in {"none", "done"}

\* shutdown() returns, unless the callback of a loop waits for ever in a call
\* without a timeout: stop() gives up waiting for the loop after 5 s, but the
\* join of the pool does not.
ShutdownReturns ==
    \A th \in Stopper :
        (tpc[th] \notin {"idle", "returned", "threw"})
            ~> (tpc[th] \in {"returned", "threw"} \/ [](\E l \in Loop : loop[l] = "blocked"))
=============================================================================
