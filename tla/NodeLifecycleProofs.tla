------------------------ MODULE NodeLifecycleProofs -------------------------
(* Proofs about NodeLifecycle, where only shutdown() calls stop(): the four  *)
(* loops never outlive the singletons they use, a node that says it runs is  *)
(* complete, and shutdown() leaves nothing behind.  With spin() as a second  *)
(* caller the first of these fails: see the run lifecycle_spin.              *)
EXTENDS NodeLifecycle, TLAPS

-----------------------------------------------------------------------------
(* The three lists.                                                          *)

\* InitOrder names seven different singletons, the pool first and the service
\* manager fourth.
LEMMA InitOrderFacts ==
    /\ \A i, j \in 1 .. 7 : InitOrder[i] = InitOrder[j] => i = j
    /\ \A i \in 1 .. 7 : InitOrder[i] = "ServiceManager" => i = 4
    /\ InitOrder[1] = "ThreadPool"
  BY DEF InitOrder

\* DestroyOrder names the singletons of InitOrder, each once.
LEMMA DestroyOrderFacts ==
    /\ \A i, j \in 1 .. 7 : DestroyOrder[i] = DestroyOrder[j] => i = j
    /\ Singleton = {DestroyOrder[i] : i \in 1 .. 7}
  BY DEF DestroyOrder, Singleton, InitOrder

\* LoopOrder names four different singletons.
LEMMA LoopOrderFacts ==
    /\ \A i, j \in 1 .. 4 : LoopOrder[i] = LoopOrder[j] => i = j
    /\ \A i \in 1 .. 4 : LoopOrder[i] \in Loop
    /\ \A l \in Loop : \E i \in 1 .. 4 : l = LoopOrder[i]
    /\ Loop \subseteq Singleton
    /\ "MulticastSender" \in Loop /\ "MulticastReceiver" \in Loop
  BY DEF LoopOrder, Loop, Singleton, InitOrder

\* What a loop uses, and the pool, are singletons.
LEMMA UsesFacts ==
    ASSUME NEW l \in Loop
    PROVE  Uses(l) \cup {"ThreadPool"} \subseteq Singleton
  BY DEF Uses, LoopOrder, Loop, Singleton, InitOrder

-----------------------------------------------------------------------------
(* Types, for every set of threads that call stop().                         *)

\* The places of stop() that stand before one of the loops.
AtLoop == {"stop", "clear", "wait"}

\* The lists are read within their bounds.
InBounds ==
    /\ app = "start" => next \in 1 .. 4
    /\ \A th \in Stopper : tpc[th] \in AtLoop => tk[th] \in 1 .. 4

TypeInv == TypeOK /\ InBounds

\* TypeOK in two halves: the flags, and the rest.
Flags ==
    failed \in BOOLEAN /\ running \in BOOLEAN /\ pool \in BOOLEAN /\ flag \in [Loop -> BOOLEAN]

Places ==
    /\ alive \subseteq Singleton
    /\ app \in {"down", "init", "start", "up"} /\ next \in 1 .. 7
    /\ inits \in 0 .. MaxInits
    /\ loop \in [Loop -> LoopPC] /\ inbox \in 0 .. Buffer
    /\ tpc \in [Stopper -> StopPC] /\ tk \in [Stopper -> 1 .. 8]

\* The assumptions the proofs use.
LEMMA Bounds == Buffer \in Nat /\ MaxInits \in Nat /\ "shutdown" \in Stopper
  BY LifecycleAssumption

\* The two halves make the whole.
LEMMA Halves == TypeOK <=> Flags /\ Places
  BY DEF TypeOK, Flags, Places

\* A loop changes its own place and the receiver's socket, nothing else.
LEMMA LoopFrame ==
    ASSUME NEW l \in Loop, LoopStep(l) \/ Block(l) \/ Unblock(l)
    PROVE  UNCHANGED <<alive, app, next, inits, failed, running, pool, flag, tpc, tk>>
  BY DEF LoopStep, Begin, Test, Poll, Wake, Send, Receive, Block, Unblock, initVars, stopVars

\* stop() does not touch what init() counts, and moves no loop.
LEMMA StopFrame ==
    ASSUME NEW th \in Stopper, CallStop(th) \/ StopStep(th)
    PROVE  app' \in {app, "down"} /\ UNCHANGED <<next, inits, failed, loop>>
  BY DEF CallStop, StopStep, StopLoop, ClearFlag, WaitDone, WaitTimeout, StopPool, ClearPool,
         Join, Destroy, StopReturn, initVars, loopVars

\* Every step keeps the flags Boolean.
LEMMA FlagStep == ASSUME Flags, [Next]_vars PROVE Flags'
<1> USE DEF Flags
<1>1. CASE UNCHANGED vars
  BY <1>1 DEF vars, initVars, loopVars
<1>2. CASE BeginInit \/ InitSingleton \/ StartPool \/ InitThrows
  BY <1>2 DEF BeginInit, InitSingleton, StartPool, InitThrows, loopVars, initVars
<1>3. CASE StartLoop
  BY <1>3 DEF StartLoop
<1>4. ASSUME NEW l \in Loop, LoopStep(l) \/ Block(l) \/ Unblock(l) PROVE Flags'
  BY <1>4, LoopFrame
<1>5. ASSUME NEW th \in Stopper, CallStop(th) \/ StopStep(th) PROVE Flags'
  <2>1. failed' = failed
    BY <1>5, StopFrame
  <2>2. (running' = running \/ running' = FALSE) /\ (pool' = pool \/ pool' = FALSE)
    BY <1>5 DEF CallStop, StopStep, StopLoop, ClearFlag, WaitDone, WaitTimeout, StopPool, ClearPool,
                Join, Destroy, StopReturn
  <2>3. flag' = flag \/ flag' = [flag EXCEPT ![LoopOrder[tk[th]]] = FALSE]
    BY <1>5 DEF CallStop, StopStep, StopLoop, ClearFlag, WaitDone, WaitTimeout, StopPool, ClearPool,
                Join, Destroy, StopReturn, loopVars
  <2> QED
    BY <2>1, <2>2, <2>3
<1> QED
  BY <1>1, <1>2, <1>3, <1>4, <1>5 DEF Next, InitStep

\* Every step keeps the rest, and the lists are read within their bounds.
LEMMA PlaceStep == ASSUME Places, InBounds, [Next]_vars PROVE Places' /\ InBounds'
<1> USE Bounds DEF Places, InBounds, AtLoop, LoopPC, StopPC
<1>1. CASE UNCHANGED vars
  BY <1>1 DEF vars, initVars, loopVars, stopVars
<1>2. CASE BeginInit
  BY <1>2 DEF BeginInit, loopVars
<1>3. CASE InitSingleton
  <2>1. InitOrder[next] \in Singleton
    BY DEF Singleton
  <2> QED
    BY <1>3, <2>1 DEF InitSingleton, loopVars, stopVars
<1>4. CASE StartPool \/ InitThrows
  BY <1>4 DEF StartPool, InitThrows, initVars, loopVars, stopVars
<1>5. CASE StartLoop
  <2>1. app = "start" /\ next' = next + 1 /\ app' = IF next = 4 THEN "up" ELSE "start"
    BY <1>5 DEF StartLoop
  <2>2. loop' \in [Loop -> LoopPC]
    BY <1>5 DEF StartLoop
  <2>3. UNCHANGED <<alive, inits, inbox, tpc, tk>>
    BY <1>5 DEF StartLoop, stopVars
  <2> QED
    BY <2>1, <2>2, <2>3
<1>6. ASSUME NEW l \in Loop, LoopStep(l) \/ Block(l) \/ Unblock(l) PROVE Places' /\ InBounds'
  <2>1. \E k \in Loop, pc \in LoopPC : loop' = [loop EXCEPT ![k] = pc]
    BY <1>6, LoopOrderFacts DEF LoopStep, Begin, Test, Poll, Wake, Send, Receive, Block, Unblock
  <2>2. inbox' \in {inbox, inbox + 1, inbox - 1} /\ inbox' \in 0 .. Buffer
    BY <1>6 DEF LoopStep, Begin, Test, Poll, Wake, Send, Receive, Block, Unblock
  <2> QED
    BY <1>6, <2>1, <2>2, LoopFrame
<1>7. ASSUME NEW th \in Stopper, CallStop(th) \/ StopStep(th) PROVE Places' /\ InBounds'
  <2>1. alive' \subseteq Singleton /\ inbox' \in 0 .. Buffer
    BY <1>7 DEF CallStop, StopStep, StopLoop, ClearFlag, WaitDone, WaitTimeout, StopPool, ClearPool,
                Join, Destroy, StopReturn, loopVars
  <2>2. tpc' \in [Stopper -> StopPC]
    BY <1>7 DEF CallStop, StopStep, StopLoop, ClearFlag, WaitDone, WaitTimeout, StopPool, ClearPool,
                Join, Destroy, StopReturn, AfterLoop
  <2>3. tk' \in [Stopper -> 1 .. 8]
    BY <1>7 DEF CallStop, StopStep, StopLoop, ClearFlag, WaitDone, WaitTimeout, StopPool, ClearPool,
                Join, Destroy, StopReturn
  <2>4. ASSUME NEW u \in Stopper PROVE tpc'[u] \in AtLoop => tk'[u] \in 1 .. 4
    BY <1>7 DEF CallStop, StopStep, StopLoop, ClearFlag, WaitDone, WaitTimeout, StopPool, ClearPool,
                Join, Destroy, StopReturn, AfterLoop
  <2> QED
    BY <1>7, <2>1, <2>2, <2>3, <2>4, StopFrame
<1> QED
  BY <1>1, <1>2, <1>3, <1>4, <1>5, <1>6, <1>7 DEF Next, InitStep

\* Every step keeps the types.
LEMMA TypeStep == ASSUME TypeInv, [Next]_vars PROVE TypeInv'
<1>1. Flags' /\ Places' /\ InBounds'
  BY Halves, FlagStep, PlaceStep DEF TypeInv
<1> QED
  BY <1>1 DEF TypeInv, TypeOK, Flags, Places

\* The state before the first init() has the types.
LEMMA TypeInit == ASSUME Init PROVE TypeInv
<1>1. Flags
  BY DEF Init, Flags
<1>2. Places /\ InBounds
  BY Bounds DEF Init, Places, InBounds, AtLoop, LoopPC, StopPC
<1> QED
  BY <1>1, <1>2, Halves DEF TypeInv

\* The types hold in every reachable state.
LEMMA TypeInvariance == Spec => []TypeInv
<1> QED
  BY TypeInit, TypeStep, PTL DEF Spec

-----------------------------------------------------------------------------
(* The inductive invariant of a node that only shutdown() stops.             *)

\* The loops in the queue or on a worker.
Active(l) == loop[l] \in {"queued", "test", "callback", "blocked", "sleep"}

\* Where init() and stop() can be together: the node is up while it is being
\* stopped, and stop() never throws.
Phases ==
    IF app = "up" THEN tpc["shutdown"] \notin {"returned", "threw"}
    ELSE /\ tpc["shutdown"] \in {"idle", "returned"}
         /\ app # "down" => tpc["shutdown"] = "idle"

\* A constructor that threw left the thread pool's singleton behind: every
\* later init() throws at its first step.
Failed == failed => /\ "ThreadPool" \in alive
                    /\ app \in {"down", "init"}
                    /\ app = "init" => next = 1

\* Which singletons exist: those init() has come to, then all of them, then
\* those stop() has not destroyed yet.
Existing ==
    /\ app = "down" /\ ~failed => alive = {}
    /\ app = "init" /\ ~failed => alive = {InitOrder[i] : i \in 1 .. (next - 1)}
    /\ app = "start" => alive = Singleton
    /\ app = "up" => alive = IF tpc["shutdown"] = "destroy" THEN {DestroyOrder[i] : i \in (tk["shutdown"]) .. 7}
                             ELSE Singleton

\* When the pool runs.
PoolRuns ==
    /\ app \in {"down", "init"} => ~pool
    /\ app = "up" => (pool <=> tpc["shutdown"] \in {"idle", "pool", "clear_pool"} \cup AtLoop)

\* A loop is active, or its flag is set, only between its start() and the end
\* of the pool; its flag is cleared once stop() has passed it.
Loops ==
    /\ app \in {"down", "init"} \/ (app = "start" /\ ~pool) \/ (app = "up" /\ tpc["shutdown"] = "destroy") =>
          \A l \in Loop : ~flag[l] /\ ~Active(l)
    /\ app = "start" /\ ~pool => next = 1
    /\ app = "start" => \A i \in (next) .. 4 : ~flag[LoopOrder[i]] /\ ~Active(LoopOrder[i])
    /\ app = "up" /\ tpc["shutdown"] \in AtLoop => \A i \in 1 .. (tk["shutdown"] - 1) : ~flag[LoopOrder[i]]
    /\ app = "up" /\ tpc["shutdown"] = "wait" => ~flag[LoopOrder[tk["shutdown"]]]
    /\ app = "up" /\ tpc["shutdown"] \in {"pool", "clear_pool", "join"} => \A l \in Loop : ~flag[l]

\* The join comes before the first destroy().
Joined == tpc["shutdown"] \in {"clear_pool", "join"} => tk["shutdown"] = 1

\* running is set when the last loop has been started and cleared before the
\* first is stopped; a loop whose flag is set and that init() has started is
\* active, for it ends only when it finds its flag cleared.
Runs ==
    /\ running => app = "up" /\ tpc["shutdown"] = "idle"
    /\ app = "start" => \A i \in 1 .. (next - 1) : flag[LoopOrder[i]] /\ Active(LoopOrder[i])
    /\ app = "up" /\ tpc["shutdown"] = "idle" => \A l \in Loop : flag[l] /\ Active(l)

Order == Phases /\ Failed /\ Existing /\ PoolRuns /\ Loops /\ Joined


IInv == TypeInv /\ Order /\ Runs

\* The steps of init() keep the order.
LEMMA InitSteps ==
    ASSUME Stopper = {"shutdown"}, IInv, BeginInit \/ InitStep \/ InitThrows
    PROVE  Order'
<1> USE DEF IInv, TypeInv, Order, Phases, Failed, Existing, PoolRuns, Loops, Joined, Active, AtLoop
<1>1. CASE BeginInit
  <2>1. tpc'["shutdown"] = "idle"
    BY <1>1 DEF BeginInit
  <2> QED
    BY <1>1, <2>1 DEF BeginInit, loopVars, TypeOK
<1>2. CASE InitSingleton
  <2>1. CASE failed
    BY <1>2, <2>1, InitOrderFacts DEF InitSingleton, loopVars, stopVars, TypeOK
  <2>2. CASE ~failed
    <3>1. alive = {InitOrder[i] : i \in 1 .. (next - 1)} /\ next \in 1 .. 7
      BY <1>2, <2>2 DEF InitSingleton, TypeOK
    <3>2. InitOrder[next] \notin alive
      BY <3>1, InitOrderFacts
    <3>3. alive' = {InitOrder[i] : i \in 1 .. next}
      BY <1>2, <3>1 DEF InitSingleton
    <3>4. next = 7 => alive' = Singleton
      BY <3>3 DEF Singleton
    <3> QED
      BY <1>2, <2>2, <3>1, <3>2, <3>3, <3>4, LoopOrderFacts DEF InitSingleton, loopVars, stopVars, TypeOK
  <2> QED
    BY <2>1, <2>2
<1>3. CASE StartPool
  BY <1>3 DEF StartPool, initVars, loopVars, stopVars, TypeOK
<1>4. CASE StartLoop
  <2>1. app = "start" /\ next \in 1 .. 4 /\ pool /\ pool' = pool /\ ~failed /\ alive = Singleton
    BY <1>4 DEF StartLoop, InBounds
  <2>2. next' = next + 1 /\ app' = (IF next = 4 THEN "up" ELSE "start") /\ UNCHANGED <<alive, failed, tpc, tk>>
    BY <1>4 DEF StartLoop, stopVars
  <2>3. \A i \in (next') .. 4 : flag'[LoopOrder[i]] = flag[LoopOrder[i]] /\ loop'[LoopOrder[i]] = loop[LoopOrder[i]]
    <3>1. ASSUME NEW i \in (next') .. 4 PROVE LoopOrder[i] \in Loop /\ LoopOrder[i] # LoopOrder[next]
      BY <2>1, <2>2, LoopOrderFacts
    <3>2. /\ flag' = [flag EXCEPT ![LoopOrder[next]] = TRUE] /\ flag \in [Loop -> BOOLEAN]
          /\ loop' = [loop EXCEPT ![LoopOrder[next]] = "queued"] /\ loop \in [Loop -> LoopPC]
      BY <1>4 DEF StartLoop, TypeOK
    <3> QED
      BY <3>1, <3>2
  <2>4. tpc["shutdown"] = "idle"
    BY <2>1
  <2> QED
    BY <2>1, <2>2, <2>3, <2>4
<1>5. CASE InitThrows
  <2>1. next = 4 /\ ~failed
    BY <1>5, InitOrderFacts DEF InitThrows, TypeOK
  <2>2. "ThreadPool" \in alive
    BY <1>5, <2>1, InitOrderFacts DEF InitThrows
  <2> QED
    BY <1>5, <2>1, <2>2 DEF InitThrows, loopVars, stopVars
<1> QED
  BY <1>1, <1>2, <1>3, <1>4, <1>5 DEF InitStep

\* The steps of a loop keep the order: none becomes active.
LEMMA LoopSteps ==
    ASSUME IInv, NEW l \in Loop, LoopStep(l) \/ Block(l) \/ Unblock(l)
    PROVE  Order'
<1> USE DEF IInv, TypeInv, Order, Phases, Failed, Existing, PoolRuns, Loops, Joined, Active, AtLoop
<1>1. UNCHANGED <<alive, app, next, inits, failed, running, pool, flag, tpc, tk>>
  BY LoopFrame
<1>2. ASSUME NEW k \in Loop, Active(k)' PROVE Active(k)
  BY <1>2 DEF LoopStep, Begin, Test, Poll, Wake, Send, Receive, Block, Unblock, TypeOK
<1>3. Loops'
  BY <1>1, <1>2, LoopOrderFacts DEF TypeOK
<1> QED
  BY <1>1, <1>3

\* The steps of stop() keep the order.
LEMMA StopSteps ==
    ASSUME Stopper = {"shutdown"}, IInv, CallStop("shutdown") \/ StopStep("shutdown")
    PROVE  Order'
<1> USE DEF IInv, TypeInv, Order, Phases, Failed, Existing, PoolRuns, Loops, Joined, Active, AtLoop
<1> DEFINE s == "shutdown"
<1>1. CASE CallStop(s)
  BY <1>1 DEF CallStop, initVars, loopVars, TypeOK
<1>2. CASE StopLoop(s)
  BY <1>2, LoopOrderFacts DEF StopLoop, AfterLoop, initVars, loopVars, TypeOK, InBounds
<1>3. CASE ClearFlag(s)
  BY <1>3, LoopOrderFacts DEF ClearFlag, initVars, TypeOK, InBounds
<1>4. CASE WaitDone(s) \/ WaitTimeout(s)
  BY <1>4, LoopOrderFacts DEF WaitDone, WaitTimeout, AfterLoop, initVars, loopVars, TypeOK, InBounds
<1>5. CASE StopPool(s)
  BY <1>5, InitOrderFacts DEF StopPool, initVars, loopVars, TypeOK, Singleton
<1>6. CASE ClearPool(s)
  BY <1>6 DEF ClearPool, initVars, loopVars, TypeOK
<1>7. CASE Join(s)
  BY <1>7, DestroyOrderFacts DEF Join, initVars, loopVars, TypeOK
<1>8. CASE Destroy(s)
  BY <1>8, DestroyOrderFacts DEF Destroy, initVars, TypeOK
<1>9. CASE StopReturn(s)
  BY <1>9 DEF StopReturn, loopVars, TypeOK
<1> QED
  BY <1>1, <1>2, <1>3, <1>4, <1>5, <1>6, <1>7, <1>8, <1>9 DEF StopStep

\* The steps of init() keep Runs.
LEMMA InitRuns ==
    ASSUME Stopper = {"shutdown"}, IInv, BeginInit \/ InitStep \/ InitThrows
    PROVE  Runs'
<1> USE DEF IInv, TypeInv, Order, Phases, Runs, Active
<1>1. CASE BeginInit \/ InitSingleton \/ InitThrows
  <2>1. app \in {"down", "init"} /\ app' # "up" /\ running' = running
    BY <1>1 DEF BeginInit, InitSingleton, InitThrows
  <2>2. app' = "start" => next' = 1
    BY <1>1 DEF BeginInit, InitSingleton, InitThrows, TypeOK
  <2> QED
    BY <2>1, <2>2
<1>2. CASE StartPool
  BY <1>2 DEF StartPool, initVars, loopVars, stopVars
<1>3. CASE StartLoop
  <2>1. app = "start" /\ next \in 1 .. 4 /\ tpc["shutdown"] = "idle" /\ tpc' = tpc
    BY <1>3 DEF StartLoop, InBounds, stopVars
  <2>2. next' = next + 1 /\ app' = (IF next = 4 THEN "up" ELSE "start") /\ running' = (next = 4)
    BY <1>3 DEF StartLoop
  <2>3. /\ flag' = [flag EXCEPT ![LoopOrder[next]] = TRUE] /\ flag \in [Loop -> BOOLEAN]
        /\ loop' = [loop EXCEPT ![LoopOrder[next]] = "queued"] /\ loop \in [Loop -> LoopPC]
    BY <1>3 DEF StartLoop, TypeOK
  <2>4. ASSUME NEW i \in 1 .. next PROVE flag'[LoopOrder[i]] /\ Active(LoopOrder[i])'
    <3>1. LoopOrder[i] \in Loop /\ (i = next \/ i \in 1 .. (next - 1))
      BY <2>1, LoopOrderFacts
    <3> QED
      BY <2>1, <2>3, <3>1
  <2>5. running' => app' = "up" /\ tpc'["shutdown"] = "idle"
    BY <2>1, <2>2
  <2>6. app' = "start" => \A i \in 1 .. (next' - 1) : flag'[LoopOrder[i]] /\ Active(LoopOrder[i])'
    BY <2>1, <2>2, <2>4
  <2>7. ASSUME app' = "up", NEW l \in Loop PROVE flag'[l] /\ Active(l)'
    <3>1. next = 4
      BY <2>2, <2>7
    <3>2. PICK i \in 1 .. 4 : l = LoopOrder[i]
      BY LoopOrderFacts
    <3> QED
      BY <2>4, <3>1, <3>2
  <2> QED
    BY <2>5, <2>6, <2>7
<1> QED
  BY <1>1, <1>2, <1>3 DEF InitStep

\* The steps of a loop keep Runs: it ends only if its flag is cleared.
LEMMA LoopRuns ==
    ASSUME IInv, NEW l \in Loop, LoopStep(l) \/ Block(l) \/ Unblock(l)
    PROVE  Runs'
<1> USE DEF IInv, TypeInv, Order, Runs
<1>1. UNCHANGED <<alive, app, next, inits, failed, running, pool, flag, tpc, tk>>
  BY LoopFrame
<1>2. ASSUME NEW k \in Loop, flag[k], Active(k) PROVE Active(k)'
  BY <1>2 DEF Active, LoopStep, Begin, Test, Poll, Wake, Send, Receive, Block, Unblock, TypeOK
<1>3. app = "start" => \A i \in 1 .. (next - 1) : LoopOrder[i] \in Loop
  BY LoopOrderFacts DEF InBounds
<1> QED
  BY <1>1, <1>2, <1>3

\* The steps of stop() keep Runs: they begin by clearing running.
LEMMA StopRuns ==
    ASSUME Stopper = {"shutdown"}, IInv, CallStop("shutdown") \/ StopStep("shutdown")
    PROVE  Runs'
<1> USE DEF IInv, TypeInv, Order, Phases, Runs
<1>1. CASE CallStop("shutdown")
  BY <1>1 DEF CallStop, initVars, loopVars, TypeOK
<1>2. CASE StopStep("shutdown")
  <2>1. tpc["shutdown"] # "idle" /\ tpc'["shutdown"] # "idle" /\ running' = running
    BY <1>2 DEF StopStep, StopLoop, ClearFlag, WaitDone, WaitTimeout, StopPool, ClearPool,
                Join, Destroy, StopReturn, AfterLoop, TypeOK
  <2>2. app = "up" /\ app' \in {"up", "down"}
    <3>1. tpc["shutdown"] # "returned"
      BY <1>2 DEF StopStep, StopLoop, ClearFlag, WaitDone, WaitTimeout, StopPool, ClearPool,
                  Join, Destroy, StopReturn
    <3> QED
      BY <1>2, <2>1, <3>1, StopFrame
  <2> QED
    BY <2>1, <2>2
<1> QED
  BY <1>1, <1>2

\* The invariant holds in every reachable state of a node that only shutdown()
\* stops.
LEMMA Invariance == ASSUME Stopper = {"shutdown"} PROVE Spec => []IInv
<1>1. Init => IInv
  <2>1. ASSUME Init PROVE Order
    BY <2>1 DEF Init, Order, Phases, Failed, Existing, PoolRuns, Loops, Joined, Active, AtLoop
  <2>2. ASSUME Init PROVE Runs
    BY <2>2 DEF Init, Runs
  <2> QED
    BY <2>1, <2>2, TypeInit DEF IInv
<1>2. IInv /\ [Next]_vars => IInv'
  <2> SUFFICES ASSUME IInv, [Next]_vars PROVE Order' /\ Runs'
    BY TypeStep DEF IInv
  <2>1. CASE UNCHANGED vars
    BY <2>1 DEF vars, initVars, loopVars, stopVars, IInv, Order, Phases, Failed, Existing, PoolRuns, Loops,
                Joined, Active, AtLoop, Runs
  <2> QED
    BY <2>1, InitSteps, LoopSteps, StopSteps, InitRuns, LoopRuns, StopRuns DEF Next
<1> QED
  BY <1>1, <1>2, PTL DEF Spec

-----------------------------------------------------------------------------
(* The theorems.                                                             *)

\* A loop that is queued or on a worker finds everything its callback uses,
\* its own PeriodicTask and the pool alive, at every moment of every init()
\* and shutdown(): stop() joins the pool before it destroys anything, even
\* when the wait of 5 s for a loop has timed out (zerolancom_node.cpp:55-76).
THEOREM LoopsAreSafe ==
    ASSUME Stopper = {"shutdown"}
    PROVE  Spec => []NoUseAfterDestroy
<1>1. ASSUME IInv PROVE NoUseAfterDestroy
  <2> SUFFICES ASSUME NEW l \in Loop, Active(l) PROVE alive = Singleton
    BY UsesFacts DEF NoUseAfterDestroy, Active
  <2>1. app \in {"start", "up"} /\ ~(app = "up" /\ tpc["shutdown"] = "destroy")
    BY <1>1 DEF IInv, Order, Loops, TypeInv, TypeOK
  <2> QED
    BY <1>1, <2>1 DEF IInv, Order, Existing
<1> QED
  BY <1>1, Invariance, PTL

\* A node whose isRunning() answers true is complete: its singletons exist, its
\* pool runs and none of its loops has been stopped or has ended, because the
\* constructor sets running last and stop() clears it first
\* (zerolancom_node.cpp:33-38, 57).
THEOREM RunningNodesAreComplete ==
    ASSUME Stopper = {"shutdown"}
    PROVE  Spec => []RunningIsComplete
<1>1. ASSUME IInv PROVE RunningIsComplete
  <2> SUFFICES ASSUME running PROVE alive = Singleton /\ pool /\ \A l \in Loop : flag[l] /\ Active(l)
    BY DEF RunningIsComplete, Active
  <2>1. app = "up" /\ tpc["shutdown"] = "idle"
    BY <1>1 DEF IInv, Runs
  <2> QED
    BY <1>1, <2>1 DEF IInv, Order, Existing, PoolRuns, Runs
<1> QED
  BY <1>1, Invariance, PTL

\* When shutdown() has returned nothing is left of the node, so that init()
\* may be called again, as often as one likes, unless a constructor had thrown
\* (zerolancom_node.cpp:55-76, zerolancom.cpp:11-23).
THEOREM RestartIsClean ==
    ASSUME Stopper = {"shutdown"}
    PROVE  Spec => []CleanRestart
<1>1. ASSUME IInv PROVE CleanRestart
  BY <1>1 DEF IInv, TypeInv, TypeOK, LoopPC, Order, Existing, PoolRuns, Loops, Active, CleanRestart
<1> QED
  BY <1>1, Invariance, PTL
=============================================================================
