-------------------------- MODULE ServiceRpcProofs --------------------------
(* Theorems about ServiceRpc, for every set of nodes, threads and services,  *)
(* every way to offer and to nest them, and every node that may crash, take  *)
(* handlers away or answer nobody any more.                                  *)
EXTENDS ServiceRpc, WellFoundedInduction, NaturalsInduction, TLAPS

-----------------------------------------------------------------------------
(* The inductive invariant.                                                  *)

\* A node lists only services it was asked to offer, and has a handler for each
\* of them, and for get_node_info, unless it takes handlers away.
Registrations ==
    \A n \in Node :
        /\ handlers[n] \subseteq Offers[n] \cup {GetNodeInfo}
        /\ services[n] \subseteq Offers[n]
        /\ registered[n] \in Offers[n] \cup {None}
        /\ n \notin Unhandling =>
              /\ GetNodeInfo \in handlers[n]
              /\ services[n] \subseteq handlers[n]
              /\ registered[n] # None => registered[n] \in handlers[n]

\* A registry lists for a node only what that node lists itself.
Learnt == \A n, p \in Node : nodes_info[n][p] \subseteq services[p]

\* A call that was sent names a service its node lists, or is a fetch; only the
\* receive loop fetches.
Addressed(t) ==
    /\ call[t].pc # "idle" => call[t].service # None
    /\ call[t].pc \in {"sent", "answered"} =>
          /\ call[t].to \in Node
          /\ call[t].service \in services[call[t].to] \cup {GetNodeInfo}
    /\ call[t].service = GetNodeInfo => t = Receiving(HomeOf(t))

\* What an answer brings.
Learning(t) == UNION {call[t].response.payload[i] : i \in DOMAIN call[t].response.payload}

\* NOSERVICE comes from a node that took a handler away; a description comes from
\* the node itself and is not older than the one the registry holds.
Answered(t) ==
    call[t].pc = "answered" =>
        /\ call[t].response.code = "NOSERVICE" => call[t].to \in Unhandling
        /\ call[t].service = GetNodeInfo =>
              /\ Learning(t) \subseteq services[call[t].to]
              /\ \/ call[t].to \in Unhandling
                 \/ nodes_info[HomeOf(t)][call[t].to] \subseteq Learning(t)

Calls == \A t \in Thread : Addressed(t) /\ Answered(t)

\* The service loop makes a call only inside a handler, and the one its handler
\* is nested with.
Loops ==
    \A n \in Node :
        /\ rep[n] = "recv" => serving[n] = None /\ call[Serving(n)].pc = "idle"
        /\ rep[n] = "handle" => serving[n] \in Thread
        /\ call[Serving(n)].pc # "idle" =>
              \E s \in Offers[n] : Nested[s] # None /\ call[Serving(n)].service = Nested[s]

IInv == TypeOK /\ Registrations /\ Learnt /\ Calls /\ Loops /\ RequestsConserved

-----------------------------------------------------------------------------
(* Threads, calls and levels.                                                *)

\* The three kinds of threads are distinct, and each belongs to one node.
LEMMA ThreadFacts ==
    /\ \A n \in Node : Serving(n) \in Thread /\ HomeOf(Serving(n)) = n
    /\ \A n \in Node : Receiving(n) \in Thread /\ HomeOf(Receiving(n)) = n
    /\ \A c \in Caller : App(c) \in Thread
    /\ \A t \in Thread : HomeOf(t) \in Node
    /\ \A n, m \in Node : Serving(n) # Receiving(m) /\ (Serving(n) = Serving(m) => n = m)
    /\ \A c \in Caller, n \in Node : App(c) # Serving(n) /\ App(c) # Receiving(n)
<1>1. ASSUME NEW n \in Node PROVE Serving(n) \in Thread /\ HomeOf(Serving(n)) = n
  BY DEF Thread, HomeOf, Serving
<1>2. ASSUME NEW n \in Node PROVE Receiving(n) \in Thread /\ HomeOf(Receiving(n)) = n
  BY DEF Thread, HomeOf, Receiving
<1>3. ASSUME NEW c \in Caller PROVE App(c) \in Thread /\ HomeOf(App(c)) \in Node
  BY HomeAssumption DEF Thread, HomeOf, App
<1>4. ASSUME NEW t \in Thread PROVE HomeOf(t) \in Node
  BY <1>1, <1>2, <1>3 DEF Thread
<1>5. ASSUME NEW n \in Node, NEW m \in Node
      PROVE  Serving(n) # Receiving(m) /\ (Serving(n) = Serving(m) => n = m)
  BY DEF Serving, Receiving
<1>6. ASSUME NEW c \in Caller, NEW n \in Node PROVE App(c) # Serving(n) /\ App(c) # Receiving(n)
  BY DEF App, Serving, Receiving
<1> QED
  BY <1>1, <1>2, <1>3, <1>4, <1>5, <1>6

\* Among nodes with levels there is one that no other is below.
LEMMA LeastLevel ==
    ASSUME NEW S, S # {}, NEW f \in [S -> Nat]
    PROVE  \E x \in S : \A y \in S : ~(f[y] < f[x])
<1> DEFINE T == {f[x] : x \in S}
<1>1. T \subseteq Nat /\ T # {}
  OBVIOUS
<1>2. PICK k \in T : \A y \in T : ~(<<y, k>> \in OpToRel(<, Nat))
  BY <1>1, NatLessThanWellFounded, WFMin
<1>3. \A y \in T : ~(y < k)
  BY <1>1, <1>2 DEF OpToRel
<1> QED
  BY <1>3

\* The call of a thread that begins, and the one of a thread that has none.
LEMMA CallTypes ==
    /\ Idle \in Call
    /\ \A s \in Service : Waiting(s) \in Call
    /\ \A n \in Node : [Idle EXCEPT !.pc = "sent", !.service = GetNodeInfo, !.to = n] \in Call
<1>1. NoResponse \in Response
  BY DEF NoResponse, Response, Status, Payload
<1>2. 0 \in 0 .. (MaxWait + CheckInterval)
  BY WaitAssumption
<1> QED
  BY <1>1, <1>2 DEF Call, Idle, Waiting

\* What an answer brings are names of services.
LEMMA LearningType ==
    ASSUME TypeOK, NEW t \in Thread PROVE Learning(t) \subseteq Service
<1>1. call[t].response.payload \in Payload
  BY DEF TypeOK, Call, Response
<1> QED
  BY <1>1 DEF Learning, Payload

\* What a handler's outcome is made into is a response.
LEMMA OutcomeFacts ==
    ASSUME TypeOK, NEW n \in Node, NEW s \in Service \cup {GetNodeInfo}, NEW r \in Outcomes(n, s)
    PROVE  /\ r \in Response
           /\ r.code # "NOSERVICE"
           /\ s = GetNodeInfo => r.payload = <<services[n]>>
<1>1. CASE s = GetNodeInfo
  <2>1. services[n] \in SUBSET Service
    BY DEF TypeOK
  <2>2. r = [code |-> "SUCCESS", payload |-> <<services[n]>>]
    BY <1>1 DEF Outcomes
  <2> QED
    BY <2>1, <2>2 DEF Response, Status, Payload
<1>2. CASE s # GetNodeInfo
  <2>1. s \in Service /\ {s} \in SUBSET Service
    BY <1>2
  <2> QED
    BY <1>2, <2>1 DEF Outcomes, Response, Status, Payload
<1> QED
  BY <1>1, <1>2

-----------------------------------------------------------------------------
(* The initial state, and what a step leaves alone.                          *)

\* The initial state satisfies the invariant.
LEMMA InitIInv == Init => IInv
<1> SUFFICES ASSUME Init PROVE IInv
  OBVIOUS
<1>1. \A t \in Thread : call[t].pc = "idle" /\ call[t].service = None
  BY DEF Init, Idle
<1>2. TypeOK
  <2>1. up \in [Node -> BOOLEAN]
    BY DEF Init
  <2>2. call \in [Thread -> Call]
    BY CallTypes DEF Init
  <2>3. /\ handlers \in [Node -> SUBSET (Service \cup {GetNodeInfo})]
        /\ registered \in [Node -> Service \cup {None}]
        /\ services \in [Node -> SUBSET Service]
        /\ nodes_info \in [Node -> [Node -> SUBSET Service]]
    BY DEF Init
  <2>4. /\ rep \in [Node -> {"recv", "handle", "jammed"}]
        /\ serving \in [Node -> Thread \cup {None}]
        /\ inbox \in [Node -> SUBSET Thread]
    BY DEF Init
  <2> QED
    BY <2>1, <2>2, <2>3, <2>4 DEF TypeOK
<1>3. Registrations
  BY DEF Init, Registrations
<1>4. Learnt
  BY DEF Init, Learnt
<1>5. Calls
  BY <1>1, NameAssumption DEF Calls, Addressed, Answered
<1>6. Loops
  BY <1>1, ThreadFacts DEF Init, Loops
<1>7. RequestsConserved
  BY <1>1, ThreadAssumption DEF Init, RequestsConserved
<1> QED
  BY <1>2, <1>3, <1>4, <1>5, <1>6, <1>7 DEF IInv

\* A call that a step does not touch stays as good as it was, if nodes keep the
\* services they list and the caller's registry learns nothing meanwhile.
LEMMA CallKept ==
    ASSUME NEW t \in Thread, Addressed(t), Answered(t), call'[t] = call[t],
           \A n \in Node : services[n] \subseteq services'[n],
           call[t].service = GetNodeInfo =>
               \A p \in Node : nodes_info'[HomeOf(t)][p] \subseteq nodes_info[HomeOf(t)][p]
    PROVE  Addressed(t)' /\ Answered(t)'
<1>1. Learning(t)' = Learning(t)
  BY DEF Learning
<1>2. Addressed(t)'
  BY DEF Addressed
<1>3. Answered(t)'
  <2> SUFFICES ASSUME call'[t].pc = "answered"
               PROVE  /\ call'[t].response.code = "NOSERVICE" => call'[t].to \in Unhandling
                      /\ call'[t].service = GetNodeInfo =>
                           /\ Learning(t)' \subseteq services'[call'[t].to]
                           /\ \/ call'[t].to \in Unhandling
                              \/ nodes_info'[HomeOf(t)][call'[t].to] \subseteq Learning(t)'
    BY DEF Answered
  <2>1. call[t].to \in Node
    BY DEF Addressed
  <2> QED
    BY <1>1, <2>1 DEF Answered
<1> QED
  BY <1>2, <1>3

\* A step that leaves every service loop and its call alone keeps Loops.
LEMMA LoopsKept ==
    ASSUME Loops, UNCHANGED <<rep, serving>>, \A n \in Node : call'[Serving(n)] = call[Serving(n)]
    PROVE  Loops'
BY DEF Loops

\* A step in which no request moves keeps RequestsConserved.
LEMMA ConservedKept ==
    ASSUME RequestsConserved, UNCHANGED <<inbox, serving>>,
           \A t \in Thread : up'[HomeOf(t)] => up[HomeOf(t)],
           \A t \in Thread : (call'[t].pc = "sent" <=> call[t].pc = "sent"),
           \A t \in Thread : call[t].pc = "sent" => call'[t].to = call[t].to
    PROVE  RequestsConserved'
BY DEF RequestsConserved

-----------------------------------------------------------------------------
(* Registration, and the end of a process.                                   *)

\* registerServiceHandler, removeHandler, clearHandlers and a crash.
LEMMA RegistrationStep ==
    ASSUME IInv, NEW n \in Node,
           \/ \E s \in Service : RegisterHandler(n, s) \/ RemoveHandlers(n, {s})
           \/ RegisterLocalService(n) \/ RemoveHandlers(n, handlers[n]) \/ Crash(n)
    PROVE  IInv'
<1> USE DEF IInv
<1>1. UNCHANGED <<nodes_info, rep, serving, inbox, call>>
  BY DEF RegisterHandler, RemoveHandlers, RegisterLocalService, Crash, repVars
<1>2. \A m \in Node : services[m] \subseteq services'[m]
  BY DEF RegisterHandler, RemoveHandlers, RegisterLocalService, Crash, regVars, TypeOK
<1>3. \A t \in Thread : up'[HomeOf(t)] => up[HomeOf(t)]
  BY ThreadFacts DEF RegisterHandler, RemoveHandlers, RegisterLocalService, Crash, TypeOK
<1>4. TypeOK' /\ Registrations'
  <2>1. ASSUME NEW s \in Service, RegisterHandler(n, s) PROVE TypeOK' /\ Registrations'
    <3>1. TypeOK'
      BY <2>1 DEF RegisterHandler, TypeOK, repVars
    <3>2. Registrations'
      BY <2>1 DEF RegisterHandler, TypeOK, Registrations
    <3> QED
      BY <3>1, <3>2
  <2>2. ASSUME NEW names, RemoveHandlers(n, names) PROVE TypeOK' /\ Registrations'
    <3>1. TypeOK'
      BY <2>2 DEF RemoveHandlers, TypeOK, repVars
    <3>2. Registrations'
      BY <2>2 DEF RemoveHandlers, TypeOK, Registrations
    <3> QED
      BY <3>1, <3>2
  <2>3. CASE RegisterLocalService(n)
    <3>1. TypeOK'
      BY <2>3 DEF RegisterLocalService, TypeOK, repVars
    <3>2. Registrations'
      BY <2>3 DEF RegisterLocalService, TypeOK, Registrations
    <3> QED
      BY <3>1, <3>2
  <2>4. CASE Crash(n)
    <3>1. up' \in [Node -> BOOLEAN]
      BY <2>4 DEF Crash, TypeOK
    <3>2. TypeOK'
      BY <2>4, <3>1 DEF Crash, TypeOK, repVars, regVars
    <3>3. Registrations'
      BY <2>4 DEF Crash, Registrations, regVars
    <3> QED
      BY <3>2, <3>3
  <2> QED
    BY <2>1, <2>2, <2>3, <2>4
<1>5. Learnt'
  BY <1>1, <1>2 DEF Learnt
<1>6. Calls'
  BY <1>1, <1>2, CallKept DEF Calls
<1>7. Loops' /\ RequestsConserved'
  BY <1>1, <1>3, LoopsKept, ConservedKept
<1> QED
  BY <1>4, <1>5, <1>6, <1>7

-----------------------------------------------------------------------------
(* The client.                                                               *)

\* A step of one thread outside the exchange with a REP socket: its call begins,
\* goes on or ends, and a registry may learn what its node lists.
LEMMA CallStep ==
    ASSUME IInv, NEW t \in Thread, NEW v \in Call,
           call' = [call EXCEPT ![t] = v], UNCHANGED <<up, regVars, repVars>>,
           call[t].pc # "sent", v.pc \in {"idle", "wait", "lookup"},
           \/ v.pc = "idle" /\ v.service = None
           \/ v.service = call[t].service /\ call[t].pc # "idle"
           \/ v.service \in Service /\ \A n \in Node : t # Serving(n),
           nodes_info' \in [Node -> [Node -> SUBSET Service]], Learnt',
           \A u \in Thread \ {t} : call[u].service = GetNodeInfo
                                      => nodes_info'[HomeOf(u)] = nodes_info[HomeOf(u)]
    PROVE  IInv'
<1> USE DEF IInv
<1>1. call'[t] = v /\ \A u \in Thread \ {t} : call'[u] = call[u]
  BY DEF TypeOK
<1>2. TypeOK'
  BY DEF TypeOK, regVars, repVars
<1>3. Registrations'
  BY DEF Registrations, regVars
<1>4. Calls'
  <2>1. ASSUME NEW u \in Thread \ {t} PROVE Addressed(u)' /\ Answered(u)'
    <3>1. Addressed(u) /\ Answered(u)
      BY DEF Calls
    <3>2. \A n \in Node : services[n] \subseteq services'[n]
      BY DEF regVars
    <3> QED
      BY <1>1, <3>1, <3>2, CallKept
  <2>2. Addressed(t)' /\ Answered(t)'
    <3>1. Addressed(t)
      BY DEF Calls
    <3>2. v.pc # "idle" => v.service # None
      BY <3>1, NameAssumption DEF Addressed
    <3>3. v.service = GetNodeInfo => t = Receiving(HomeOf(t))
      BY <3>1, NameAssumption DEF Addressed
    <3> QED
      BY <1>1, <3>2, <3>3 DEF Addressed, Answered
  <2> QED
    BY <2>1, <2>2 DEF Calls
<1>5. Loops'
  <2> SUFFICES ASSUME NEW n \in Node
               PROVE /\ rep'[n] = "recv" => serving'[n] = None /\ call'[Serving(n)].pc = "idle"
                     /\ rep'[n] = "handle" => serving'[n] \in Thread
                     /\ call'[Serving(n)].pc # "idle" =>
                           \E s \in Offers[n] : Nested[s] # None /\ call'[Serving(n)].service = Nested[s]
    BY DEF Loops
  <2>1. CASE t # Serving(n)
    BY <1>1, <2>1, ThreadFacts DEF Loops, repVars
  <2>2. CASE t = Serving(n)
    BY <1>1, <2>2 DEF Loops, repVars
  <2> QED
    BY <2>1, <2>2
<1>6. RequestsConserved'
  BY <1>1, ConservedKept DEF repVars
<1> QED
  BY <1>2, <1>3, <1>4, <1>5, <1>6

\* request() starts.
LEMMA RequestStep ==
    ASSUME IInv, NEW c \in Caller, NEW s \in Service, Request(c, s) PROVE IInv'
<1>1. App(c) \in Thread /\ \A n \in Node : App(c) # Serving(n)
  BY ThreadFacts
<1>2. Waiting(s) \in Call /\ Waiting(s).pc = "wait" /\ Waiting(s).service = s
  BY CallTypes DEF Waiting, Idle
<1>3. Learnt' /\ nodes_info' \in [Node -> [Node -> SUBSET Service]]
  BY DEF Request, IInv, Learnt, TypeOK, regVars
<1> QED
  BY <1>1, <1>2, <1>3, CallStep DEF Request

\* A round of waitForService, and the ends of a call that learns nothing.
LEMMA ClientLocalStep ==
    ASSUME IInv, NEW t \in Thread, WaitForService(t) \/ NotSent(t) \/ DecodeFails(t) PROVE IInv'
<1> USE DEF IInv
<1>1. UNCHANGED <<up, regVars, nodes_info, repVars>> /\ call[t].pc \in {"wait", "lookup", "answered"}
  BY DEF WaitForService, NotSent, DecodeFails
<1>2. Learnt' /\ nodes_info' \in [Node -> [Node -> SUBSET Service]]
  BY <1>1 DEF Learnt, TypeOK, regVars
<1>3. CASE NotSent(t) \/ DecodeFails(t)
  <2>1. call' = [call EXCEPT ![t] = Idle] /\ Idle.pc = "idle" /\ Idle.service = None /\ Idle \in Call
    BY <1>3, CallTypes DEF NotSent, DecodeFails, Idle
  <2> QED
    BY <1>1, <1>2, <2>1, CallStep
<1>4. CASE WaitForService(t)
  <2>1. PICK v : /\ call' = [call EXCEPT ![t] = v]
                 /\ \/ v = [call[t] EXCEPT !.pc = "lookup"]
                    \/ /\ v = [call[t] EXCEPT !.waited_ms = @ + CheckInterval]
                       /\ call[t].waited_ms < MaxWait
    BY <1>4 DEF WaitForService, TypeOK
  <2>2. call[t] \in Call /\ call[t].pc = "wait" /\ call[t].waited_ms \in Nat
    BY <1>4, WaitAssumption DEF WaitForService, TypeOK, Call
  <2>3. v \in Call /\ v.pc \in {"wait", "lookup"} /\ v.service = call[t].service
    BY <2>1, <2>2, WaitAssumption DEF Call
  <2> QED
    BY <1>1, <1>2, <2>1, <2>2, <2>3, CallStep
<1> QED
  BY <1>3, <1>4

\* An answer is received, and its description, if it was a fetch, is stored.
LEMMA ReceiveStep ==
    ASSUME IInv, NEW t \in Thread, ReceiveResponse(t) PROVE IInv'
<1> USE DEF IInv, ReceiveResponse
<1>1. Idle \in Call /\ Idle.pc = "idle" /\ Idle.service = None
  BY CallTypes DEF Idle
<1>2. HomeOf(t) \in Node /\ Addressed(t) /\ Answered(t) /\ call[t].to \in Node
  BY ThreadFacts DEF Calls, Addressed
<1>3. CASE call[t].service # GetNodeInfo
  <2>1. Learnt' /\ nodes_info' = nodes_info /\ nodes_info \in [Node -> [Node -> SUBSET Service]]
    BY <1>3 DEF Learnt, TypeOK, regVars
  <2>2. UNCHANGED <<up, regVars, repVars>> /\ call' = [call EXCEPT ![t] = Idle] /\ call[t].pc # "sent"
    OBVIOUS
  <2> HIDE DEF ReceiveResponse
  <2> QED
    BY <1>1, <2>1, <2>2, CallStep
<1>4. CASE call[t].service = GetNodeInfo
  <2>1. nodes_info' = [nodes_info EXCEPT ![HomeOf(t)][call[t].to] = Learning(t)]
    BY <1>4 DEF Learning
  <2>2. nodes_info' \in [Node -> [Node -> SUBSET Service]]
    <3>1. Learning(t) \in SUBSET Service /\ nodes_info \in [Node -> [Node -> SUBSET Service]]
      BY LearningType DEF TypeOK
    <3> HIDE DEF ReceiveResponse
    <3> QED
      BY <1>2, <2>1, <3>1
  <2>3. Learnt'
    <3>1. Learning(t) \subseteq services[call[t].to]
      BY <1>2, <1>4 DEF Answered
    <3> QED
      BY <1>2, <2>1, <3>1 DEF Learnt, TypeOK, regVars
  <2>4. ASSUME NEW u \in Thread \ {t}, call[u].service = GetNodeInfo
        PROVE  nodes_info'[HomeOf(u)] = nodes_info[HomeOf(u)]
    <3>1. t = Receiving(HomeOf(t)) /\ u = Receiving(HomeOf(u))
      BY <1>2, <1>4, <2>4 DEF Calls, Addressed
    <3>2. HomeOf(u) # HomeOf(t) /\ HomeOf(u) \in Node
      BY <3>1, ThreadFacts
    <3> QED
      BY <1>2, <2>1, <3>2 DEF TypeOK
  <2> QED
    BY <1>1, <1>2, <2>2, <2>3, <2>4, CallStep
<1> QED
  BY <1>3, <1>4

\* An eviction forgets services while no fetch of that node is under way.
LEMMA ForgetStep ==
    ASSUME IInv, NEW n \in Node, NEW p \in Node, Forget(n, p) PROVE IInv'
<1> USE DEF IInv, Forget
<1>1. \A m, x \in Node : nodes_info'[m][x] \subseteq nodes_info[m][x]
  BY DEF TypeOK
<1>2. TypeOK'
  BY DEF TypeOK, regVars, repVars
<1>3. Registrations' /\ Learnt'
  BY <1>1 DEF Registrations, Learnt, regVars
<1>4. Calls'
  BY <1>1, CallKept, ThreadFacts DEF Calls, regVars
<1>5. Loops' /\ RequestsConserved'
  BY LoopsKept, ConservedKept DEF repVars
<1> QED
  BY <1>2, <1>3, <1>4, <1>5

\* A request enters the queue of the node it is addressed to.
LEMMA SendStep ==
    ASSUME IInv, NEW t \in Thread, NEW p \in Node, NEW v \in Call,
           call' = [call EXCEPT ![t] = v], inbox' = [inbox EXCEPT ![p] = @ \cup {t}],
           UNCHANGED <<up, regVars, nodes_info, rep, serving>>,
           call[t].pc # "sent", v.pc = "sent", v.to = p,
           v.service \in services[p] \cup {GetNodeInfo},
           v.service = GetNodeInfo => t = Receiving(HomeOf(t)),
           \/ v.service = call[t].service /\ call[t].pc # "idle"
           \/ \A n \in Node : t # Serving(n)
    PROVE  IInv'
<1> USE DEF IInv
<1>1. call'[t] = v /\ \A u \in Thread \ {t} : call'[u] = call[u]
  BY DEF TypeOK
<1>2. \A n \in Node : inbox'[n] = IF n = p THEN inbox[n] \cup {t} ELSE inbox[n]
  BY DEF TypeOK
<1>3. TypeOK'
  BY DEF TypeOK, regVars
<1>4. Registrations' /\ Learnt'
  BY DEF Registrations, Learnt, regVars
<1>5. Calls'
  <2>1. ASSUME NEW u \in Thread \ {t} PROVE Addressed(u)' /\ Answered(u)'
    <3>1. Addressed(u) /\ Answered(u)
      BY DEF Calls
    <3>2. \A n \in Node : services[n] \subseteq services'[n]
      BY DEF regVars
    <3> QED
      BY <1>1, <3>1, <3>2, CallKept
  <2>2. v.service # None
    BY NameAssumption DEF TypeOK
  <2>3. Addressed(t)' /\ Answered(t)'
    BY <1>1, <2>2 DEF Addressed, Answered, regVars
  <2> QED
    BY <2>1, <2>3 DEF Calls
<1>6. Loops'
  <2> SUFFICES ASSUME NEW n \in Node
               PROVE /\ rep'[n] = "recv" => serving'[n] = None /\ call'[Serving(n)].pc = "idle"
                     /\ rep'[n] = "handle" => serving'[n] \in Thread
                     /\ call'[Serving(n)].pc # "idle" =>
                           \E s \in Offers[n] : Nested[s] # None /\ call'[Serving(n)].service = Nested[s]
    BY DEF Loops
  <2>1. CASE t # Serving(n)
    BY <1>1, <2>1, ThreadFacts DEF Loops
  <2>2. CASE t = Serving(n)
    BY <1>1, <2>2 DEF Loops
  <2> QED
    BY <2>1, <2>2
<1>7. RequestsConserved'
  <2>1. \A n \in Node : t \notin inbox[n] /\ serving[n] # t
    BY DEF RequestsConserved
  <2> QED
    BY <1>1, <1>2, <2>1 DEF RequestsConserved
<1> QED
  BY <1>3, <1>4, <1>5, <1>6, <1>7

\* zlcRequest sends to a node that lists the service.
LEMMA SendRequestStep ==
    ASSUME IInv, NEW t \in Thread, NEW p \in Node, SendRequest(t, p) PROVE IInv'
<1> DEFINE v == [call[t] EXCEPT !.pc = "sent", !.to = p]
<1>1. call[t] \in Call /\ call[t].pc = "lookup" /\ Addressed(t) /\ HomeOf(t) \in Node
  BY ThreadFacts DEF IInv, TypeOK, SendRequest, Calls
<1>2. /\ call' = [call EXCEPT ![t] = v] /\ inbox' = [inbox EXCEPT ![p] = @ \cup {t}]
      /\ UNCHANGED <<up, regVars, nodes_info, rep, serving>>
  BY DEF SendRequest, IInv, TypeOK
<1>3. v \in Call /\ v.pc = "sent" /\ v.to = p /\ v.service = call[t].service
  BY <1>1 DEF Call
<1>4. call[t].service \in services[p]
  BY <1>1 DEF SendRequest, GetServiceInfo, IInv, Learnt
<1>5. v.service = GetNodeInfo => t = Receiving(HomeOf(t))
  BY <1>1, <1>3 DEF Addressed
<1> HIDE DEF v
<1> QED
  BY <1>1, <1>2, <1>3, <1>4, <1>5, SendStep

\* fetchNodeInfo sends to the node a heartbeat came from.
LEMMA FetchStep ==
    ASSUME IInv, NEW n \in Node, NEW p \in Node, FetchNodeInfo(n, p) PROVE IInv'
<1> DEFINE v == [Idle EXCEPT !.pc = "sent", !.service = GetNodeInfo, !.to = p]
<1> DEFINE t == Receiving(n)
<1>1. v \in Call /\ v.pc = "sent" /\ v.to = p /\ v.service = GetNodeInfo
  BY CallTypes DEF Idle
<1>2. /\ call' = [call EXCEPT ![t] = v] /\ inbox' = [inbox EXCEPT ![p] = @ \cup {t}]
      /\ UNCHANGED <<up, regVars, nodes_info, rep, serving>> /\ call[t].pc = "idle"
  BY DEF FetchNodeInfo
<1>3. t \in Thread /\ t = Receiving(HomeOf(t)) /\ \A m \in Node : t # Serving(m)
  BY ThreadFacts
<1> HIDE DEF v, t
<1> QED
  BY <1>1, <1>2, <1>3, SendStep

-----------------------------------------------------------------------------
(* The service loop.                                                         *)

\* The answer to a call that was sent to n.
LEMMA AnswerFacts ==
    ASSUME IInv, NEW n \in Node, NEW t \in Thread, NEW r \in Response,
           call[t].pc = "sent", call[t].to = n, call' = Answer(call, t, r),
           UNCHANGED <<up, regVars, nodes_info>>,
           r.code = "NOSERVICE" => n \in Unhandling,
           call[t].service = GetNodeInfo =>
               \/ r.payload = <<services[n]>>
               \/ r.payload = <<>> /\ n \in Unhandling
    PROVE  /\ call' \in [Thread -> Call] /\ Calls'
           /\ \A u \in Thread \ {t} : call'[u] = call[u]
           /\ ~up[HomeOf(t)] => call' = call
           /\ up[HomeOf(t)] => call'[t].pc = "answered"
           /\ call'[t].pc # "idle" /\ call'[t].service = call[t].service
<1> USE DEF IInv
<1> DEFINE v == [call[t] EXCEPT !.pc = "answered", !.response = r]
<1>1. call[t] \in Call /\ call \in [Thread -> Call] /\ HomeOf(t) \in Node
  BY ThreadFacts DEF TypeOK
<1>2. v \in Call /\ v.pc = "answered" /\ v.response = r /\ v.to = n /\ v.service = call[t].service
  BY <1>1 DEF Call
<1>3. \A m \in Node : services[m] \subseteq services'[m]
  BY DEF regVars
<1>4. CASE ~up[HomeOf(t)]
  <2>1. call' = call
    BY <1>4 DEF Answer
  <2>2. Calls'
    BY <1>3, <2>1, CallKept DEF Calls
  <2> QED
    BY <1>1, <1>4, <2>1, <2>2
<1>5. CASE up[HomeOf(t)]
  <2>1. call' = [call EXCEPT ![t] = v]
    BY <1>1, <1>5 DEF Answer
  <2>2. call'[t] = v /\ \A u \in Thread \ {t} : call'[u] = call[u]
    BY <1>1, <2>1
  <2>3. ASSUME NEW u \in Thread \ {t} PROVE Addressed(u)' /\ Answered(u)'
    <3>1. Addressed(u) /\ Answered(u)
      BY DEF Calls
    <3> QED
      BY <1>3, <2>2, <3>1, CallKept
  <2>4. Addressed(t)'
    <3>1. Addressed(t)
      BY DEF Calls
    <3> HIDE DEF v
    <3> QED
      BY <1>2, <2>2, <3>1 DEF Addressed, regVars
  <2>5. Learning(t)' = UNION {r.payload[i] : i \in DOMAIN r.payload}
    <3>1. call'[t].response.payload = r.payload
      BY <1>2, <2>2
    <3> QED
      BY <3>1 DEF Learning
  <2>6. ASSUME call[t].service = GetNodeInfo
        PROVE  /\ Learning(t)' \subseteq services[n]
               /\ n \in Unhandling \/ nodes_info[HomeOf(t)][n] \subseteq Learning(t)'
    <3>1. CASE r.payload = <<services[n]>>
      <4>1. Learning(t)' = services[n]
        BY <2>5, <3>1
      <4> QED
        BY <1>1, <4>1 DEF Learnt
    <3>2. CASE r.payload = <<>> /\ n \in Unhandling
      BY <2>5, <3>2
    <3> QED
      BY <2>6, <3>1, <3>2
  <2>7. Answered(t)'
    <3> HIDE DEF v
    <3> QED
      BY <1>2, <2>2, <2>6 DEF Answered, regVars
  <2>8. Calls'
    BY <2>3, <2>4, <2>7 DEF Calls
  <2> HIDE DEF v
  <2> QED
    BY <1>1, <1>2, <1>5, <2>1, <2>2, <2>8
<1> QED
  BY <1>4, <1>5

\* NOSERVICE is the answer to a request no handler has the name of.
LEMMA RefuseStep ==
    ASSUME IInv, NEW n \in Node, NEW t \in inbox[n], RefuseRequest(n, t) PROVE IInv'
<1> USE DEF IInv
<1> DEFINE r == [code |-> "NOSERVICE", payload |-> <<>>]
<1>1. t \in Thread /\ call[t].pc = "sent" /\ call[t].to = n /\ serving[n] # t
  BY DEF TypeOK, RequestsConserved
<1>2. r \in Response
  BY DEF Response, Status, Payload
<1>3. n \in Unhandling
  <2>1. call[t].service \in services[n] \cup {GetNodeInfo}
    BY <1>1 DEF Calls, Addressed
  <2> QED
    BY <2>1 DEF Registrations, RefuseRequest
<1>4. call' = Answer(call, t, r) /\ UNCHANGED <<up, regVars, nodes_info>>
  BY DEF RefuseRequest
<1>5. /\ call' \in [Thread -> Call] /\ Calls'
      /\ \A u \in Thread \ {t} : call'[u] = call[u]
      /\ ~up[HomeOf(t)] => call' = call
      /\ up[HomeOf(t)] => call'[t].pc = "answered"
      /\ call'[t].pc # "idle" /\ call'[t].service = call[t].service
  BY <1>1, <1>2, <1>3, <1>4, AnswerFacts
<1>6. /\ inbox' = [inbox EXCEPT ![n] = @ \ {t}] /\ UNCHANGED <<rep, serving>>
  BY DEF RefuseRequest
<1>7. TypeOK' /\ Registrations' /\ Learnt'
  BY <1>4, <1>5, <1>6 DEF TypeOK, Registrations, Learnt, regVars
<1>8. Loops'
  <2>1. \A m \in Node : call'[Serving(m)].pc # "idle" => call[Serving(m)].pc # "idle"
    BY <1>1, <1>5, ThreadFacts
  <2>2. \A m \in Node : call'[Serving(m)].service = call[Serving(m)].service
    BY <1>5, ThreadFacts
  <2> QED
    BY <1>6, <2>1, <2>2 DEF Loops
<1>9. RequestsConserved'
  <2>1. \A m \in Node : inbox'[m] = IF m = n THEN inbox[m] \ {t} ELSE inbox[m]
    BY <1>6 DEF TypeOK
  <2>2. ASSUME NEW m \in Node PROVE serving[m] # t /\ t \notin inbox'[m]
    <3>1. (t \in inbox[m] \/ serving[m] = t) => call[t].to = m
      BY <1>1 DEF RequestsConserved
    <3> QED
      BY <1>1, <2>1, <3>1
  <2>3. UNCHANGED <<up, serving>>
    BY <1>4, <1>6
  <2> SUFFICES ASSUME NEW u \in Thread, NEW m \in Node
               PROVE  /\ (u \in inbox'[m] \/ serving'[m] = u) => (call'[u].pc = "sent" /\ call'[u].to = m)
                      /\ ~(u \in inbox'[m] /\ serving'[m] = u)
                      /\ (call'[u].pc = "sent" /\ call'[u].to = m /\ up'[HomeOf(u)])
                            => (u \in inbox'[m] \/ serving'[m] = u)
    BY DEF RequestsConserved
  <2>4. CASE u = t
    BY <1>5, <2>2, <2>3, <2>4
  <2>5. CASE u # t
    <3>1. call'[u] = call[u] /\ (u \in inbox'[m] <=> u \in inbox[m])
      BY <1>5, <2>1, <2>5
    <3> QED
      BY <2>3, <3>1 DEF RequestsConserved
  <2> QED
    BY <2>4, <2>5
<1> QED
  BY <1>5, <1>7, <1>8, <1>9

\* A handler begins with a request of the queue, and with a call of its own if it
\* is nested: the loop had none under way.
LEMMA StartStep ==
    ASSUME IInv, NEW n \in Node, NEW t \in inbox[n], StartHandler(n, t) PROVE IInv'
<1> USE DEF IInv
<1> DEFINE s == call[t].service
<1>1. /\ t \in Thread /\ call[t].pc = "sent" /\ call[t].to = n
      /\ rep[n] = "recv" /\ serving[n] = None /\ call[Serving(n)].pc = "idle"
      /\ Serving(n) \in Thread /\ t # Serving(n)
  BY ThreadFacts DEF TypeOK, RequestsConserved, StartHandler, Loops
<1>2. /\ inbox' = [inbox EXCEPT ![n] = @ \ {t}] /\ rep' = [rep EXCEPT ![n] = "handle"]
      /\ serving' = [serving EXCEPT ![n] = t] /\ UNCHANGED <<up, regVars, nodes_info>>
  BY DEF StartHandler
<1>3. \/ call' = call
      \/ /\ s \in Offers[n] /\ Nested[s] \in Service
         /\ call' = [call EXCEPT ![Serving(n)] = Waiting(Nested[s])]
  <2>1. s \in Offers[n] \cup {GetNodeInfo}
    BY DEF StartHandler, Registrations
  <2>2. s # GetNodeInfo => s \in Service /\ Nested[s] \in Service \cup {None}
    BY <2>1, OfferAssumption, NestedAssumption
  <2> QED
    BY <2>1, <2>2 DEF StartHandler
<1>4. \A x \in Service : Waiting(x) \in Call /\ Waiting(x).pc = "wait" /\ Waiting(x).service = x
  BY CallTypes DEF Waiting, Idle
<1>5. /\ call' \in [Thread -> Call]
      /\ \A u \in Thread \ {Serving(n)} : call'[u] = call[u]
      /\ \/ call'[Serving(n)] = call[Serving(n)]
         \/ /\ s \in Offers[n] /\ Nested[s] \in Service /\ call'[Serving(n)] = Waiting(Nested[s])
  BY <1>1, <1>3, <1>4 DEF TypeOK
<1>6. call'[Serving(n)].pc # "sent"
  BY <1>1, <1>4, <1>5
<1> HIDE DEF s
<1>7. TypeOK' /\ Registrations' /\ Learnt'
  <2>1. TypeOK'
    BY <1>1, <1>2, <1>5 DEF TypeOK, regVars
  <2> QED
    BY <1>2, <2>1 DEF Registrations, Learnt, regVars
<1>8. Calls'
  <2>1. ASSUME NEW u \in Thread, call'[u] = call[u] PROVE Addressed(u)' /\ Answered(u)'
    <3>1. Addressed(u) /\ Answered(u)
      BY DEF Calls
    <3>2. \A m \in Node : services[m] \subseteq services'[m]
      BY <1>2 DEF regVars
    <3> QED
      BY <1>2, <2>1, <3>1, <3>2, CallKept
  <2>2. ASSUME call'[Serving(n)] # call[Serving(n)]
        PROVE  Addressed(Serving(n))' /\ Answered(Serving(n))'
    <3>1. call'[Serving(n)].pc = "wait" /\ call'[Serving(n)].service \in Service
      BY <1>4, <1>5, <2>2
    <3> QED
      BY <3>1, NameAssumption DEF Addressed, Answered
  <2> QED
    BY <1>5, <2>1, <2>2 DEF Calls
<1>9. Loops'
  <2> SUFFICES ASSUME NEW m \in Node
               PROVE /\ rep'[m] = "recv" => serving'[m] = None /\ call'[Serving(m)].pc = "idle"
                     /\ rep'[m] = "handle" => serving'[m] \in Thread
                     /\ call'[Serving(m)].pc # "idle" =>
                           \E x \in Offers[m] : Nested[x] # None /\ call'[Serving(m)].service = Nested[x]
    BY DEF Loops
  <2>1. CASE m # n
    <3>1. rep'[m] = rep[m] /\ serving'[m] = serving[m]
      BY <1>2, <2>1 DEF TypeOK
    <3>2. call'[Serving(m)] = call[Serving(m)]
      BY <1>5, <2>1, ThreadFacts
    <3> QED
      BY <3>1, <3>2 DEF Loops
  <2>2. CASE m = n
    <3>1. rep'[n] = "handle" /\ serving'[n] = t
      BY <1>2 DEF TypeOK
    <3>2. call'[Serving(n)].pc # "idle" =>
              \E x \in Offers[n] : Nested[x] # None /\ call'[Serving(n)].service = Nested[x]
      BY <1>1, <1>4, <1>5, NameAssumption
    <3> QED
      BY <1>1, <2>2, <3>1, <3>2
  <2> QED
    BY <2>1, <2>2
<1>10. RequestsConserved'
  <2>1. \A m \in Node : inbox'[m] = IF m = n THEN inbox[m] \ {t} ELSE inbox[m]
    BY <1>2 DEF TypeOK
  <2>2. \A m \in Node : serving'[m] = IF m = n THEN t ELSE serving[m]
    BY <1>2 DEF TypeOK
  <2>3. \A u \in Thread : /\ call'[u].pc = "sent" <=> call[u].pc = "sent"
                          /\ call[u].pc = "sent" => call'[u].to = call[u].to
    BY <1>1, <1>5, <1>6
  <2>4. \A u \in Thread : u # None
    BY ThreadAssumption
  <2>5. up' = up
    BY <1>2
  <2> SUFFICES ASSUME NEW u \in Thread, NEW m \in Node
               PROVE  /\ (u \in inbox'[m] \/ serving'[m] = u) => (call'[u].pc = "sent" /\ call'[u].to = m)
                      /\ ~(u \in inbox'[m] /\ serving'[m] = u)
                      /\ (call'[u].pc = "sent" /\ call'[u].to = m /\ up'[HomeOf(u)])
                            => (u \in inbox'[m] \/ serving'[m] = u)
    BY DEF RequestsConserved
  <2>6. CASE u = t
    <3>1. call'[u].pc = "sent" /\ call'[u].to = n
      BY <1>1, <2>3, <2>6
    <3>2. (u \in inbox[m] \/ serving[m] = u) => call[u].to = m
      BY DEF RequestsConserved
    <3>3. CASE m = n
      BY <2>1, <2>2, <2>6, <3>1, <3>3
    <3>4. CASE m # n
      <4>1. u \notin inbox'[m] /\ serving'[m] # u
        BY <1>1, <2>1, <2>2, <2>6, <3>2, <3>4
      <4> QED
        BY <3>1, <3>4, <4>1
    <3> QED
      BY <3>3, <3>4
  <2>7. CASE u # t
    <3>1. /\ u \in inbox'[m] <=> u \in inbox[m]
          /\ serving'[m] = u <=> serving[m] = u
      BY <1>1, <2>1, <2>2, <2>4, <2>7
    <3> QED
      BY <2>3, <2>5, <3>1 DEF RequestsConserved
  <2> QED
    BY <2>6, <2>7
<1> QED
  BY <1>7, <1>8, <1>9, <1>10

\* A handler's outcome is sent to the thread whose request it was.
LEMMA ResponseStep ==
    ASSUME IInv, NEW n \in Node, SendResponse(n) PROVE IInv'
<1> USE DEF IInv
<1> DEFINE t == serving[n]
<1>1. /\ t \in Thread /\ call[t].pc = "sent" /\ call[t].to = n /\ t \notin inbox[n]
      /\ call[Serving(n)].pc = "idle" /\ Serving(n) \in Thread /\ t # Serving(n)
  BY ThreadFacts DEF SendResponse, Loops, RequestsConserved
<1>2. PICK r \in Outcomes(n, call[t].service) : call' = Answer(call, t, r)
  BY DEF SendResponse
<1>3. call[t].service \in Service \cup {GetNodeInfo}
  <2>1. call[t].service \in Service \cup {GetNodeInfo, None} /\ call[t].service # None
    BY <1>1 DEF TypeOK, Call, Calls, Addressed
  <2> QED
    BY <2>1
<1>4. r \in Response /\ r.code # "NOSERVICE" /\ (call[t].service = GetNodeInfo => r.payload = <<services[n]>>)
  BY <1>2, <1>3, OutcomeFacts
<1>5. /\ rep' = [rep EXCEPT ![n] = "recv"] /\ serving' = [serving EXCEPT ![n] = None]
      /\ UNCHANGED <<up, regVars, nodes_info, inbox>>
  BY DEF SendResponse
<1> HIDE DEF t
<1>6. /\ call' \in [Thread -> Call] /\ Calls'
      /\ \A u \in Thread \ {t} : call'[u] = call[u]
      /\ ~up[HomeOf(t)] => call' = call
      /\ up[HomeOf(t)] => call'[t].pc = "answered"
      /\ call'[t].pc # "idle" /\ call'[t].service = call[t].service
  BY <1>1, <1>2, <1>4, <1>5, AnswerFacts
<1>7. TypeOK' /\ Registrations' /\ Learnt'
  <2>1. TypeOK'
    BY <1>5, <1>6 DEF TypeOK, regVars
  <2> QED
    BY <1>5, <2>1 DEF Registrations, Learnt, regVars
<1>8. Loops'
  <2> SUFFICES ASSUME NEW m \in Node
               PROVE /\ rep'[m] = "recv" => serving'[m] = None /\ call'[Serving(m)].pc = "idle"
                     /\ rep'[m] = "handle" => serving'[m] \in Thread
                     /\ call'[Serving(m)].pc # "idle" =>
                           \E x \in Offers[m] : Nested[x] # None /\ call'[Serving(m)].service = Nested[x]
    BY DEF Loops
  <2>1. CASE m # n
    <3>1. rep'[m] = rep[m] /\ serving'[m] = serving[m]
      BY <1>5, <2>1 DEF TypeOK
    <3>2. call'[Serving(m)].service = call[Serving(m)].service
      BY <1>6, ThreadFacts
    <3>3. call'[Serving(m)].pc = "idle" <=> call[Serving(m)].pc = "idle"
      BY <1>1, <1>6, ThreadFacts
    <3> QED
      BY <3>1, <3>2, <3>3 DEF Loops
  <2>2. CASE m = n
    <3>1. rep'[n] = "recv" /\ serving'[n] = None
      BY <1>5 DEF TypeOK
    <3>2. call'[Serving(n)] = call[Serving(n)]
      BY <1>1, <1>6
    <3> QED
      BY <1>1, <2>2, <3>1, <3>2
  <2> QED
    BY <2>1, <2>2
<1>9. RequestsConserved'
  <2>1. \A m \in Node : serving'[m] = IF m = n THEN None ELSE serving[m]
    BY <1>5 DEF TypeOK
  <2>2. \A m \in Node : t \notin inbox[m] /\ (m # n => serving[m] # t)
    BY <1>1 DEF RequestsConserved
  <2>3. \A u \in Thread : u # None
    BY ThreadAssumption
  <2>4. UNCHANGED <<up, inbox>> /\ serving[n] = t
    BY <1>5 DEF t
  <2> QED
    BY <1>1, <1>6, <2>1, <2>2, <2>3, <2>4 DEF RequestsConserved
<1> QED
  BY <1>6, <1>7, <1>8, <1>9

\* A REP socket that owes an answer refuses to receive, and nothing else changes.
LEMMA JamStep ==
    ASSUME IInv, NEW n \in Node, HandlerThrows(n) \/ ReceiveMalformed(n) PROVE IInv'
<1> USE DEF IInv
<1>1. rep' = [rep EXCEPT ![n] = "jammed"] /\ UNCHANGED <<up, regVars, nodes_info, serving, inbox, call>>
  BY DEF HandlerThrows, ReceiveMalformed
<1>2. TypeOK' /\ Registrations' /\ Learnt'
  BY <1>1 DEF TypeOK, Registrations, Learnt, regVars
<1>3. Calls'
  BY <1>1, CallKept DEF Calls, regVars
<1>4. Loops'
  BY <1>1 DEF Loops, TypeOK
<1>5. RequestsConserved'
  BY <1>1, ConservedKept
<1> QED
  BY <1>2, <1>3, <1>4, <1>5

-----------------------------------------------------------------------------
(* The theorems.                                                             *)

\* Every step keeps the invariant.
LEMMA StepIInv == ASSUME IInv, Next PROVE IInv'
<1>1. ASSUME NEW n \in Node,
             \/ \E s \in Service : RegisterHandler(n, s) \/ RemoveHandlers(n, {s})
             \/ RegisterLocalService(n) \/ RemoveHandlers(n, handlers[n]) \/ Crash(n)
      PROVE  IInv'
  BY <1>1, RegistrationStep
<1>2. ASSUME NEW n \in Node, NEW p \in Node, FetchNodeInfo(n, p) \/ Forget(n, p) PROVE IInv'
  BY <1>2, FetchStep, ForgetStep
<1>3. ASSUME NEW n \in Node, NEW t \in inbox[n], RefuseRequest(n, t) \/ StartHandler(n, t) PROVE IInv'
  BY <1>3, RefuseStep, StartStep
<1>4. ASSUME NEW n \in Node, SendResponse(n) \/ HandlerThrows(n) \/ ReceiveMalformed(n) PROVE IInv'
  BY <1>4, ResponseStep, JamStep
<1>5. ASSUME NEW t \in Thread, ClientStep(t) PROVE IInv'
  BY <1>5, ClientLocalStep, ReceiveStep, SendRequestStep DEF ClientStep
<1> QED
  BY <1>1, <1>2, <1>3, <1>4, <1>5, RequestStep DEF Next

\* The invariant holds in every reachable state.
LEMMA Invariance == Spec => []IInv
<1>1. ASSUME IInv, UNCHANGED vars PROVE IInv'
  <2> USE <1>1 DEF IInv, vars, regVars, repVars
  <2>1. TypeOK' /\ Registrations' /\ Learnt'
    BY DEF TypeOK, Registrations, Learnt
  <2>2. Calls'
    BY CallKept DEF Calls
  <2>3. Loops' /\ RequestsConserved'
    BY LoopsKept, ConservedKept
  <2> QED
    BY <2>1, <2>2, <2>3
<1>2. IInv /\ [Next]_vars => IInv'
  BY <1>1, StepIInv
<1> QED
  BY <1>2, InitIInv, PTL DEF Spec

\* Every variable keeps its type.
THEOREM TypeCorrect == Spec => []TypeOK
<1>1. IInv => TypeOK
  BY DEF IInv
<1> QED
  BY <1>1, Invariance, PTL

\* A request is queued or handled, once and by the node it was sent to, as long
\* as its thread waits for the answer.
THEOREM NoRequestLost == Spec => []RequestsConserved
<1>1. IInv => RequestsConserved
  BY DEF IInv
<1> QED
  BY <1>1, Invariance, PTL

\* Only a node that took a handler away answers NOSERVICE: the handler is there
\* before the service is listed, and nobody lists what its node does not.
THEOREM ServicesAreServed == Spec => []ListedIsServed
<1>1. IInv => ListedIsServed
  BY DEF IInv, Calls, Answered, ListedIsServed
<1> QED
  BY <1>1, Invariance, PTL

\* A registry loses services only by eviction or by what a node that took a
\* handler away answers: descriptions of a node never arrive in the wrong order.
THEOREM ServicesStay == Spec => LearntServicesStay
<1> DEFINE Stays == \A n, p \in Node :
                        \/ nodes_info[n][p] \subseteq nodes_info'[n][p]
                        \/ p \in Unhandling
                        \/ Forget(n, p)
<1>1. ASSUME IInv, Next PROVE Stays
  <2> SUFFICES ASSUME nodes_info' # nodes_info PROVE Stays
    OBVIOUS
  <2>1. CASE \E t \in Thread : ReceiveResponse(t)
    <3>1. PICK t \in Thread : ReceiveResponse(t)
      BY <2>1
    <3>2. call[t].service = GetNodeInfo /\ call[t].pc = "answered"
      BY <3>1 DEF ReceiveResponse
    <3>3. nodes_info' = [nodes_info EXCEPT ![HomeOf(t)][call[t].to] = Learning(t)]
      BY <3>1, <3>2 DEF ReceiveResponse, Learning
    <3>4. \/ call[t].to \in Unhandling
          \/ nodes_info[HomeOf(t)][call[t].to] \subseteq Learning(t)
      BY <1>1, <3>2 DEF IInv, Calls, Answered
    <3>5. nodes_info \in [Node -> [Node -> SUBSET Service]]
      BY <1>1 DEF IInv, TypeOK
    <3> QED
      BY <3>3, <3>4, <3>5
  <2>2. CASE \E n, p \in Node : Forget(n, p)
    <3>1. PICK n \in Node, p \in Node : Forget(n, p)
      BY <2>2
    <3>2. nodes_info' = [nodes_info EXCEPT ![n][p] = {}]
      BY <3>1 DEF Forget
    <3>3. nodes_info \in [Node -> [Node -> SUBSET Service]]
      BY <1>1 DEF IInv, TypeOK
    <3>4. ASSUME NEW m \in Node, NEW x \in Node, ~(m = n /\ x = p)
          PROVE  nodes_info'[m][x] = nodes_info[m][x]
      BY <3>2, <3>3, <3>4
    <3> QED
      BY <3>1, <3>4
  <2>3. \/ \E t \in Thread : ReceiveResponse(t)
        \/ \E n, p \in Node : Forget(n, p)
    <3>1. ASSUME NEW n \in Node
          PROVE  /\ \A s \in Service : ~RegisterHandler(n, s) /\ ~RemoveHandlers(n, {s})
                 /\ ~RegisterLocalService(n) /\ ~RemoveHandlers(n, handlers[n]) /\ ~Crash(n)
                 /\ \A p \in Node : ~FetchNodeInfo(n, p)
                 /\ \A t \in inbox[n] : ~RefuseRequest(n, t) /\ ~StartHandler(n, t)
                 /\ ~SendResponse(n) /\ ~HandlerThrows(n) /\ ~ReceiveMalformed(n)
      BY DEF RegisterHandler, RemoveHandlers, RegisterLocalService, Crash, FetchNodeInfo,
             RefuseRequest, StartHandler, SendResponse, HandlerThrows, ReceiveMalformed
    <3>2. ASSUME NEW t \in Thread
          PROVE  ~WaitForService(t) /\ ~NotSent(t) /\ ~DecodeFails(t) /\ \A p \in Node : ~SendRequest(t, p)
      BY DEF WaitForService, NotSent, DecodeFails, SendRequest
    <3>3. \A c \in Caller, s \in Service : ~Request(c, s)
      BY DEF Request
    <3> QED
      BY <1>1, <3>1, <3>2, <3>3 DEF Next, ClientStep
  <2> QED
    BY <2>1, <2>2, <2>3
<1>2. IInv /\ [Next]_vars => [Stays]_vars
  BY <1>1
<1> QED
  BY <1>2, Invariance, PTL DEF Spec, LearntServicesStay

\* Service loops never wait for each other in a circle if the nodes can be given
\* levels such that handlers only call services of lower ones.
THEOREM NoCircle ==
    ASSUME NEW level \in [Node -> Nat], Layered(level)
    PROVE  Spec => []NoCircularWait
<1>1. ASSUME IInv PROVE NoCircularWait
  <2> SUFFICES ASSUME NEW S \in (SUBSET Node) \ {{}}, \A n \in S : \E p \in S : WaitsFor(n, p)
               PROVE  FALSE
    BY DEF NoCircularWait
  <2>1. ASSUME NEW n \in S, NEW p \in S, WaitsFor(n, p) PROVE level[p] < level[n]
    <3>1. call[Serving(n)].pc = "sent" /\ call[Serving(n)].to = p /\ Serving(n) \in Thread
      BY <2>1, ThreadFacts DEF WaitsFor
    <3>2. PICK s \in Offers[n] : Nested[s] # None /\ call[Serving(n)].service = Nested[s]
      BY <1>1, <3>1 DEF IInv, Loops
    <3>3. call[Serving(n)].service \in services[p] \cup {GetNodeInfo}
      BY <1>1, <3>1 DEF IInv, Calls, Addressed
    <3>4. Nested[s] # GetNodeInfo
      BY <3>2, OfferAssumption, NestedAssumption, NameAssumption
    <3>5. Nested[s] \in Offers[p]
      BY <1>1, <3>2, <3>3, <3>4 DEF IInv, Registrations
    <3> QED
      BY <3>2, <3>5 DEF Layered
  <2> DEFINE f == [x \in S |-> level[x]]
  <2>2. f \in [S -> Nat] /\ S # {}
    OBVIOUS
  <2>3. PICK x \in S : \A y \in S : ~(f[y] < f[x])
    BY <2>2, LeastLevel
  <2> QED
    BY <2>1, <2>3
<1> QED
  BY <1>1, Invariance, PTL
=============================================================================
