----------------------------- MODULE ServiceRpc -----------------------------
(* Service calls: registerServiceHandler, the REP loop of ServiceManager,    *)
(* the blocking Client behind request() and behind the fetch of a peer's     *)
(* description, waitForService, and the part of the registry that resolves   *)
(* a service name.                                                           *)
(*                                                                           *)
(* A call has a REQ socket of its own, so at most one request of a thread is *)
(* on its way.  The REP socket of a node answers one request before it takes *)
(* the next; its handlers run on the service loop and may make calls, too.   *)
EXTENDS Integers, Sequences, FiniteSets

CONSTANTS
    Node,            \* node identities
    Service,         \* names of application services
    GetNodeInfo,     \* "get_node_info", registered by ZeroLanComNode itself
    None,            \* no service, no node
    Caller,          \* application threads that call services
    Home,            \* Home[c]: the node an application thread belongs to
    Offers,          \* Offers[n]: the services the application of n registers
    Nested,          \* Nested[s]: the service a handler of s calls, or None
    Fetches,         \* <<n, p>>: n gets heartbeats of p
    MaxWait,         \* max_wait_ms of waitForService
    CheckInterval,   \* check_interval_ms of waitForService
    Crashable,       \* nodes that may crash
    Unhandling,      \* nodes whose application removes handlers
    Exposed          \* nodes whose handlers throw anything, to which other programs send

ASSUME NameAssumption ==
    GetNodeInfo \notin Service /\ None \notin Service /\ None \notin Node /\ None # GetNodeInfo
ASSUME HomeAssumption == Home \in [Caller -> Node]
ASSUME OfferAssumption == Offers \in [Node -> SUBSET Service]
ASSUME NestedAssumption == Nested \in [Service -> Service \cup {None}]
ASSUME FetchAssumption == Fetches \subseteq Node \X Node /\ \A n \in Node : <<n, n>> \notin Fetches
ASSUME WaitAssumption == MaxWait \in Nat /\ CheckInterval \in Nat \ {0}

\* The threads that make calls: application threads, the service loop of a
\* node (inside a handler) and its receive loop (inside processHeartbeat).
Serving(n)   == <<"service loop", n>>
Receiving(n) == <<"receive loop", n>>
App(c)       == <<"application", c>>
Thread == {Serving(n) : n \in Node} \cup {Receiving(n) : n \in Node} \cup {App(c) : c \in Caller}

ASSUME ThreadAssumption == None \notin Thread

HomeOf(t) == IF t[1] = "application" THEN Home[t[2]] ELSE t[2]

Status == {"SUCCESS", "NOSERVICE", "INVALID_RESPONSE", "INVALID_REQUEST", "SERVICE_FAIL"}

\* A payload: no bytes, or the one value that was encoded, here a set of
\* service names (the services of a NodeInfo; {s} for what a handler of s
\* returns).
Payload == {<<>>} \cup {<<v>> : v \in SUBSET Service}
Response == [code : Status, payload : Payload]
NoResponse == [code |-> "SUCCESS", payload |-> <<>>]

Call == [pc : {"idle", "wait", "lookup", "sent", "answered"},
         service : Service \cup {GetNodeInfo, None},
         waited_ms : 0 .. (MaxWait + CheckInterval),
         to : Node \cup {None},
         response : Response]
Idle == [pc |-> "idle", service |-> None, waited_ms |-> 0, to |-> None, response |-> NoResponse]

VARIABLES
    up,          \* the processes that run
    handlers,    \* handlers_ of each node: the names in it
    registered,  \* the service between the two halves of registerServiceHandler
    services,    \* localNodeInfo_.services of each node
    nodes_info,  \* nodes_info[n][p]: the services n's registry lists for p
    rep,         \* the service loop: "recv", "handle" or "jammed"
    serving,     \* the thread whose request it handles
    inbox,       \* inbox[n]: the threads whose requests wait at the REP socket
    call         \* the call each thread makes

regVars == <<handlers, registered, services>>
repVars == <<rep, serving, inbox>>
vars == <<up, regVars, nodes_info, repVars, call>>

-----------------------------------------------------------------------------
(* Registration.                                                             *)

\* A slip: the service is listed before its handler exists.
ListBeforeHandler(n, s) ==
    /\ up[n] /\ registered[n] = None
    /\ s \in Offers[n]
    /\ services' = [services EXCEPT ![n] = @ \cup {s}]
    /\ registered' = [registered EXCEPT ![n] = s]
    /\ UNCHANGED <<up, handlers, nodes_info, repVars, call>>

\* registerHandler, the first half of registerServiceHandler.
RegisterHandler(n, s) ==
    /\ up[n] /\ registered[n] = None
    /\ s \in Offers[n]
    /\ handlers' = [handlers EXCEPT ![n] = @ \cup {s}]
    /\ registered' = [registered EXCEPT ![n] = s]
    /\ UNCHANGED <<up, services, nodes_info, repVars, call>>

\* registerLocalService, the second half.
RegisterLocalService(n) ==
    /\ up[n] /\ registered[n] # None
    /\ services' = [services EXCEPT ![n] = @ \cup {registered[n]}]
    /\ registered' = [registered EXCEPT ![n] = None]
    /\ UNCHANGED <<up, handlers, nodes_info, repVars, call>>

\* removeHandler, and clearHandlers, which takes get_node_info away as well.
\* Neither withdraws the service from the node's own info.
RemoveHandlers(n, names) ==
    /\ up[n] /\ n \in Unhandling
    /\ handlers[n] \cap names # {}
    /\ handlers' = [handlers EXCEPT ![n] = @ \ names]
    /\ UNCHANGED <<up, registered, services, nodes_info, repVars, call>>

Crash(n) ==
    /\ up[n] /\ n \in Crashable
    /\ up' = [up EXCEPT ![n] = FALSE]
    /\ UNCHANGED <<regVars, nodes_info, repVars, call>>

-----------------------------------------------------------------------------
(* The client.                                                               *)

\* A slip: the names are not compared.
GetServiceInfoUnnamed(n, s) ==
    LET remote == {p \in Node : nodes_info[n][p] # {}}
    IN  IF remote # {} THEN remote ELSE {m \in {n} : services[n] # {}}

\* getServiceInfo: an entry of some remote node, else one of the node itself.
GetServiceInfo(n, s) ==
    LET remote == {p \in Node : s \in nodes_info[n][p]}
    IN  IF remote # {} THEN remote ELSE {m \in {n} : s \in services[n]}

\* request() begins with waitForService.
Waiting(s) == [Idle EXCEPT !.pc = "wait", !.service = s]

Request(c, s) ==
    /\ up[Home[c]] /\ call[App(c)].pc = "idle"
    /\ call' = [call EXCEPT ![App(c)] = Waiting(s)]
    /\ UNCHANGED <<up, regVars, nodes_info, repVars>>

\* A slip: the loop of waitForService ends with the service or not at all.
WaitForServiceForEver(t) ==
    /\ up[HomeOf(t)] /\ call[t].pc = "wait"
    /\ GetServiceInfo(HomeOf(t), call[t].service) # {}
    /\ call' = [call EXCEPT ![t].pc = "lookup"]
    /\ UNCHANGED <<up, regVars, nodes_info, repVars>>

\* A slip: the time is counted but not compared.
WaitForServiceUncompared(t) ==
    /\ up[HomeOf(t)] /\ call[t].pc = "wait"
    /\ \/ /\ GetServiceInfo(HomeOf(t), call[t].service) # {}
          /\ call' = [call EXCEPT ![t].pc = "lookup"]
       \/ /\ GetServiceInfo(HomeOf(t), call[t].service) = {}
          /\ call' = [call EXCEPT ![t].waited_ms = @ + CheckInterval]
    /\ UNCHANGED <<up, regVars, nodes_info, repVars>>

\* One round of waitForService.  Found or not in the end, request() goes on.
WaitForService(t) ==
    /\ up[HomeOf(t)] /\ call[t].pc = "wait"
    /\ \/ /\ \/ GetServiceInfo(HomeOf(t), call[t].service) # {}
             \/ call[t].waited_ms >= MaxWait
          /\ call' = [call EXCEPT ![t].pc = "lookup"]
       \/ /\ GetServiceInfo(HomeOf(t), call[t].service) = {}
          /\ call[t].waited_ms < MaxWait
          /\ call' = [call EXCEPT ![t].waited_ms = @ + CheckInterval]
    /\ UNCHANGED <<up, regVars, nodes_info, repVars>>

\* zlcRequest: the request goes to the REP socket of the node that is listed.
SendRequest(t, p) ==
    /\ up[HomeOf(t)] /\ call[t].pc = "lookup"
    /\ p \in GetServiceInfo(HomeOf(t), call[t].service)
    /\ call' = [call EXCEPT ![t].pc = "sent", ![t].to = p]
    /\ inbox' = [inbox EXCEPT ![p] = @ \cup {t}]
    /\ UNCHANGED <<up, regVars, nodes_info, rep, serving>>

\* zlcRequest returns without a request: the service is not available (any
\* more), or the request does not encode.
NotSent(t) ==
    /\ up[HomeOf(t)] /\ call[t].pc = "lookup"
    /\ call' = [call EXCEPT ![t] = Idle]
    /\ UNCHANGED <<up, regVars, nodes_info, repVars>>

\* fetchNodeInfo: the same call to the address a heartbeat came from.
FetchNodeInfo(n, p) ==
    /\ up[n] /\ <<n, p>> \in Fetches
    /\ call[Receiving(n)].pc = "idle"
    /\ call' = [call EXCEPT ![Receiving(n)] =
           [Idle EXCEPT !.pc = "sent", !.service = GetNodeInfo, !.to = p]]
    /\ inbox' = [inbox EXCEPT ![p] = @ \cup {Receiving(n)}]
    /\ UNCHANGED <<up, regVars, nodes_info, rep, serving>>

\* receiveResponse and decode.  The status frame is not looked at; an empty
\* payload leaves the response as it was, which for a fetch is a NodeInfo
\* without entries.
ReceiveResponse(t) ==
    /\ up[HomeOf(t)] /\ call[t].pc = "answered"
    /\ nodes_info' = IF call[t].service # GetNodeInfo THEN nodes_info
                     ELSE [nodes_info EXCEPT ![HomeOf(t)][call[t].to] =
                              UNION {call[t].response.payload[i] : i \in DOMAIN call[t].response.payload}]
    /\ call' = [call EXCEPT ![t] = Idle]
    /\ UNCHANGED <<up, regVars, repVars>>

\* The payload does not decode: the exception ends the call.
DecodeFails(t) ==
    /\ up[HomeOf(t)] /\ call[t].pc = "answered"
    /\ call[t].response.payload # <<>>
    /\ call' = [call EXCEPT ![t] = Idle]
    /\ UNCHANGED <<up, regVars, nodes_info, repVars>>

\* checkHeartbeats evicts p.
Forget(n, p) ==
    /\ up[n] /\ nodes_info[n][p] # {}
    /\ call[Receiving(n)].pc = "idle"
    /\ nodes_info' = [nodes_info EXCEPT ![n][p] = {}]
    /\ UNCHANGED <<up, regVars, repVars, call>>

-----------------------------------------------------------------------------
(* The service loop: ServiceManager::pollOnce.                               *)

\* The answer travels to the thread that waits for it, if it still exists.
Answer(calls, t, response) ==
    IF up[HomeOf(t)] THEN [calls EXCEPT ![t].pc = "answered", ![t].response = response]
    ELSE calls

\* A slip: the loop ends its round without an answer.
DropRequest(n, t) ==
    /\ up[n] /\ rep[n] = "recv" /\ t \in inbox[n]
    /\ call[t].service \notin handlers[n]
    /\ inbox' = [inbox EXCEPT ![n] = @ \ {t}]
    /\ UNCHANGED <<up, regVars, nodes_info, rep, serving, call>>

\* The two frames of a request are read and no handler has the name: NOSERVICE.
RefuseRequest(n, t) ==
    /\ up[n] /\ rep[n] = "recv" /\ t \in inbox[n]
    /\ call[t].service \notin handlers[n]
    /\ inbox' = [inbox EXCEPT ![n] = @ \ {t}]
    /\ call' = Answer(call, t, [code |-> "NOSERVICE", payload |-> <<>>])
    /\ UNCHANGED <<up, regVars, nodes_info, rep, serving>>

\* A handler has the name: it is called, and makes a call itself if Nested.
StartHandler(n, t) ==
    /\ up[n] /\ rep[n] = "recv" /\ t \in inbox[n]
    /\ call[t].service \in handlers[n]
    /\ inbox' = [inbox EXCEPT ![n] = @ \ {t}]
    /\ rep' = [rep EXCEPT ![n] = "handle"]
    /\ serving' = [serving EXCEPT ![n] = t]
    /\ call' = IF call[t].service = GetNodeInfo \/ Nested[call[t].service] = None THEN call
               ELSE [call EXCEPT ![Serving(n)] = Waiting(Nested[call[t].service])]
    /\ UNCHANGED <<up, regVars, nodes_info>>

\* A slip: get_node_info fails as application services do.
OutcomesAlike(n, s) ==
    {[code |-> "SUCCESS", payload |-> <<IF s = GetNodeInfo THEN services[n] ELSE {s}>>],
     [code |-> "SERVICE_FAIL", payload |-> <<>>]}

\* What handleRequest makes of the outcome of a handler of s: the value, or an
\* empty payload and a code for DecodeException, EncodeException or another
\* std::exception.
Outcomes(n, s) ==
    IF s = GetNodeInfo THEN {[code |-> "SUCCESS", payload |-> <<services[n]>>]}
    ELSE {[code |-> "SUCCESS", payload |-> <<{s}>>]}
            \cup {[code |-> c, payload |-> <<>>] :
                     c \in {"INVALID_RESPONSE", "INVALID_REQUEST", "SERVICE_FAIL"}}

\* The handler has returned or thrown a std::exception: the answer is sent.
SendResponse(n) ==
    /\ up[n] /\ rep[n] = "handle" /\ call[Serving(n)].pc = "idle"
    /\ \E response \in Outcomes(n, call[serving[n]].service) :
          call' = Answer(call, serving[n], response)
    /\ rep' = [rep EXCEPT ![n] = "recv"]
    /\ serving' = [serving EXCEPT ![n] = None]
    /\ UNCHANGED <<up, regVars, nodes_info, inbox>>

\* The handler has thrown something else: pollOnce ends without an answer and
\* the REP socket, which owes one, refuses to receive from then on.
HandlerThrows(n) ==
    /\ up[n] /\ rep[n] = "handle" /\ call[Serving(n)].pc = "idle"
    /\ call[serving[n]].service # GetNodeInfo
    /\ n \in Exposed
    /\ rep' = [rep EXCEPT ![n] = "jammed"]
    /\ UNCHANGED <<up, regVars, nodes_info, serving, inbox, call>>

\* A message of another program without a payload frame: pollOnce ends with the
\* same result.
ReceiveMalformed(n) ==
    /\ up[n] /\ rep[n] = "recv" /\ n \in Exposed
    /\ rep' = [rep EXCEPT ![n] = "jammed"]
    /\ UNCHANGED <<up, regVars, nodes_info, serving, inbox, call>>

-----------------------------------------------------------------------------
Init ==
    /\ up = [n \in Node |-> TRUE]
    /\ handlers = [n \in Node |-> {GetNodeInfo}]
    /\ registered = [n \in Node |-> None]
    /\ services = [n \in Node |-> {}]
    /\ nodes_info = [n \in Node |-> [p \in Node |-> {}]]
    /\ rep = [n \in Node |-> "recv"]
    /\ serving = [n \in Node |-> None]
    /\ inbox = [n \in Node |-> {}]
    /\ call = [t \in Thread |-> Idle]

ClientStep(t) ==
    \/ WaitForService(t) \/ NotSent(t) \/ ReceiveResponse(t) \/ DecodeFails(t)
    \/ \E p \in Node : SendRequest(t, p)

Next ==
    \/ \E n \in Node :
          \/ \E s \in Service : RegisterHandler(n, s) \/ RemoveHandlers(n, {s})
          \/ RegisterLocalService(n) \/ RemoveHandlers(n, handlers[n]) \/ Crash(n)
          \/ \E p \in Node : FetchNodeInfo(n, p) \/ Forget(n, p)
          \/ \E t \in inbox[n] : RefuseRequest(n, t) \/ StartHandler(n, t)
          \/ SendResponse(n) \/ HandlerThrows(n) \/ ReceiveMalformed(n)
    \/ \E c \in Caller, s \in Service : Request(c, s)
    \/ \E t \in Thread : ClientStep(t)

Spec == Init /\ [][Next]_vars

\* The threads of running nodes that make calls keep running, and handlers end;
\* a REP socket takes the waiting requests in turn, so that none waits for ever
\* at a loop that goes on receiving.  Nothing is fair about registering,
\* fetching, forgetting, failing or calling.
Fairness ==
    /\ \A n \in Node : WF_vars(SendResponse(n))
    /\ \A t \in {App(c) : c \in Caller} \cup {Serving(n) : n \in Node} :
          /\ WF_vars(ClientStep(t))
          /\ SF_vars(\E n \in Node : RefuseRequest(n, t) \/ StartHandler(n, t))

FairSpec == Spec /\ Fairness

-----------------------------------------------------------------------------
(* Properties.                                                               *)

\* Every variable has the type its declaration in the code gives it.
TypeOK ==
    /\ up \in [Node -> BOOLEAN]
    /\ handlers \in [Node -> SUBSET (Service \cup {GetNodeInfo})]
    /\ registered \in [Node -> Service \cup {None}]
    /\ services \in [Node -> SUBSET Service]
    /\ nodes_info \in [Node -> [Node -> SUBSET Service]]
    /\ rep \in [Node -> {"recv", "handle", "jammed"}]
    /\ serving \in [Node -> Thread \cup {None}]
    /\ inbox \in [Node -> SUBSET Thread]
    /\ call \in [Thread -> Call]

\* No request is lost, served twice or answered by another node: a thread that
\* waits for an answer has its request either in the queue or in the hands of
\* the node it was sent to, and what a node queues or handles is a request
\* somebody sent to it and is still waiting for (also if that somebody died).
RequestsConserved ==
    \A t \in Thread, n \in Node :
        /\ (t \in inbox[n] \/ serving[n] = t) => (call[t].pc = "sent" /\ call[t].to = n)
        /\ ~(t \in inbox[n] /\ serving[n] = t)
        /\ (call[t].pc = "sent" /\ call[t].to = n /\ up[HomeOf(t)])
               => (t \in inbox[n] \/ serving[n] = t)

\* A service that a registry lists is there: NOSERVICE is the answer of a node
\* that took a handler away, never of one that is just registering it or is
\* just starting.
ListedIsServed ==
    \A t \in Thread :
        (call[t].pc = "answered" /\ call[t].response.code = "NOSERVICE") => call[t].to \in Unhandling

\* The service loop of n waits for the service loop of p.
WaitsFor(n, p) == call[Serving(n)].pc = "sent" /\ call[Serving(n)].to = p

\* Levels of the nodes such that handlers only call services that nodes of a
\* lower level offer.
Layered(level) ==
    \A n, p \in Node : \A s \in Offers[n] : Nested[s] \in Offers[p] => level[p] < level[n]

\* There is no circle of service loops that wait for each other, nor a loop
\* that waits for itself, as long as handlers only call services of nodes
\* whose own handlers do not call back.
NoCircularWait ==
    ~ \E S \in (SUBSET Node) \ {{}} : \A n \in S : \E p \in S : WaitsFor(n, p)

\* The fetch of a description that fails at the peer returns an empty one,
\* which is stored.  A registry loses services it has learnt only in this way,
\* from a peer without get_node_info, or by eviction.
LearntServicesStay ==
    [][\A n, p \in Node :
          \/ nodes_info[n][p] \subseteq nodes_info'[n][p]
          \/ p \in Unhandling
          \/ Forget(n, p)]_vars

\* The nodes that never answer again, and those whose loop waits for one.
HeldUp ==
    LET After[k \in Nat] ==
            IF k = 0 THEN {n \in Node : ~up[n] \/ rep[n] = "jammed"}
            ELSE After[k - 1] \cup {n \in Node : \E p \in After[k - 1] : WaitsFor(n, p)}
    IN  After[Cardinality(Node)]

\* request() returns, with or without an answer, whether the service exists or
\* not, unless the caller's process ends or the node it asked is held up: by
\* its end, by an exception that left its REP socket owing an answer, or by
\* waiting for such a node.
RequestsReturn ==
    \A c \in Caller :
        (call[App(c)].pc # "idle")
            ~> \/ call[App(c)].pc = "idle"
               \/ ~up[Home[c]]
               \/ call[App(c)].to \in HeldUp
=============================================================================
