---------------------------- MODULE MCNodeLocks -----------------------------
(* The threads of one node, for TLC.                                         *)
EXTENDS NodeLocks

\* The loops that serve the other nodes, while none of them falls silent.
Loops ==
    [receiver |-> {"ProcessHeartbeat", "ProcessAndFetch", "CheckHeartbeats"},
     sender   |-> {"CreateHeartbeat"},
     services |-> {"HandleRequest"},
     poller   |-> {"PollSubscribers"}]

Registrations == {"RegisterSubscriber", "RegisterTopic", "RegisterService"}

\* Every application thread makes all registrations and calls services.
Applications ==
    [t \in Thread |-> IF t \in DOMAIN Loops THEN Loops[t] ELSE Registrations \cup {"Request"}]

\* Nodes fall silent and are removed, and the application also calls services.
WithRemoval ==
    [t \in Thread |-> IF t = "receiver" THEN Loops[t] \cup {"CheckAndRemove"}
                      ELSE IF t \in DOMAIN Loops THEN Loops[t] ELSE Registrations \cup {"Request"}]
=============================================================================
