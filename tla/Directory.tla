----------------------------- MODULE Directory ------------------------------
(* What discovery promises, without heartbeats, datagrams, fetches or        *)
(* timers.  Every node publishes a growing description of itself, and keeps  *)
(* a view of the nodes of its own group and subnet.  A view holds versions   *)
(* that were really published, is replaced by newer versions only, and may   *)
(* drop any peers at any time.                                               *)
EXTENDS NodeInfo

CONSTANT Permitted  \* the pairs <<n, p>> for which n may learn about p

VARIABLES
    published,  \* published[n]: the description node n gives of itself
    view        \* view[n][p]: what n believes about p, or Absent

Init ==
    /\ published = [n \in Node |-> NewNodeInfo(n)]
    /\ view = [n \in Node |-> [p \in Node |-> Absent]]

\* n adds a topic or a service.
Publish(n) ==
    /\ Older(published[n], published'[n])
    /\ published[n].infoID < published'[n].infoID
    /\ \A m \in Node \ {n} : published'[m] = published[m]
    /\ view' = view

\* n takes over some version of p's description, never an older one than it has.
Learn(n, p) ==
    /\ <<n, p>> \in Permitted
    /\ view'[n][p] # Absent
    /\ Older(view'[n][p], published[p])
    /\ view[n][p] # Absent => Older(view[n][p], view'[n][p])
    /\ \A q \in Node \ {p} : view'[n][q] = view[n][q]
    /\ \A m \in Node \ {n} : view'[m] = view[m]
    /\ published' = published

\* n drops some of its peers.
Forget(n) ==
    /\ \A p \in Node : view'[n][p] \in {view[n][p], Absent}
    /\ \A m \in Node \ {n} : view'[m] = view[m]
    /\ published' = published

Next == \E n \in Node : Publish(n) \/ Forget(n) \/ \E p \in Node : Learn(n, p)

Spec == Init /\ [][Next]_<<published, view>>
=============================================================================
