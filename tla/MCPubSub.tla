------------------------------ MODULE MCPubSub ------------------------------
(* A small instance of PubSub for TLC.                                       *)
EXTENDS PubSub

CONSTANTS p1, p2, p3  \* publishers

\* Two subscribers; the first has two publishers, the second has one.
MCSubTopic == <<"pose", "map">>
MCPubTopic == [x \in Publisher |-> IF x = p3 THEN "map" ELSE "pose"]
\* p1 never stops, and p3 may overtake its subscriber.
MCMaxSent == [x \in Publisher |-> IF x = p3 THEN 3 ELSE IF x = p2 THEN 1 ELSE 0]
=============================================================================
