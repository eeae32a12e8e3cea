---------------------------- MODULE MCServiceRpc ----------------------------
(* A small instance of ServiceRpc for TLC.                                   *)
EXTENDS ServiceRpc

CONSTANTS a, b, x, y  \* nodes and application threads

\* x belongs to b, y to a.
MCHome == [c \in Caller |-> IF c = x THEN b ELSE a]
\* a offers a service whose handler calls the one that b offers.
MCOffers == [n \in Node |-> IF n = a THEN {"relay"} ELSE {"echo"}]
MCNested == [s \in Service |-> IF s = "relay" THEN "echo" ELSE None]
MCFetches == {<<a, b>>, <<b, a>>}

ASSUME LevelAssumption == Layered([n \in Node |-> IF n = a THEN 1 ELSE 0])
=============================================================================
