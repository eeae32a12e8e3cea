---------------------------- MODULE MCDiscovery -----------------------------
(* Small instances of Discovery for TLC.                                     *)
EXTENDS Discovery

CONSTANTS a, b, c  \* three nodes

\* a and b share a group; c is configured with another one.
TwoGroups == [n \in Node |-> IF n = c THEN "other" ELSE "zlc_default_group_name"]
OneGroup  == [n \in Node |-> "zlc_default_group_name"]
OneSubnet == [n \in Node |-> "192.168.1"]

\* The observed node registers one thing, its peer two.
PeerTwice == [n \in Node |-> IF n = a THEN 1 ELSE IF n = b THEN 2 ELSE 0]
\* Only the peer that does not crash registers something.
SurvivorOnce == [n \in Node |-> IF n = c THEN 1 ELSE 0]
Nothing == [n \in Node |-> 0]
=============================================================================
