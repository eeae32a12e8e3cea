---------------------------- MODULE MCHeartbeat -----------------------------
(* A small instance of HeartbeatChannel for TLC: bytes are bits, integers    *)
(* have two of them (0, 1, -2, -1), an id two, and a group name that fits    *)
(* the buffer at most two.                                                   *)
EXTENDS HeartbeatChannel

CONSTANTS o, p, q, z  \* the observer, two companions, a stranger

MCNodeID == [n \in Sender |-> CASE n = o -> <<0, 0>> [] n = p -> <<0, 1>> [] OTHER -> <<1, 0>>]
\* o and p run on one host, the others on a second one.
MCIp == [n \in Sender |-> IF n \in {o, p} THEN <<192, 168, 1, 7>> ELSE <<192, 168, 1, 8>>]
MCServicePort == [n \in Sender |-> IF n \in {o, q} THEN 1 ELSE 0]
\* The name of the group just fits.
MCGroupName == [n \in Sender |-> <<1, 0>>]
\* Too short for a heartbeat; of a group whose name does not fit; of a group
\* whose name begins the own one.
MCForeign ==
    {<<1, 0, 1>>} \cup
    {Encode([zlc_version |-> <<0, 1, 0>>, node_id |-> <<1, 1>>, info_id |-> 0,
             service_port |-> 0, group_name |-> name]) : name \in {<<1, 1, 0>>, <<1>>}}

\* The hypotheses of the theorems hold here, Schedulable with nothing to spare.
ASSUME HypothesesHold ==
    ForeignIgnored /\ (\A n \in Sender \ Stranger : NameFits(n)) /\ Schedulable
=============================================================================
