------------------------------ MODULE TaskPool ------------------------------
(* What the thread pool promises, without threads, locks or condition        *)
(* variables: tasks begin in the order in which they were submitted, each    *)
(* once and at most Size at a time, and wait() returns when all that had     *)
(* been submitted before it was called has finished.                         *)
EXTENDS Naturals, Sequences, FiniteSets

CONSTANTS
    Task,    \* what can be submitted, each once
    Client,  \* who may call wait()
    Size     \* tasks that are executed at a time

VARIABLES
    queue,     \* submitted tasks that have not begun
    running,   \* tasks that are executed
    finished,  \* tasks that have ended
    waiting,   \* clients in wait()
    due        \* due[c]: what was submitted when c, which is in wait(), called it

Submitted == {queue[i] : i \in 1 .. Len(queue)} \cup running \cup finished

Init ==
    /\ queue = <<>> /\ running = {} /\ finished = {}
    /\ waiting = {} /\ due = [c \in Client |-> {}]

Submit(t) ==
    /\ t \notin Submitted
    /\ queue' = Append(queue, t)
    /\ UNCHANGED <<running, finished, waiting, due>>

Begin ==
    /\ queue # <<>> /\ Cardinality(running) < Size
    /\ running' = running \cup {Head(queue)}
    /\ queue' = Tail(queue)
    /\ UNCHANGED <<finished, waiting, due>>

End(t) ==
    /\ t \in running
    /\ running' = running \ {t}
    /\ finished' = finished \cup {t}
    /\ UNCHANGED <<queue, waiting, due>>

CallWait(c) ==
    /\ c \notin waiting
    /\ waiting' = waiting \cup {c}
    /\ due' = [due EXCEPT ![c] = Submitted]
    /\ UNCHANGED <<queue, running, finished>>

ReturnFromWait(c) ==
    /\ c \in waiting /\ due[c] \subseteq finished
    /\ waiting' = waiting \ {c}
    /\ due' = [due EXCEPT ![c] = {}]
    /\ UNCHANGED <<queue, running, finished>>

Next ==
    \/ \E t \in Task : Submit(t) \/ End(t)
    \/ Begin
    \/ \E c \in Client : CallWait(c) \/ ReturnFromWait(c)

Spec == Init /\ [][Next]_<<queue, running, finished, waiting, due>>
=============================================================================
