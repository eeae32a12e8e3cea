------------------------------- MODULE PubSub -------------------------------
(* Messages: Publisher::publish, the queues of the SUB sockets, the events   *)
(* that connect and disconnect them, and the poll loop of SubscriberManager, *)
(* which in every round takes one message of each socket that is ready and   *)
(* calls the callback in its own thread.                                     *)
(*                                                                           *)
(* A subscriber is its position in subscribers_, a publisher its URL, and a  *)
(* message its number among those of its publisher, or 0 if that publisher   *)
(* never stops and its messages are not counted.  ZeroMQ is external: a      *)
(* connection carries messages from the moment the subscription reaches the  *)
(* publisher, in order, up to a high-water mark, and disconnect() discards   *)
(* what is queued.  Its sockets are not thread-safe: the model takes each of *)
(* their operations for atomic although two loops use them.                  *)
EXTENDS Integers, Sequences

CONSTANTS
    Publisher,     \* publishers of the network
    SubTopic,      \* SubTopic[i]: the topic of the i-th subscriber registered
    PubTopic,      \* PubTopic[p]: the topic of a publisher
    HWM,           \* messages a connection holds
    Busy,          \* publishers that may publish for ever
    MaxSent,       \* bound: MaxSent[p] messages of every other publisher p
    MaxRemovals    \* bound: evictions of publishers

ASSUME HWMAssumption == HWM \in Nat \ {0}
ASSUME SubscriberAssumption == Len(SubTopic) \in Nat /\ DOMAIN SubTopic = 1 .. Len(SubTopic)
ASSUME BoundAssumption ==
    Busy \subseteq Publisher /\ MaxSent \in [Publisher -> Nat] /\ MaxRemovals \in Nat

Subscriber == DOMAIN SubTopic

VARIABLES
    sent,       \* messages published so far, where they are counted
    count,      \* subscribers_.size()
    listed,     \* publishers that the registry lists
    urls,       \* publisherURLs of each subscriber
    joined,     \* the connections that carry messages
    queue,      \* queue[i][p]: the messages of p waiting in socket i
    last,       \* last[i][p]: the message of p handed to callback i last
    overflow,   \* connections that reached the high-water mark
    pc,         \* the poll loop: "sleep", "poll" or "scan"
    subs,       \* how many subscribers the round has seen
    ready,      \* poll items with ZMQ_POLLIN that are still to be read
    emptied,    \* sockets that lost a connection since the poll
    removals

sockets == <<urls, joined, queue, last, overflow>>
loop == <<pc, subs, ready>>
vars == <<sent, count, listed, sockets, loop, emptied, removals>>

Matches(i, p) == SubTopic[i] = PubTopic[p]

\* The connections there may be.
Link == {c \in Subscriber \X Publisher : Matches(c[1], c[2])}

-----------------------------------------------------------------------------
\* The next message of p, and how many p has sent then.
NextMessage(p) == IF p \in Busy THEN 0 ELSE sent[p] + 1
Sent(p) == IF p \in Busy THEN sent ELSE [sent EXCEPT ![p] = @ + 1]

\* A slip: no high-water mark.
PublishUnlimited(p) ==
    /\ p \in Busy \/ sent[p] < MaxSent[p]
    /\ sent' = Sent(p)
    /\ queue' = [i \in Subscriber |-> [queue[i] EXCEPT ![p] =
           IF p \in joined[i] THEN Append(@, NextMessage(p)) ELSE @]]
    /\ UNCHANGED <<count, listed, urls, joined, last, overflow, loop, emptied, removals>>

\* Publisher::publish: a copy for every connection, none for a full one.
Publish(p) ==
    /\ p \in Busy \/ sent[p] < MaxSent[p]
    /\ sent' = Sent(p)
    /\ queue' = [i \in Subscriber |-> [queue[i] EXCEPT ![p] =
           IF p \in joined[i] /\ Len(@) < HWM THEN Append(@, NextMessage(p)) ELSE @]]
    /\ overflow' = [i \in Subscriber |->
           IF p \in joined[i] /\ Len(queue[i][p]) >= HWM THEN overflow[i] \cup {p} ELSE overflow[i]]
    /\ UNCHANGED <<count, listed, urls, joined, last, loop, emptied, removals>>

\* _registerTopicSubscriber: a socket connected to what the registry lists.
RegisterTopicSubscriber ==
    /\ count + 1 \in Subscriber
    /\ count' = count + 1
    /\ urls' = [urls EXCEPT ![count + 1] = {p \in listed : Matches(count + 1, p)}]
    /\ UNCHANGED <<sent, listed, joined, queue, last, overflow, loop, emptied, removals>>

\* The update event: updateTopicSubscriber connects the registered subscribers.
UpdateTopicSubscriber(p) ==
    /\ p \notin listed
    /\ listed' = listed \cup {p}
    /\ urls' = [i \in Subscriber |-> IF i <= count /\ Matches(i, p) THEN urls[i] \cup {p} ELSE urls[i]]
    /\ UNCHANGED <<sent, count, joined, queue, last, overflow, loop, emptied, removals>>

\* The subscription of socket i reaches publisher p.  What p sent before is
\* not for i.
Join(i, p) ==
    /\ p \in urls[i] \ joined[i]
    /\ joined' = [joined EXCEPT ![i] = @ \cup {p}]
    /\ last' = [last EXCEPT ![i][p] = sent[p]]
    /\ overflow' = [overflow EXCEPT ![i] = @ \ {p}]
    /\ UNCHANGED <<sent, count, listed, urls, queue, loop, emptied, removals>>

\* The remove event: removeTopicSubscriber disconnects.
RemoveTopicSubscriber(p) ==
    /\ p \in listed /\ removals < MaxRemovals
    /\ removals' = removals + 1
    /\ listed' = listed \ {p}
    /\ urls' = [i \in Subscriber |-> urls[i] \ {p}]
    /\ joined' = [i \in Subscriber |-> joined[i] \ {p}]
    /\ queue' = [i \in Subscriber |-> [queue[i] EXCEPT ![p] = <<>>]]
    /\ emptied' = emptied \cup {i \in Subscriber : p \in joined[i]}
    /\ UNCHANGED <<sent, count, last, overflow, loop>>

-----------------------------------------------------------------------------
(* SubscriberManager::pollOnce.                                              *)

\* A slip: the subscriber registered last is left out.
CollectAllButLast ==
    /\ pc = "sleep"
    /\ subs' = IF count = 0 THEN 0 ELSE count - 1
    /\ pc' = "poll"
    /\ UNCHANGED <<sent, count, listed, sockets, ready, emptied, removals>>

\* The sockets are collected under mutex_.
Collect ==
    /\ pc = "sleep"
    /\ subs' = count
    /\ pc' = "poll"
    /\ UNCHANGED <<sent, count, listed, sockets, ready, emptied, removals>>

\* zmq::poll returns.
Poll ==
    /\ pc = "poll"
    /\ ready' = {i \in 1 .. subs : \E p \in Publisher : queue[i][p] # <<>>}
    /\ pc' = IF ready' = {} THEN "sleep" ELSE "scan"
    /\ emptied' = {}
    /\ UNCHANGED <<sent, count, listed, sockets, subs, removals>>

\* The poll item that is read next: they are gone through in order.
IsNext(i) == i \in ready /\ \A j \in ready : i <= j

\* The next message of p leaves socket i for the callback.
Take(i, p) ==
    /\ pc = "scan" /\ IsNext(i)
    /\ queue[i][p] # <<>>
    /\ queue' = [queue EXCEPT ![i][p] = Tail(@)]
    /\ last' = [last EXCEPT ![i][p] = Head(queue[i][p])]
    /\ UNCHANGED <<sent, count, listed, urls, joined, overflow, subs, emptied, removals>>

\* A slip: a socket is read until it is empty.
DeliverAll(i, p) ==
    /\ Take(i, p)
    /\ UNCHANGED <<pc, ready>>

\* A slip: the message of a callback that throws is put back.
ThrowAndPutBack(i, p) ==
    /\ pc = "scan" /\ IsNext(i) /\ queue[i][p] # <<>>
    /\ queue' = [queue EXCEPT ![i][p] = Append(Tail(@), Head(@))]
    /\ last' = [last EXCEPT ![i][p] = Head(queue[i][p])]
    /\ ready' = {}
    /\ pc' = "sleep"
    /\ UNCHANGED <<sent, count, listed, urls, joined, overflow, subs, emptied, removals>>

\* recv and a callback that returns.
Deliver(i, p) ==
    /\ Take(i, p)
    /\ ready' = ready \ {i}
    /\ pc' = IF ready' = {} THEN "sleep" ELSE "scan"

\* A slip: the round reads all sockets first, and an exception loses the rest.
ThrowAndLoseRound(i, p) ==
    /\ pc = "scan" /\ IsNext(i) /\ queue[i][p] # <<>>
    /\ queue' = [j \in Subscriber |-> [x \in Publisher |->
           IF j \in ready /\ queue[j][x] # <<>> THEN Tail(queue[j][x]) ELSE queue[j][x]]]
    /\ last' = [last EXCEPT ![i][p] = Head(queue[i][p])]
    /\ ready' = {}
    /\ pc' = "sleep"
    /\ UNCHANGED <<sent, count, listed, urls, joined, overflow, subs, emptied, removals>>

\* recv and a message that does not decode or a callback that throws: the
\* exception ends the round, and the sockets after this one are not read.
DeliverAndThrow(i, p) ==
    /\ Take(i, p)
    /\ ready' = {}
    /\ pc' = "sleep"

-----------------------------------------------------------------------------
Init ==
    /\ sent = [p \in Publisher |-> 0]
    /\ count = 0
    /\ listed = {}
    /\ urls = [i \in Subscriber |-> {}]
    /\ joined = [i \in Subscriber |-> {}]
    /\ queue = [i \in Subscriber |-> [p \in Publisher |-> <<>>]]
    /\ last = [i \in Subscriber |-> [p \in Publisher |-> 0]]
    /\ overflow = [i \in Subscriber |-> {}]
    /\ pc = "sleep"
    /\ subs = 0
    /\ ready = {}
    /\ emptied = {}
    /\ removals = 0

PollLoop ==
    \/ Collect \/ Poll
    \/ \E i \in Subscriber, p \in Publisher : Deliver(i, p) \/ DeliverAndThrow(i, p)

Next ==
    \/ \E p \in Publisher : Publish(p) \/ UpdateTopicSubscriber(p) \/ RemoveTopicSubscriber(p)
    \/ RegisterTopicSubscriber
    \/ \E i \in Subscriber, p \in Publisher : Join(i, p)
    \/ PollLoop

Spec == Init /\ [][Next]_vars

\* The poll loop keeps running, and a socket takes the messages of its
\* connections in turn.  Nothing is fair about the rest.
Fairness ==
    /\ WF_vars(PollLoop)
    /\ \A c \in Link : SF_vars(Deliver(c[1], c[2]) \/ DeliverAndThrow(c[1], c[2]))

FairSpec == Spec /\ Fairness

-----------------------------------------------------------------------------
(* Properties.                                                               *)

Message(p) == IF p \in Busy THEN {0} ELSE 1 .. MaxSent[p]

\* Every variable has the type its declaration in the code gives it, and no
\* connection holds more than the high-water mark.
TypeOK ==
    /\ \A p \in Publisher : sent[p] \in 0 .. MaxSent[p]
    /\ count \in 0 .. Len(SubTopic) /\ subs \in 0 .. count
    /\ listed \subseteq Publisher
    /\ urls \in [Subscriber -> SUBSET Publisher]
    /\ joined \in [Subscriber -> SUBSET Publisher]
    /\ \A i \in Subscriber, p \in Publisher :
          /\ queue[i][p] \in UNION {[1 .. n -> Message(p)] : n \in 0 .. HWM}
          /\ last[i][p] \in 0 .. MaxSent[p]
    /\ overflow \in [Subscriber -> SUBSET Publisher]
    /\ pc \in {"sleep", "poll", "scan"}
    /\ ready \subseteq 1 .. subs
    /\ emptied \subseteq Subscriber
    /\ removals \in 0 .. MaxRemovals

\* A callback gets the messages of a connection in the order in which they
\* were published, each at most once, whatever throws, connects or
\* disconnects: what waits is newer than what was delivered.
InOrderOnce ==
    \A i \in Subscriber, p \in Publisher \ Busy : \A k \in DOMAIN queue[i][p] :
        queue[i][p][k] > (IF k = 1 THEN last[i][p] ELSE queue[i][p][k - 1])

\* While a connection lasts and does not overflow, every message that was
\* published since it was made has gone to the callback or is waiting, and what
\* waits is what follows the message delivered last, without a gap: an exception
\* in one callback takes no message away from another.
NoneMissing ==
    \A i \in Subscriber : \A p \in joined[i] \ (overflow[i] \cup Busy) :
        queue[i][p] = [k \in 1 .. (sent[p] - last[i][p]) |-> last[i][p] + k]

\* recv has no timeout: the loop reads a socket without a message, and blocks
\* there, only if an eviction took its messages after the poll.
BlocksOnlyAfterRemoval ==
    \A i \in ready : (\A p \in Publisher : queue[i][p] = <<>>) => i \in emptied

\* The loop waits in recv of a socket without messages.
Blocked == pc = "scan" /\ \E i \in ready : IsNext(i) /\ \A p \in Publisher : queue[i][p] = <<>>

\* Callbacks of subscribers before i throw again and again.
ThrowForEver(i) ==
    []<><<\E j \in 1 .. (i - 1), q \in Publisher : DeliverAndThrow(j, q)>>_vars

\* A message that waits is handed to the callback or lost with its connection,
\* unless the loop blocks, also next to a publisher that never stops and whatever
\* the callbacks of later subscribers throw.  The callbacks of earlier ones can
\* hold it back for ever: an exception ends the round, and if every message of a
\* busy topic raises one, the loop never comes to the sockets after it.
QueuedAreDelivered ==
    \A c \in {d \in Link : d[2] \notin Busy} : \A k \in 1 .. MaxSent[c[2]] :
        LET i == c[1] p == c[2]
        IN  \/ (\E m \in DOMAIN queue[i][p] : queue[i][p][m] = k)
                   ~> (last[i][p] >= k \/ p \notin joined[i] \/ Blocked)
            \/ ThrowForEver(i)
=============================================================================
