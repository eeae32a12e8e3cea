------------------------ MODULE HeartbeatTimingProofs -----------------------
(* The receive loop of HeartbeatChannel keeps up, for every number of nodes  *)
(* and every period whose load it can carry: nothing is dropped, and nobody  *)
(* who runs is taken for dead.                                               *)
EXTENDS HeartbeatProofs, FiniteSetTheorems

-----------------------------------------------------------------------------
(* The load of a set of senders.                                             *)

Cost(n) == IF n \in Peer THEN 1 + MaxFetch ELSE 1

\* Loads and sizes are natural numbers, and grow with the set.
LEMMA LoadBounds ==
    ASSUME NEW S \in SUBSET Sender
    PROVE  /\ IsFiniteSet(S) /\ Cardinality(S) \in Nat /\ Cardinality(S) <= Cardinality(Sender)
           /\ Load(S) \in Nat /\ Load(S) <= Load(Sender) /\ Load(Sender) \in Nat
           /\ Cardinality(S) <= Load(S)
<1> DEFINE s == Cardinality(S)
           t == Cardinality(Sender)
           p == Cardinality(S \cap Peer)
           q == Cardinality(Sender \cap Peer)
<1>1. IsFiniteSet(Sender) /\ MaxFetch \in Nat
  BY SenderAssumption, TimeAssumption
<1>2. IsFiniteSet(S) /\ s <= t
  BY <1>1, FS_Subset
<1>3. IsFiniteSet(Sender \cap Peer)
  BY <1>1, FS_Subset
<1>4. S \cap Peer \in SUBSET (Sender \cap Peer)
  OBVIOUS
<1>5. IsFiniteSet(S \cap Peer) /\ p <= q
  BY <1>3, <1>4, FS_Subset
<1>6. s \in Nat /\ t \in Nat /\ p \in Nat /\ q \in Nat
  BY <1>1, <1>2, <1>3, <1>5, FS_CardinalityType
<1> HIDE DEF s, t, p, q
<1>7. MaxFetch * p \in Nat /\ MaxFetch * q \in Nat /\ MaxFetch * p <= MaxFetch * q
  BY <1>1, <1>5, <1>6
<1>8. Load(S) = s + MaxFetch * p /\ Load(Sender) = t + MaxFetch * q
  BY DEF Load, s, t, p, q
<1> QED
  BY <1>2, <1>6, <1>7, <1>8 DEF s, t

\* One more sender costs a slot, and a fetch if it is a peer.
LEMMA LoadAdd ==
    ASSUME NEW S \in SUBSET Sender, NEW n \in Sender \ S
    PROVE  /\ Load(S \cup {n}) = Load(S) + Cost(n)
           /\ Cardinality(S \cup {n}) = Cardinality(S) + 1
<1> DEFINE s == Cardinality(S)
           p == Cardinality(S \cap Peer)
<1>1. IsFiniteSet(S) /\ IsFiniteSet(S \cap Peer) /\ s \in Nat /\ p \in Nat /\ MaxFetch \in Nat
  BY LoadBounds, FS_Subset, FS_CardinalityType, TimeAssumption
<1>2. Cardinality(S \cup {n}) = s + 1
  BY <1>1, FS_AddElement
<1>3. CASE n \in Peer
  <2>1. (S \cup {n}) \cap Peer = (S \cap Peer) \cup {n} /\ n \notin S \cap Peer
    BY <1>3
  <2>2. Cardinality((S \cup {n}) \cap Peer) = p + 1
    BY <1>1, <2>1, FS_AddElement
  <2> HIDE DEF s, p
  <2>3. MaxFetch * (p + 1) = MaxFetch * p + MaxFetch /\ MaxFetch * p \in Nat
    BY <1>1
  <2>4. Load(S \cup {n}) = s + 1 + (MaxFetch * p + MaxFetch) /\ Load(S) = s + MaxFetch * p
    BY <1>2, <2>2, <2>3 DEF Load, s, p
  <2> QED
    BY <1>1, <1>2, <1>3, <2>3, <2>4 DEF Cost, s
<1>4. CASE n \notin Peer
  <2>1. (S \cup {n}) \cap Peer = S \cap Peer
    BY <1>4
  <2> HIDE DEF s, p
  <2>2. MaxFetch * p \in Nat
    BY <1>1
  <2>3. Load(S \cup {n}) = s + 1 + MaxFetch * p /\ Load(S) = s + MaxFetch * p
    BY <1>2, <2>1 DEF Load, s, p
  <2> QED
    BY <1>1, <1>2, <1>4, <2>2, <2>3 DEF Cost, s
<1> QED
  BY <1>3, <1>4

\* Without a sender there is no load, and the other way round.
LEMMA LoadEmpty ==
    /\ Load({}) = 0 /\ Cardinality({}) = 0
    /\ \A S \in SUBSET Sender : Load(S) = 0 => S = {}
<1>1. Cardinality({}) = 0
  BY FS_EmptySet
<1>2. {} \cap Peer = {} /\ MaxFetch * 0 = 0
  BY TimeAssumption
<1>3. Load({}) = 0
  BY <1>1, <1>2 DEF Load
<1>4. ASSUME NEW S \in SUBSET Sender, Load(S) = 0 PROVE S = {}
  <2>1. IsFiniteSet(S) /\ Cardinality(S) = 0
    BY <1>4, LoadBounds
  <2> QED
    BY <2>1, FS_EmptySet
<1> QED
  BY <1>1, <1>3, <1>4

-----------------------------------------------------------------------------
(* The invariant.  who[i] is the sender of the i-th waiting datagram; B are   *)
(* the senders that have sent since the loop was idle, k slots ago.          *)

Pending(who) == {who[i] : i \in DOMAIN who}

\* The datagrams that wait are of different senders.
Mapped(who) ==
    /\ who \in [1 .. Len(buffer) -> Sender]
    /\ \A i, j \in 1 .. Len(buffer) : who[i] = who[j] => i = j
    /\ \A i \in 1 .. Len(buffer) : buffer[i] \in SentBy(who[i])
    /\ Cardinality(Pending(who)) = Len(buffer)

\* The slots until the loop can read again.
Debt == IF fetching # NoMessage THEN left + 1 ELSE IF ready THEN 0 ELSE 1

\* The loop has been busy for k slots, with the work that B has caused and
\* nothing else; what is still to do and those k slots are B's load at most.
Busy(Q, B, k) ==
    /\ Q \subseteq B
    /\ \A n \in B : timer[n] + k >= Period
    /\ Debt + Load(Q) + k <= Load(B)

\* A companion was heard less than a period ago, or its heartbeat is waiting
\* and it was heard in the period before.
Heard(n, Q) ==
    LET bound == IF n \in Q THEN 2 * Period ELSE Period
    IN  IF nodes_heartbeat[n] = NoMessage THEN uptime + timer[n] < bound
        ELSE nodes_heartbeat[n] + timer[n] <= bound

Fields ==
    /\ timer \in [Sender -> 0 .. Period] /\ left \in 0 .. MaxFetch /\ uptime \in Nat
    /\ fetching \in Peer \cup {NoMessage}
    /\ nodes_heartbeat \in [Peer -> Nat \cup {NoMessage}]

Flags == ready \in BOOLEAN /\ lost = FALSE /\ (fetching # NoMessage => ready = FALSE)

Schedule(who, B, k) ==
    /\ B \in SUBSET Sender /\ k \in 0 .. (Period - 1)
    /\ Mapped(who) /\ Busy(Pending(who), B, k)
    /\ \A n \in Companion : Heard(n, Pending(who))

Timely == Fields /\ Flags /\ \E who, B, k : Schedule(who, B, k)

\* A sender that is due has nothing waiting, and the buffer has room.
LEMMA RoomForDue ==
    ASSUME Schedulable, Fields, NEW who, NEW B, NEW k, Schedule(who, B, k),
           NEW n \in Sender, timer[n] = 0
    PROVE  n \notin B /\ n \notin Pending(who) /\ Len(buffer) < Capacity
<1>1. B \in SUBSET Sender /\ k \in 0 .. (Period - 1) /\ Pending(who) \in SUBSET Sender /\ Pending(who) \subseteq B
  BY DEF Schedule, Busy
<1>2. n \notin B
  BY <1>1, TimeAssumption DEF Schedule, Busy
<1>3. Len(buffer) = Cardinality(Pending(who))
  BY DEF Schedule, Mapped
<1>4. Pending(who) \cup {n} \in SUBSET Sender
  BY <1>1
<1>5. Cardinality(Pending(who) \cup {n}) = Cardinality(Pending(who)) + 1
  BY <1>1, <1>2, LoadAdd
<1>6. Cardinality(Pending(who) \cup {n}) <= Cardinality(Sender) /\ Cardinality(Pending(who)) \in Nat
         /\ Cardinality(Sender) \in Nat
  BY <1>1, <1>4, LoadBounds
<1>7. Cardinality(Sender) <= Capacity /\ Capacity \in Nat
  BY TimeAssumption DEF Schedulable
<1> QED
  BY <1>1, <1>2, <1>3, <1>5, <1>6, <1>7

\* The datagram in front is of who[1]; without it, the others stay as they are.
LEMMA FrontRead ==
    ASSUME IInv, NEW who, Mapped(who), buffer # <<>>, buffer' = Tail(buffer), infoID' = infoID
    PROVE  /\ who[1] \in Sender /\ who[1] \in Pending(who) /\ Head(buffer) \in SentBy(who[1])
           /\ \E rest : /\ Pending(rest) = Pending(who) \ {who[1]}
                        /\ Load(Pending(who)) = Load(Pending(rest)) + Cost(who[1])
                        /\ Mapped(rest)'
<1> DEFINE m == Len(buffer)
<1>1. buffer \in Seq(SentSoFar) /\ m \in Nat /\ m # 0
  BY EmptySeq, LenProperties DEF IInv
<1>2. /\ Len(buffer') = m - 1 /\ Head(buffer) = buffer[1]
      /\ \A i \in 1 .. (m - 1) : buffer'[i] = buffer[i + 1]
  BY <1>1, HeadTailProperties
<1> HIDE DEF m
<1>3. /\ who \in [1 .. m -> Sender]
      /\ \A i, j \in 1 .. m : who[i] = who[j] => i = j
      /\ \A i \in 1 .. m : buffer[i] \in SentBy(who[i])
      /\ Cardinality(Pending(who)) = m
  BY DEF Mapped, m
<1>4. 1 \in 1 .. m /\ \A i \in 1 .. (m - 1) : i + 1 \in 1 .. m /\ i + 1 # 1
  BY <1>1
<1>5. who[1] \in Sender /\ who[1] \in Pending(who) /\ Head(buffer) \in SentBy(who[1])
  BY <1>2, <1>3, <1>4 DEF Pending
<1>6. PICK rest : rest \in [1 .. (m - 1) -> Sender] /\ \A i \in 1 .. (m - 1) : rest[i] = who[i + 1]
  <2> DEFINE r == [i \in 1 .. (m - 1) |-> who[i + 1]]
  <2>1. r \in [1 .. (m - 1) -> Sender] /\ \A i \in 1 .. (m - 1) : r[i] = who[i + 1]
    BY <1>3, <1>4
  <2> HIDE DEF r
  <2> QED
    BY <2>1
<1>7. Pending(rest) = Pending(who) \ {who[1]}
  <2>1. ASSUME NEW i \in 1 .. (m - 1) PROVE rest[i] \in Pending(who) \ {who[1]}
    BY <1>3, <1>4, <1>6 DEF Pending
  <2>2. ASSUME NEW i \in 1 .. m, who[i] # who[1] PROVE who[i] \in Pending(rest)
    <3>1. i - 1 \in 1 .. (m - 1) /\ (i - 1) + 1 = i
      BY <1>1, <2>2
    <3>2. rest[i - 1] = who[i] /\ i - 1 \in DOMAIN rest
      BY <1>6, <3>1
    <3> QED
      BY <3>2 DEF Pending
  <2>3. Pending(rest) \subseteq Pending(who) \ {who[1]}
    BY <1>6, <2>1 DEF Pending
  <2>4. Pending(who) \ {who[1]} \subseteq Pending(rest)
    BY <1>3, <2>2 DEF Pending
  <2> QED
    BY <2>3, <2>4
<1>8. Pending(who) \in SUBSET Sender /\ Pending(rest) \in SUBSET Sender /\ who[1] \in Sender \ Pending(rest)
        /\ Pending(rest) \cup {who[1]} = Pending(who)
  <2>1. Pending(who) \in SUBSET Sender
    BY <1>3 DEF Pending
  <2> QED
    BY <1>5, <1>7, <2>1
<1>9. Load(Pending(who)) = Load(Pending(rest)) + Cost(who[1]) /\ m = Cardinality(Pending(rest)) + 1
  BY <1>3, <1>8, LoadAdd
<1>10. Cardinality(Pending(rest)) = m - 1
  BY <1>1, <1>8, <1>9, LoadBounds
<1>11. Mapped(rest)'
  <2>1. \A i, j \in 1 .. (m - 1) : rest[i] = rest[j] => i = j
    <3> SUFFICES ASSUME NEW i \in 1 .. (m - 1), NEW j \in 1 .. (m - 1), rest[i] = rest[j] PROVE i = j
      OBVIOUS
    <3>1. i + 1 = j + 1
      BY <1>3, <1>4, <1>6
    <3> QED
      BY <3>1
  <2>2. ASSUME NEW i \in 1 .. (m - 1) PROVE buffer'[i] \in SentBy(rest[i])'
    <3>1. SentBy(rest[i])' = SentBy(who[i + 1])
      BY <1>6 DEF SentBy
    <3> QED
      BY <1>2, <1>3, <1>4, <3>1
  <2> QED
    BY <1>2, <1>6, <1>10, <2>1, <2>2 DEF Mapped
<1> QED
  BY <1>5, <1>7, <1>9, <1>11

\* A companion's silence is shorter than two periods.
LEMMA ShortSilence ==
    ASSUME Fields, NEW who, NEW B, NEW k, Schedule(who, B, k), NEW n \in Companion
    PROVE  /\ n \in Peer /\ n \in Sender /\ timer[n] \in 0 .. Period
           /\ IF nodes_heartbeat[n] = NoMessage THEN uptime < 2 * Period
              ELSE nodes_heartbeat[n] \in Nat /\ nodes_heartbeat[n] < 2 * Period
<1>1. n \in Peer /\ n \in Sender /\ timer[n] \in 0 .. Period /\ Period \in Nat \ {0} /\ uptime \in Nat
         /\ (nodes_heartbeat[n] # NoMessage => nodes_heartbeat[n] \in Nat)
  BY TimeAssumption DEF Companion, Peer, Fields
<1>2. n \in Pending(who) => timer[n] >= 1
  <2>1. Pending(who) \subseteq B /\ (n \in B => timer[n] + k >= Period) /\ k \in 0 .. (Period - 1)
    BY <1>1 DEF Schedule, Busy
  <2> QED
    BY <1>1, <2>1
<1>3. Heard(n, Pending(who))
  BY DEF Schedule
<1> QED
  BY <1>1, <1>2, <1>3 DEF Heard

\* checkHeartbeats leaves those alone that were heard within two periods.
LEMMA KeptIfHeard ==
    ASSUME NEW times \in [Peer -> Nat \cup {NoMessage}]
    PROVE  /\ RemoveExpired(times) \in [Peer -> Nat \cup {NoMessage}]
           /\ \A n \in Peer : times[n] # NoMessage /\ times[n] < 2 * Period => RemoveExpired(times)[n] = times[n]
           /\ \A n \in Peer : times[n] = NoMessage => RemoveExpired(times)[n] = NoMessage
<1>1. RemoveExpired(times) \in [Peer -> Nat \cup {NoMessage}]
  BY DEF RemoveExpired
<1>2. Period \in Nat \ {0} /\ Timeout \in Nat \ {0}
  BY TimeAssumption
<1>3. ASSUME NEW x \in Nat, x < 2 * Period PROVE ~(x \div Period > Timeout)
  BY <1>2, <1>3
<1>4. ASSUME NEW n \in Peer, times[n] # NoMessage, times[n] < 2 * Period
      PROVE  RemoveExpired(times)[n] = times[n]
  <2>1. times[n] \in Nat
    BY <1>4
  <2>2. ~(times[n] \div Period > Timeout)
    BY <1>3, <1>4, <2>1
  <2> QED
    BY <2>2 DEF RemoveExpired
<1>5. ASSUME NEW n \in Peer, times[n] = NoMessage PROVE RemoveExpired(times)[n] = NoMessage
  BY <1>5 DEF RemoveExpired
<1> QED
  BY <1>1, <1>4, <1>5

\* When a sender is due, its last heartbeat has been read and there is room for
\* the next one.
LEMMA SendKeeps ==
    ASSUME Schedulable, IInv, Fields, Flags, NEW who, NEW B, NEW k, Schedule(who, B, k),
           NEW n \in Sender, SendHeartbeat(n)
    PROVE  Timely'
<1> DEFINE Q == Pending(who)
           m == Len(buffer)
<1>1. timer[n] = 0 /\ n \notin B /\ n \notin Q /\ m < Capacity /\ m \in Nat /\ Capacity \in Nat
  BY RoomForDue, LenProperties, TimeAssumption DEF SendHeartbeat, IInv
<1>2. /\ timer' = [timer EXCEPT ![n] = Period] /\ lost' = (lost \/ m >= Capacity)
      /\ UNCHANGED <<infoID, ready, fetching, left, nodes_heartbeat, uptime>>
  BY DEF SendHeartbeat
<1>3. Period \in Nat \ {0} /\ B \in SUBSET Sender /\ Q \in SUBSET B /\ Q \in SUBSET Sender /\ k \in 0 .. (Period - 1)
  BY TimeAssumption DEF Schedule, Busy
<1>4. Fields'
  BY <1>2, <1>3 DEF Fields
<1>5. Flags'
  <2>1. ~(m >= Capacity)
    BY <1>1
  <2>2. lost' = lost
    BY <1>2, <2>1 DEF Flags
  <2> QED
    BY <1>2, <2>2 DEF Flags
<1>6. PICK data \in IF n \in Stranger THEN Foreign ELSE {Encode(Heartbeat(n, infoID[n]))} :
               buffer' = Append(buffer, [ip |-> Ip[n], data |-> data])
  BY <1>1 DEF SendHeartbeat
<1> DEFINE d == [ip |-> Ip[n], data |-> data]
<1>7. d \in SentBy(n)
  <2>1. infoID[n] \in 0 .. infoID[n]
    BY TimeAssumption DEF IInv
  <2> QED
    BY <1>6, <2>1 DEF SentBy
<1> HIDE DEF d
<1>8. Len(buffer') = m + 1 /\ (\A i \in 1 .. m : buffer'[i] = buffer[i]) /\ buffer'[m + 1] = d
  <2>1. buffer \in Seq(SentSoFar) /\ d \in SentSoFar
    BY <1>7 DEF IInv, SentSoFar
  <2> QED
    BY <1>6, <2>1, AppendProperties DEF d
<1>9. /\ who \in [1 .. m -> Sender]
      /\ \A i, j \in 1 .. m : who[i] = who[j] => i = j
      /\ \A i \in 1 .. m : buffer[i] \in SentBy(who[i])
      /\ Cardinality(Q) = m
  BY DEF Schedule, Mapped
<1> HIDE DEF m
<1>10. PICK more : more \in [1 .. (m + 1) -> Sender] /\ (\A i \in 1 .. m : more[i] = who[i]) /\ more[m + 1] = n
  <2> DEFINE r == [i \in 1 .. (m + 1) |-> IF i = m + 1 THEN n ELSE who[i]]
  <2>1. \A i \in 1 .. (m + 1) : i # m + 1 => i \in 1 .. m
    BY <1>1
  <2>2. m + 1 \in 1 .. (m + 1) /\ \A i \in 1 .. m : i # m + 1 /\ i \in 1 .. (m + 1)
    BY <1>1
  <2>3. r \in [1 .. (m + 1) -> Sender] /\ (\A i \in 1 .. m : r[i] = who[i]) /\ r[m + 1] = n
    BY <1>9, <2>1, <2>2
  <2> HIDE DEF r
  <2> QED
    BY <2>3
<1>11. \A i \in 1 .. (m + 1) : i \in 1 .. m \/ i = m + 1
  BY <1>1
<1>12. m + 1 \in 1 .. (m + 1) /\ \A i \in 1 .. m : i \in 1 .. (m + 1)
  BY <1>1
<1>13. Pending(more) = Q \cup {n}
  <2>1. Pending(more) \subseteq Q \cup {n}
    BY <1>9, <1>10, <1>11 DEF Pending
  <2>2. Q \cup {n} \subseteq Pending(more)
    BY <1>9, <1>10, <1>12 DEF Pending
  <2> QED
    BY <2>1, <2>2
<1>14. Mapped(more)'
  <2>1. ASSUME NEW i \in 1 .. (m + 1), NEW j \in 1 .. (m + 1), more[i] = more[j] PROVE i = j
    <3>1. \A x \in 1 .. m : more[x] # n
      BY <1>1, <1>9, <1>10 DEF Pending
    <3> QED
      BY <1>9, <1>10, <1>11, <2>1, <3>1
  <2>2. ASSUME NEW i \in 1 .. (m + 1) PROVE buffer'[i] \in SentBy(more[i])'
    <3>1. SentBy(more[i])' = SentBy(more[i])
      BY <1>2 DEF SentBy
    <3> QED
      BY <1>7, <1>8, <1>9, <1>10, <1>11, <3>1
  <2>3. Cardinality(Pending(more)) = m + 1
    BY <1>1, <1>3, <1>9, <1>13, LoadAdd
  <2> QED
    BY <1>8, <1>10, <2>1, <2>2, <2>3 DEF Mapped
<1> HIDE DEF Q
<1>15. Busy(Q \cup {n}, B \cup {n}, k)'
  <2>1. \A x \in B \cup {n} : timer'[x] + k >= Period
    BY <1>1, <1>2, <1>3 DEF Fields, Schedule, Busy
  <2>2. Load(Q \cup {n}) = Load(Q) + Cost(n) /\ Load(B \cup {n}) = Load(B) + Cost(n)
    BY <1>1, <1>3, LoadAdd
  <2>3. Load(Q) \in Nat /\ Load(B) \in Nat /\ Cost(n) \in Nat
    BY <1>3, LoadBounds, TimeAssumption DEF Cost
  <2>4. Debt' = Debt /\ Debt \in Nat
    BY <1>2, TimeAssumption DEF Debt, Fields
  <2>5. Debt + Load(Q) + k <= Load(B)
    BY DEF Schedule, Busy, Q
  <2>6. Debt' + Load(Q \cup {n}) + k <= Load(B \cup {n})
    BY <1>3, <2>2, <2>3, <2>4, <2>5
  <2> QED
    BY <1>3, <2>1, <2>6 DEF Busy
<1>16. ASSUME NEW x \in Companion PROVE Heard(x, Q \cup {n})'
  <2>1. x \in Peer /\ x \in Sender /\ timer[x] \in 0 .. Period /\ Heard(x, Q)
    BY DEF Companion, Peer, Schedule, Fields, Q
  <2>2. nodes_heartbeat' = nodes_heartbeat /\ uptime' = uptime /\ uptime \in Nat
           /\ (nodes_heartbeat[x] = NoMessage \/ nodes_heartbeat[x] \in Nat)
    BY <1>2, <2>1 DEF Fields
  <2>3. CASE x = n
    <3>1. timer'[x] = Period /\ timer[x] = 0 /\ x \notin Q
      BY <1>1, <1>2, <2>3 DEF Fields
    <3> QED
      BY <1>3, <2>1, <2>2, <2>3, <3>1 DEF Heard
  <2>4. CASE x # n
    <3>1. timer'[x] = timer[x] /\ (x \in Q \cup {n} <=> x \in Q)
      BY <1>2, <2>1, <2>4 DEF Fields
    <3> QED
      BY <2>1, <2>2, <3>1 DEF Heard
  <2> QED
    BY <2>3, <2>4
<1>17. Schedule(more, B \cup {n}, k)'
  BY <1>3, <1>13, <1>14, <1>15, <1>16 DEF Schedule
<1> QED
  BY <1>4, <1>5, <1>17 DEF Timely

\* Reading a datagram costs no more than was set aside for it.
LEMMA ReadPaid ==
    ASSUME Fields, NEW who, NEW B, NEW k, Schedule(who, B, k), NEW rest,
           Pending(rest) = Pending(who) \ {who[1]},
           Load(Pending(who)) = Load(Pending(rest)) + Cost(who[1]),
           Debt = 0, Debt' \in Nat, Debt' <= Cost(who[1]), timer' = timer
    PROVE  Busy(Pending(rest), B, k)'
<1> DEFINE Q == Pending(who)
           R == Pending(rest)
<1>1. B \in SUBSET Sender /\ Q \subseteq B /\ R \in SUBSET Sender /\ R \subseteq B /\ k \in Nat
  BY TimeAssumption DEF Schedule, Busy
<1>2. Load(R) \in Nat /\ Load(B) \in Nat /\ Cost(who[1]) \in Nat
  BY <1>1, LoadBounds, TimeAssumption DEF Cost
<1>3. Load(Q) + k <= Load(B) /\ Load(Q) = Load(R) + Cost(who[1])
  <2>1. Debt + Load(Q) + k <= Load(B)
    BY DEF Schedule, Busy
  <2> HIDE DEF Q, R
  <2> QED
    BY <1>1, <1>2, <2>1 DEF Q, R
<1> HIDE DEF Q, R
<1>4. Debt' + Load(R) + k <= Load(B)
  BY <1>1, <1>2, <1>3
<1>5. \A n \in B : timer'[n] + k >= Period
  BY DEF Schedule, Busy
<1> QED
  BY <1>1, <1>4, <1>5 DEF Busy, R

\* What the filters reject was not sent by a companion.
LEMMA CompanionAccepted ==
    ASSUME IInv, NEW n \in Companion, NEW d \in SentBy(n)
    PROVE  Accepts(d.ip, Decode(CutOff(d.data)))
<1>1. n \in Sender \ Stranger /\ n # Observer /\ NameFits(n) /\ GroupName[n] = GroupName[Observer]
         /\ IsInSameSubnet(Ip[n], Ip[Observer])
  BY SenderAssumption DEF Companion, Peer
<1>2. PICK id \in 0 .. infoID[n] : d = [ip |-> Ip[n], data |-> Encode(Heartbeat(n, id))]
  BY <1>1 DEF SentBy
<1>3. id \in 0 .. MaxInfoID
  <2>1. MaxInfoID \in Nat /\ infoID[n] \in 0 .. MaxInfoID
    BY <1>1, TimeAssumption DEF IInv
  <2> QED
    BY <1>2, <2>1
<1>4. d.ip = Ip[n] /\ Decode(CutOff(d.data)) = Heartbeat(n, id)
  BY <1>1, <1>2, <1>3, HeartbeatSurvives
<1>5. Heartbeat(n, id) # NoMessage
  BY <1>1, <1>3, NoMessageAssumption
<1>6. NodeID[n] # NodeID[Observer]
  BY <1>1, IdAssumption, SenderAssumption
<1>7. Heartbeat(n, id).group_name = GroupName[n] /\ Heartbeat(n, id).node_id = NodeID[n]
  BY DEF Heartbeat
<1>8. IsInSameSubnet(Ip[Observer], Ip[n])
  BY <1>1 DEF IsInSameSubnet
<1> QED
  BY <1>1, <1>4, <1>5, <1>6, <1>7, <1>8 DEF Accepts

\* What the filters let through is of a peer, and carries its id.
LEMMA HeardFrom ==
    ASSUME ForeignIgnored, \A n \in Sender \ Stranger : NameFits(n),
           IInv, NEW n \in Sender, NEW d \in SentBy(n), Accepts(d.ip, Decode(CutOff(d.data)))
    PROVE  n \in Peer /\ Decode(CutOff(d.data)).node_id = NodeID[n]
<1>1. n \notin Stranger
  <2> SUFFICES ASSUME n \in Stranger PROVE FALSE
    OBVIOUS
  <2>1. PICK data \in Foreign : d = [ip |-> Ip[n], data |-> data]
    BY DEF SentBy
  <2> QED
    BY <2>1 DEF ForeignIgnored
<1>2. PICK id \in 0 .. infoID[n] : d = [ip |-> Ip[n], data |-> Encode(Heartbeat(n, id))]
  BY <1>1 DEF SentBy
<1>3. id \in 0 .. MaxInfoID
  <2>1. MaxInfoID \in Nat /\ infoID[n] \in 0 .. MaxInfoID
    BY TimeAssumption DEF IInv
  <2> QED
    BY <1>2, <2>1
<1>4. Decode(CutOff(d.data)) = Heartbeat(n, id)
  BY <1>1, <1>2, <1>3, HeartbeatSurvives
<1>5. Heartbeat(n, id).node_id = NodeID[n]
  BY DEF Heartbeat
<1>6. NodeID[n] # NodeID[Observer]
  BY <1>4, <1>5 DEF Accepts
<1> QED
  BY <1>1, <1>4, <1>5, <1>6 DEF Peer

\* A datagram that is not for this node takes its slot, and no companion waits
\* longer for it than was set aside.
LEMMA IgnoreKeeps ==
    ASSUME Schedulable, IInv, Fields, Flags, NEW who, NEW B, NEW k, Schedule(who, B, k), Ignore
    PROVE  Timely'
<1>1. /\ fetching = NoMessage /\ buffer # <<>> /\ buffer' = Tail(buffer)
      /\ ~Accepts(Head(buffer).ip, Decode(CutOff(Head(buffer).data)))
      /\ UNCHANGED <<timer, infoID, lost, fetching, left, nodes_heartbeat, uptime>>
  BY DEF Ignore
<1>2. ready = TRUE /\ ready' = FALSE
  BY DEF Ignore, Flags
<1>3. Mapped(who)
  BY DEF Schedule
<1>4. /\ who[1] \in Sender /\ who[1] \in Pending(who) /\ Head(buffer) \in SentBy(who[1])
      /\ \E rest : /\ Pending(rest) = Pending(who) \ {who[1]}
                   /\ Load(Pending(who)) = Load(Pending(rest)) + Cost(who[1])
                   /\ Mapped(rest)'
  BY <1>1, <1>3, FrontRead
<1>5. PICK rest : /\ Pending(rest) = Pending(who) \ {who[1]}
                  /\ Load(Pending(who)) = Load(Pending(rest)) + Cost(who[1])
                  /\ Mapped(rest)'
  BY <1>4
<1>6. who[1] \notin Companion
  BY <1>1, <1>4, CompanionAccepted
<1>7. Fields' /\ Flags'
  BY <1>1, <1>2 DEF Fields, Flags
<1>8. Debt = 0 /\ Debt' = 1 /\ Cost(who[1]) >= 1
  BY <1>1, <1>2, TimeAssumption DEF Debt, Cost
<1>9. Busy(Pending(rest), B, k)'
  BY <1>1, <1>5, <1>8, ReadPaid
<1>10. ASSUME NEW x \in Companion PROVE Heard(x, Pending(rest))'
  <2>1. x \in Pending(rest) <=> x \in Pending(who)
    BY <1>5, <1>6
  <2>2. Heard(x, Pending(who))
    BY DEF Schedule
  <2> QED
    BY <1>1, <2>1, <2>2 DEF Heard
<1>11. Schedule(rest, B, k)'
  BY <1>5, <1>9, <1>10 DEF Schedule
<1> QED
  BY <1>7, <1>11 DEF Timely

\* A heartbeat that is read resets the silence of its sender, and of nobody else;
\* a fetch that it causes was set aside for it.
LEMMA ReceiveKeeps ==
    ASSUME ForeignIgnored, \A n \in Sender \ Stranger : NameFits(n),
           Schedulable, IInv, Fields, Flags, NEW who, NEW B, NEW k, Schedule(who, B, k), Receive
    PROVE  Timely'
<1> DEFINE d == Head(buffer)
           msg == Decode(CutOff(d.data))
<1>1. /\ fetching = NoMessage /\ buffer # <<>> /\ buffer' = Tail(buffer)
      /\ Accepts(d.ip, msg) /\ Process(msg, d.ip)
      /\ UNCHANGED <<timer, infoID, lost, uptime>>
  BY DEF Receive
<1>2. ready = TRUE /\ ready' = FALSE
  BY DEF Receive, Flags
<1>3. Mapped(who)
  BY DEF Schedule
<1>4. /\ who[1] \in Sender /\ who[1] \in Pending(who) /\ d \in SentBy(who[1])
      /\ \E rest : /\ Pending(rest) = Pending(who) \ {who[1]}
                   /\ Load(Pending(who)) = Load(Pending(rest)) + Cost(who[1])
                   /\ Mapped(rest)'
  BY <1>1, <1>3, FrontRead
<1>5. PICK rest : /\ Pending(rest) = Pending(who) \ {who[1]}
                  /\ Load(Pending(who)) = Load(Pending(rest)) + Cost(who[1])
                  /\ Mapped(rest)'
  BY <1>4
<1> HIDE DEF d
<1>6. who[1] \in Peer /\ msg.node_id = NodeID[who[1]]
  BY <1>1, <1>4, HeardFrom
<1> HIDE DEF msg
<1>7. PICK n \in Peer :
        /\ NodeID[n] = msg.node_id
        /\ \/ /\ fetching' = n
              /\ left' \in 0 .. MaxFetch
              /\ nodes_heartbeat' = [nodes_heartbeat EXCEPT ![n] = 0]
           \/ /\ nodes_heartbeat' = RemoveExpired([nodes_heartbeat EXCEPT ![n] = 0])
              /\ UNCHANGED <<fetching, left>>
  BY <1>1 DEF Process
<1>8. n = who[1]
  BY <1>6, <1>7, IdAssumption DEF Peer
<1> DEFINE times == [nodes_heartbeat EXCEPT ![n] = 0]
<1>9. times \in [Peer -> Nat \cup {NoMessage}] /\ times[n] = 0 /\ \A x \in Peer \ {n} : times[x] = nodes_heartbeat[x]
  BY <1>7 DEF Fields
<1> HIDE DEF times
<1>10. nodes_heartbeat' = times \/ nodes_heartbeat' = RemoveExpired(times)
  BY <1>7 DEF times
<1>11. ASSUME NEW x \in Companion PROVE nodes_heartbeat'[x] = times[x]
  <2>1. x \in Peer /\ Period \in Nat \ {0} /\ 0 # NoMessage
    BY TimeAssumption, NoMessageAssumption DEF Companion
  <2>2. times[x] = NoMessage \/ (times[x] # NoMessage /\ times[x] < 2 * Period)
    BY <1>9, <2>1, ShortSilence
  <2>3. RemoveExpired(times)[x] = times[x]
    BY <1>9, <2>1, <2>2, KeptIfHeard
  <2> QED
    BY <1>10, <2>3
<1>12. Fields'
  <2>1. nodes_heartbeat' \in [Peer -> Nat \cup {NoMessage}]
    BY <1>9, <1>10, KeptIfHeard
  <2>2. fetching' \in Peer \cup {NoMessage} /\ left' \in 0 .. MaxFetch
    BY <1>7 DEF Fields
  <2> QED
    BY <1>1, <2>1, <2>2 DEF Fields
<1>13. Flags'
  BY <1>1, <1>2 DEF Flags
<1>14. Debt = 0 /\ Debt' \in Nat /\ Debt' <= Cost(who[1])
  <2>1. Debt = 0
    BY <1>1, <1>2 DEF Debt
  <2>2. MaxFetch \in Nat /\ left' \in 0 .. MaxFetch /\ Cost(who[1]) = 1 + MaxFetch
    BY <1>6, <1>12, TimeAssumption DEF Fields, Cost
  <2>3. Debt' = left' + 1 \/ Debt' = 1
    BY <1>2 DEF Debt
  <2> QED
    BY <2>1, <2>2, <2>3
<1>15. Busy(Pending(rest), B, k)'
  BY <1>1, <1>5, <1>14, ReadPaid
<1>16. ASSUME NEW x \in Companion PROVE Heard(x, Pending(rest))'
  <2>1. x \in Peer /\ x \in Sender /\ timer[x] \in 0 .. Period /\ Heard(x, Pending(who)) /\ Period \in Nat \ {0}
           /\ uptime \in Nat
    BY TimeAssumption DEF Companion, Peer, Schedule, Fields
  <2>2. timer' = timer /\ uptime' = uptime /\ nodes_heartbeat'[x] = times[x]
    BY <1>1, <1>11
  <2>3. CASE x = n
    <3>1. nodes_heartbeat'[x] = 0 /\ 0 # NoMessage /\ x \notin Pending(rest)
      BY <1>5, <1>8, <1>9, <2>2, <2>3, NoMessageAssumption
    <3> QED
      BY <2>1, <2>2, <3>1 DEF Heard
  <2>4. CASE x # n
    <3>1. nodes_heartbeat'[x] = nodes_heartbeat[x] /\ (x \in Pending(rest) <=> x \in Pending(who))
      BY <1>5, <1>8, <1>9, <2>1, <2>2, <2>4
    <3> QED
      BY <2>1, <2>2, <3>1 DEF Heard
  <2> QED
    BY <2>3, <2>4
<1>17. Schedule(rest, B, k)'
  BY <1>5, <1>15, <1>16 DEF Schedule
<1> QED
  BY <1>12, <1>13, <1>17 DEF Timely

\* The end of a fetch resets the silence of the node it was for.
LEMMA EndFetchKeeps ==
    ASSUME IInv, Fields, Flags, NEW who, NEW B, NEW k, Schedule(who, B, k), EndFetch
    PROVE  Timely'
<1> DEFINE n == fetching
           times == [nodes_heartbeat EXCEPT ![n] = 0]
<1>1. /\ fetching # NoMessage /\ left = 0 /\ nodes_heartbeat' = RemoveExpired(times)
      /\ fetching' = NoMessage /\ UNCHANGED <<timer, infoID, buffer, lost, ready, left, uptime>>
  BY DEF EndFetch
<1>2. n \in Peer /\ ready = FALSE
  BY <1>1 DEF Fields, Flags
<1>3. times \in [Peer -> Nat \cup {NoMessage}] /\ times[n] = 0 /\ \A x \in Peer \ {n} : times[x] = nodes_heartbeat[x]
  BY <1>2 DEF Fields
<1> HIDE DEF n, times
<1>4. ASSUME NEW x \in Companion PROVE nodes_heartbeat'[x] = times[x]
  <2>1. x \in Peer /\ Period \in Nat \ {0} /\ 0 # NoMessage
    BY TimeAssumption, NoMessageAssumption DEF Companion
  <2>2. times[x] = NoMessage \/ (times[x] # NoMessage /\ times[x] < 2 * Period)
    BY <1>3, <2>1, ShortSilence
  <2> QED
    BY <1>1, <1>3, <2>1, <2>2, KeptIfHeard
<1>5. Fields' /\ Flags'
  <2>1. nodes_heartbeat' \in [Peer -> Nat \cup {NoMessage}]
    BY <1>1, <1>3, KeptIfHeard
  <2> QED
    BY <1>1, <2>1 DEF Fields, Flags
<1>6. Mapped(who)'
  BY <1>1 DEF Schedule, Mapped, SentBy
<1>7. Debt' = Debt
  BY <1>1, <1>2 DEF Debt
<1>8. Busy(Pending(who), B, k)'
  BY <1>1, <1>7 DEF Schedule, Busy
<1>9. ASSUME NEW x \in Companion PROVE Heard(x, Pending(who))'
  <2>1. x \in Peer /\ x \in Sender /\ timer[x] \in 0 .. Period /\ Heard(x, Pending(who)) /\ Period \in Nat \ {0}
    BY TimeAssumption DEF Companion, Peer, Schedule, Fields
  <2>2. timer' = timer /\ uptime' = uptime /\ nodes_heartbeat'[x] = times[x]
    BY <1>1, <1>4
  <2>3. CASE x = n
    <3>1. nodes_heartbeat'[x] = 0 /\ 0 # NoMessage
      BY <1>3, <2>2, <2>3, NoMessageAssumption
    <3> QED
      BY <2>1, <2>2, <3>1 DEF Heard
  <2>4. CASE x # n
    <3>1. nodes_heartbeat'[x] = nodes_heartbeat[x]
      BY <1>3, <2>1, <2>2, <2>4
    <3> QED
      BY <2>1, <2>2, <3>1 DEF Heard
  <2> QED
    BY <2>3, <2>4
<1>10. Schedule(who, B, k)'
  BY <1>6, <1>8, <1>9 DEF Schedule
<1> QED
  BY <1>5, <1>10 DEF Timely

\* A registration changes no waiting datagram.
LEMMA RegisterKeeps ==
    ASSUME IInv, Fields, Flags, NEW who, NEW B, NEW k, Schedule(who, B, k), NEW n \in Peer, Register(n)
    PROVE  Timely'
<1>1. UNCHANGED <<timer, buffer, lost, ready, fetching, left, nodes_heartbeat, uptime>>
  BY DEF Register
<1>2. ASSUME NEW m \in Sender PROVE SentBy(m) \subseteq SentBy(m)'
  <2>1. MaxInfoID \in Nat /\ infoID \in [Sender -> 0 .. MaxInfoID]
    BY TimeAssumption DEF IInv
  <2>2. infoID[m] \in Nat /\ infoID'[m] \in Nat /\ infoID[m] <= infoID'[m]
    BY <2>1 DEF Register, Peer
  <2>3. 0 .. infoID[m] \subseteq 0 .. infoID'[m]
    BY <2>2
  <2> QED
    BY <2>3 DEF SentBy
<1>3. Mapped(who)'
  BY <1>1, <1>2 DEF Schedule, Mapped
<1>4. Busy(Pending(who), B, k)' /\ \A x \in Companion : Heard(x, Pending(who))'
  BY <1>1 DEF Schedule, Busy, Debt, Heard
<1>5. Schedule(who, B, k)'
  BY <1>3, <1>4 DEF Schedule
<1> QED
  BY <1>1, <1>5 DEF Timely, Fields, Flags

\* A loop that has nothing to do starts anew.
LEMMA IdleAgain ==
    ASSUME NEW who, Fields', Flags', Mapped(who)', Pending(who) = {}, Debt' = 0,
           \A n \in Companion : Heard(n, Pending(who))'
    PROVE  Timely'
<1>1. 0 \in 0 .. (Period - 1) /\ {} \in SUBSET Sender
  BY TimeAssumption
<1>2. Load({}) = 0
  BY LoadEmpty
<1>3. Busy({}, {}, 0)'
  BY <1>2 DEF Busy
<1>4. Schedule(who, {}, 0)'
  BY <1>1, <1>3 DEF Schedule
<1> QED
  BY <1>4 DEF Timely

\* A slot pays for a slot's work: the loop is busy for one slot more, or idle
\* again, which it is before a period is over.
LEMMA TickKeeps ==
    ASSUME Schedulable, IInv, Fields, Flags, NEW who, NEW B, NEW k, Schedule(who, B, k), Tick
    PROVE  Timely'
<1> DEFINE Q == Pending(who)
<1>1. /\ \A n \in Sender : timer[n] > 0
      /\ \/ fetching # NoMessage /\ left > 0
         \/ fetching = NoMessage /\ (~ready \/ buffer = <<>>)
      /\ timer' = [n \in Sender |-> timer[n] - 1]
      /\ left' = IF fetching # NoMessage THEN left - 1 ELSE left
      /\ UNCHANGED <<infoID, buffer, lost, fetching>>
  BY DEF Tick
<1>2. ready' = (fetching = NoMessage)
  BY DEF Tick
<1>3. /\ nodes_heartbeat' = [n \in Peer |->
            IF nodes_heartbeat[n] # NoMessage /\ nodes_heartbeat[n] < Limit
            THEN nodes_heartbeat[n] + 1 ELSE nodes_heartbeat[n]]
      /\ uptime' = IF uptime < Limit THEN uptime + 1 ELSE uptime
  BY DEF Tick
<1>4. Period \in Nat \ {0} /\ MaxFetch \in Nat /\ B \in SUBSET Sender /\ Q \in SUBSET B /\ Q \in SUBSET Sender
         /\ k \in 0 .. (Period - 1) /\ k \in Nat
  BY TimeAssumption DEF Schedule, Busy
<1>5. Fields'
  <2>1. timer' \in [Sender -> 0 .. Period]
    BY <1>1, <1>4 DEF Fields
  <2>2. left' \in 0 .. MaxFetch
    BY <1>1, <1>4 DEF Fields
  <2>3. nodes_heartbeat' \in [Peer -> Nat \cup {NoMessage}]
    BY <1>3 DEF Fields
  <2>4. uptime' \in Nat
    BY <1>3 DEF Fields
  <2> QED
    BY <1>1, <2>1, <2>2, <2>3, <2>4 DEF Fields
<1>6. Flags'
  <2>1. fetching' # NoMessage => ready' = FALSE
    BY <1>1, <1>2
  <2>2. ready' \in BOOLEAN
    BY <1>2
  <2> QED
    BY <1>1, <2>1, <2>2 DEF Flags
<1>7. Mapped(who)'
  BY <1>1 DEF Schedule, Mapped, SentBy
<1>8. ASSUME NEW x \in Companion PROVE Heard(x, Q)'
  <2>1. x \in Peer /\ x \in Sender /\ timer[x] \in 0 .. Period /\ timer[x] > 0 /\ Heard(x, Q) /\ uptime \in Nat
           /\ (nodes_heartbeat[x] # NoMessage => nodes_heartbeat[x] \in Nat)
    BY <1>1 DEF Companion, Peer, Schedule, Fields
  <2>2. timer'[x] = timer[x] - 1
    BY <1>1, <2>1
  <2>3. CASE nodes_heartbeat[x] = NoMessage
    <3>1. nodes_heartbeat'[x] = NoMessage /\ (uptime' = uptime + 1 \/ uptime' = uptime)
      BY <1>3, <2>1, <2>3
    <3> QED
      BY <1>4, <2>1, <2>2, <2>3, <3>1 DEF Heard
  <2>4. CASE nodes_heartbeat[x] # NoMessage
    <3>1. /\ nodes_heartbeat'[x] \in Nat /\ nodes_heartbeat'[x] # NoMessage
          /\ nodes_heartbeat'[x] = nodes_heartbeat[x] + 1 \/ nodes_heartbeat'[x] = nodes_heartbeat[x]
      BY <1>3, <2>1, <2>4, NoMessageAssumption
    <3> QED
      BY <1>4, <2>1, <2>2, <2>4, <3>1 DEF Heard
  <2> QED
    BY <2>3, <2>4
<1>9. Load(Q) \in Nat /\ Load(B) \in Nat /\ Load(B) <= Period
  BY <1>4, LoadBounds DEF Schedulable
<1>10. Debt + Load(Q) + k <= Load(B) /\ Debt \in Nat /\ Debt' \in Nat
  <2>1. Debt \in Nat
    BY <1>4 DEF Debt, Fields
  <2>2. Debt' = left' + 1 \/ Debt' = 0 \/ Debt' = 1
    BY DEF Debt
  <2>3. left' \in Nat
    BY <1>4, <1>5 DEF Fields
  <2>4. Debt' \in Nat
    BY <2>2, <2>3
  <2> QED
    BY <2>1, <2>4 DEF Schedule, Busy
<1>11. CASE fetching = NoMessage /\ ready
  <2>1. buffer = <<>> /\ Len(buffer) = 0 /\ Q = {} /\ Debt' = 0
    <3>1. buffer = <<>> /\ Len(buffer) = 0
      BY <1>1, <1>11, EmptySeq
    <3>2. Q = {}
      BY <3>1 DEF Schedule, Mapped, Pending
    <3>3. Debt' = 0
      BY <1>1, <1>2, <1>11 DEF Debt
    <3> QED
      BY <3>1, <3>2, <3>3
  <2> QED
    BY <1>5, <1>6, <1>7, <1>8, <2>1, IdleAgain
<1>12. CASE fetching # NoMessage \/ ~ready
  <2>1. Debt' = Debt - 1
    <3>1. CASE fetching # NoMessage
      <4>1. Debt = left + 1 /\ Debt' = (left - 1) + 1
        BY <1>1, <3>1 DEF Debt
      <4> QED
        BY <4>1, <1>4 DEF Fields
    <3>2. CASE fetching = NoMessage /\ ~ready
      <4>1. fetching' = NoMessage /\ ready'
        BY <1>1, <1>2, <3>2
      <4>2. Debt = 1 /\ Debt' = 0
        BY <3>2, <4>1 DEF Debt
      <4> QED
        BY <4>2
    <3> QED
      BY <1>12, <3>1, <3>2
  <2>2. CASE Debt' + Load(Q) = 0
    <3> HIDE DEF Q
    <3>1. Load(Q) = 0 /\ Debt' = 0
      BY <1>9, <1>10, <2>2
    <3>2. Q = {}
      BY <1>4, <3>1, LoadEmpty
    <3> QED
      BY <1>5, <1>6, <1>7, <1>8, <3>1, <3>2, IdleAgain DEF Q
  <2>3. CASE Debt' + Load(Q) # 0
    <3> HIDE DEF Q
    <3>1. k + 1 \in 0 .. (Period - 1) /\ Debt' + Load(Q) + (k + 1) <= Load(B)
      BY <1>4, <1>9, <1>10, <2>1, <2>3
    <3>2. ASSUME NEW n \in B PROVE timer'[n] + (k + 1) >= Period
      <4>1. timer[n] \in Nat /\ timer[n] + k >= Period /\ timer'[n] = timer[n] - 1
        BY <1>1, <1>4 DEF Fields, Schedule, Busy
      <4> QED
        BY <1>4, <4>1
    <3>3. Busy(Q, B, k + 1)'
      BY <1>4, <3>1, <3>2 DEF Busy
    <3>4. Schedule(who, B, k + 1)'
      BY <1>4, <1>7, <1>8, <3>1, <3>3 DEF Schedule, Q
    <3> QED
      BY <1>5, <1>6, <3>4 DEF Timely
  <2> QED
    BY <2>2, <2>3
<1>13. (fetching = NoMessage /\ ready) \/ (fetching # NoMessage \/ ~ready)
  OBVIOUS
<1> QED
  BY <1>11, <1>12, <1>13

-----------------------------------------------------------------------------
(* The theorems.                                                             *)

\* Every behaviour stays in the invariant.
LEMMA TimelyInvariance ==
    ASSUME ForeignIgnored, \A n \in Sender \ Stranger : NameFits(n), Schedulable
    PROVE  Spec => []Timely
<1>1. ASSUME Init PROVE Timely
  <2>1. /\ timer \in [Sender -> 0 .. (Period - 1)] /\ buffer = <<>> /\ fetching = NoMessage /\ left = 0
        /\ uptime = 0 /\ nodes_heartbeat = [n \in Peer |-> NoMessage]
    BY <1>1 DEF Init
  <2>2. lost = FALSE /\ ready = TRUE
    BY <1>1 DEF Init
  <2>3. Period \in Nat \ {0} /\ MaxFetch \in Nat
    BY TimeAssumption
  <2>4. Fields /\ Flags
    BY <2>1, <2>2, <2>3 DEF Fields, Flags
  <2>5. PICK who : who \in [1 .. 0 -> Sender]
    <3>1. [i \in 1 .. 0 |-> Observer] \in [1 .. 0 -> Sender]
      BY SenderAssumption
    <3> QED
      BY <3>1
  <2>6. Pending(who) = {} /\ Len(buffer) = 0
    BY <2>1, <2>5, EmptySeq DEF Pending
  <2>7. Mapped(who)
    BY <2>5, <2>6, LoadEmpty DEF Mapped
  <2>8. Busy(Pending(who), {}, 0)
    BY <2>1, <2>2, <2>6, LoadEmpty DEF Busy, Debt
  <2>9. ASSUME NEW n \in Companion PROVE Heard(n, Pending(who))
    <3>1. n \in Peer /\ timer[n] \in 0 .. (Period - 1) /\ nodes_heartbeat[n] = NoMessage
      BY <2>1 DEF Companion, Peer
    <3> QED
      BY <2>1, <2>3, <2>6, <3>1 DEF Heard
  <2>10. Schedule(who, {}, 0)
    BY <2>3, <2>7, <2>8, <2>9 DEF Schedule
  <2> QED
    BY <2>4, <2>10 DEF Timely
<1>2. ASSUME IInv, Timely, [Next]_vars PROVE Timely'
  <2>1. PICK who, B, k : Schedule(who, B, k)
    BY <1>2 DEF Timely
  <2>2. Fields /\ Flags
    BY <1>2 DEF Timely
  <2>3. ASSUME NEW n \in Sender, SendHeartbeat(n) PROVE Timely'
    BY <1>2, <2>1, <2>2, <2>3, SendKeeps
  <2>4. ASSUME NEW n \in Peer, Register(n) PROVE Timely'
    BY <1>2, <2>1, <2>2, <2>4, RegisterKeeps
  <2>5. CASE Ignore
    BY <1>2, <2>1, <2>2, <2>5, IgnoreKeeps
  <2>6. CASE Receive
    BY <1>2, <2>1, <2>2, <2>6, ReceiveKeeps
  <2>7. CASE EndFetch
    BY <1>2, <2>1, <2>2, <2>7, EndFetchKeeps
  <2>8. CASE Tick
    BY <1>2, <2>1, <2>2, <2>8, TickKeeps
  <2>9. CASE UNCHANGED vars
    <3>1. UNCHANGED <<timer, infoID, buffer, lost, ready, fetching, left, nodes_heartbeat, uptime>>
      BY <2>9 DEF vars
    <3>2. Schedule(who, B, k)'
      BY <2>1, <3>1 DEF Schedule, Mapped, SentBy, Busy, Debt, Heard
    <3> QED
      BY <2>2, <3>1, <3>2 DEF Timely, Fields, Flags
  <2> QED
    BY <1>2, <2>3, <2>4, <2>5, <2>6, <2>7, <2>8, <2>9 DEF Next
<1> QED
  BY <1>1, <1>2, Invariance, PTL DEF Spec

\* The receive loop keeps up with one datagram per round (multicast.cpp:112-155),
\* whatever the phases of the senders: the socket buffer never overflows, if what
\* everybody sends in a second can be read in a second, a fetch for every
\* heartbeat included, and the buffer has room for one datagram of each.
THEOREM NeverOverflows ==
    ASSUME ForeignIgnored, \A n \in Sender \ Stranger : NameFits(n), Schedulable
    PROVE  Spec => []NothingDropped
<1>1. Timely => NothingDropped
  BY DEF Timely, Flags, NothingDropped
<1> QED
  BY <1>1, TimelyInvariance, PTL

\* checkHeartbeats never removes a node of the group that runs, and every such
\* node is known before it could be missed, under the same condition on the load:
\* a heartbeat is read before the next one is due, so that a silence lasts less
\* than two periods (node_info_manager.cpp:141-166, Timeout is 2 there).
THEOREM NobodyMissed ==
    ASSUME ForeignIgnored, \A n \in Sender \ Stranger : NameFits(n), Schedulable
    PROVE  Spec => []HeardInTime
<1>1. Timely => HeardInTime
  <2> SUFFICES ASSUME Timely, uptime = Limit, NEW n \in Companion
               PROVE  nodes_heartbeat[n] # NoMessage /\ nodes_heartbeat[n] < Limit
    BY DEF HeardInTime
  <2>1. PICK who, B, k : Schedule(who, B, k)
    BY DEF Timely
  <2>2. IF nodes_heartbeat[n] = NoMessage THEN uptime < 2 * Period
        ELSE nodes_heartbeat[n] \in Nat /\ nodes_heartbeat[n] < 2 * Period
    BY <2>1, ShortSilence DEF Timely
  <2>3. Limit \in Nat /\ 2 * Period <= Limit /\ Period \in Nat
    BY TimeAssumption DEF Limit
  <2> QED
    BY <2>2, <2>3
<1> QED
  BY <1>1, TimelyInvariance, PTL
=============================================================================
