-------------------------- MODULE HeartbeatProofs ---------------------------
(* Proofs about HeartbeatChannel: a heartbeat survives encoding, the socket  *)
(* buffer, the receive buffer and decoding, for all lengths of ids, words,   *)
(* names and buffers; what the receive loop accepts is what a peer has sent. *)
EXTENDS HeartbeatChannel, SequenceTheorems, WellFoundedInduction, TLAPS

-----------------------------------------------------------------------------
(* The bytes of an integer.                                                  *)

\* A nonempty set of numbers has a least one: induction without an operator as
\* a parameter.
LEMMA Least ==
    ASSUME NEW T \in SUBSET Nat, T # {}
    PROVE  \E x \in T : \A y \in T : x <= y
<1>1. \A S : (S \subseteq Nat /\ S # {}) => \E x \in S : \A y \in S : ~ (<<y, x>> \in OpToRel(<, Nat))
  BY NatLessThanWellFounded, WFMin
<1>2. PICK x \in T : \A y \in T : ~ (<<y, x>> \in OpToRel(<, Nat))
  BY <1>1
<1>3. \A y \in T : <<y, x>> \in OpToRel(<, Nat) <=> y < x
  BY DEF OpToRel
<1>4. \A y \in T : ~ (y < x)
  BY <1>2, <1>3, Zenon
<1>5. \A y \in T : x <= y
  BY <1>4
<1> QED
  BY <1>5

\* f is defined up to n as Power is.
IsPower(f, n) == f = [k \in 0 .. n |-> IF k = 0 THEN 1 ELSE Base * f[k - 1]]

\* There is such a function for every n: the least n without one would have
\* a predecessor with one, and one more value makes it one for n.
LEMMA PowersExist == \A n \in Nat : \E f : IsPower(f, n)
<1> DEFINE T == {n \in Nat : ~ \E f : IsPower(f, n)}
<1> SUFFICES ASSUME T # {} PROVE FALSE
  OBVIOUS
<1>1. PICK n \in T : \A m \in T : n <= m
  BY Least
<1>2. n \in Nat /\ ~ \E f : IsPower(f, n)
  OBVIOUS
<1>3. CASE n = 0
  <2>1. IsPower([k \in 0 .. 0 |-> 1], 0)
    BY DEF IsPower
  <2> QED
    BY <1>2, <1>3, <2>1
<1>4. CASE n # 0
  <2>1. n - 1 \in Nat /\ ~ (n <= n - 1)
    BY <1>2, <1>4
  <2>2. PICK f : IsPower(f, n - 1)
    BY <1>1, <2>1
  <2> DEFINE g == [k \in 0 .. n |-> IF k = n THEN Base * f[n - 1] ELSE f[k]]
  <2>3. \A k \in 0 .. (n - 1) : f[k] = IF k = 0 THEN 1 ELSE Base * f[k - 1]
    BY <2>2, SMT DEF IsPower
  <2>4. \A k \in 0 .. n : g[k] = IF k = 0 THEN 1 ELSE Base * g[k - 1]
    BY <1>2, <1>4, <2>3
  <2>5. IsPower(g, n)
    BY <2>4 DEF IsPower
  <2> QED
    BY <1>2, <2>5
<1> QED
  BY <1>3, <1>4

\* Hence Power satisfies its recursive definition.
LEMMA PowerDef ==
    /\ Power[0] = 1
    /\ \A k \in 1 .. Width : Power[k] = Base * Power[k - 1]
<1>1. Width \in Nat
  BY ByteAssumption
<1>2. \E f : f = [k \in 0 .. Width |-> IF k = 0 THEN 1 ELSE Base * f[k - 1]]
  BY <1>1, PowersExist DEF IsPower
<1>3. Power = [k \in 0 .. Width |-> IF k = 0 THEN 1 ELSE Base * Power[k - 1]]
  BY <1>2, Zenon DEF Power
<1>4. \A k \in 0 .. Width : Power[k] = IF k = 0 THEN 1 ELSE Base * Power[k - 1]
  BY <1>3, Zenon
<1> QED
  BY <1>1, <1>4

\* Powers are positive.
LEMMA PowerPositive == \A k \in 0 .. Width : Power[k] \in Nat \ {0}
<1> DEFINE T == {k \in 0 .. Width : Power[k] \notin Nat \ {0}}
<1> SUFFICES ASSUME T # {} PROVE FALSE
  OBVIOUS
<1>0. Base \in Nat \ {0} /\ Width \in Nat
  BY ByteAssumption
<1>1. PICK k \in T : \A m \in T : k <= m
  <2>1. T \in SUBSET Nat
    BY <1>0
  <2> QED
    BY <2>1, Least
<1>2. k # 0
  BY PowerDef
<1>3. k - 1 \in 0 .. Width /\ ~ (k <= k - 1)
  BY <1>0, <1>2
<1>4. Power[k - 1] \in Nat \ {0}
  BY <1>1, <1>3
<1>5. Power[k] = Base * Power[k - 1]
  BY <1>0, <1>2, PowerDef
<1>6. \A a, b \in Nat \ {0} : a * b \in Nat \ {0}
  OBVIOUS
<1> QED
  BY <1>0, <1>4, <1>5, <1>6

\* Quotient and remainder are what they are known for, and nothing else is.
LEMMA DivUnique ==
    ASSUME NEW u \in Nat, NEW d \in Nat \ {0}, NEW q \in Nat, NEW r \in Nat, r < d, u = q * d + r
    PROVE  u \div d = q /\ u % d = r
OBVIOUS

\* Every number has them.
LEMMA DivMod ==
    ASSUME NEW u \in Nat, NEW d \in Nat \ {0}
    PROVE  u \div d \in Nat /\ u % d \in 0 .. (d - 1) /\ u = (u \div d) * d + (u % d)
OBVIOUS

\* Dividing twice is dividing by the product.
LEMMA DivDiv ==
    ASSUME NEW u \in Nat, NEW w \in Nat \ {0}, NEW b \in Nat \ {0}
    PROVE  (u \div w) \div b = u \div (b * w)
<1> DEFINE q == u \div w
           r == u % w
           p == q \div b
           s == q % b
<1>1. q \in Nat /\ r \in 0 .. (w - 1) /\ u = q * w + r
  BY DivMod
<1>2. p \in Nat /\ s \in 0 .. (b - 1) /\ q = p * b + s
  BY <1>1, DivMod
<1> HIDE DEF q, r, p, s
<1>3. u = p * (b * w) + (s * w + r)
  BY <1>1, <1>2
<1>4. s * w <= (b - 1) * w /\ s * w \in Nat
  BY <1>2
<1>5. s * w + r \in Nat /\ s * w + r < b * w /\ b * w \in Nat \ {0}
  BY <1>1, <1>2, <1>4
<1>6. u \div (b * w) = p
  BY <1>2, <1>3, <1>5, DivUnique
<1> QED
  BY <1>6 DEF p, q

\* v is defined as the values that DecodeInt adds up from the bytes of word.
IsValue(v, word) == v = [k \in 0 .. Width |-> IF k = 0 THEN 0 ELSE v[k - 1] * Base + word[k]]

\* For the bytes of u these values are the quotients of u by falling powers.
LEMMA DigitsOf ==
    ASSUME NEW u \in 0 .. (Power[Width] - 1)
    PROVE  LET v == [k \in 0 .. Width |-> u \div Power[Width - k]]
               word == [k \in 1 .. Width |-> (u \div Power[Width - k]) % Base]
           IN  IsValue(v, word) /\ word \in [1 .. Width -> Byte] /\ v[Width] = u
<1> DEFINE v == [k \in 0 .. Width |-> u \div Power[Width - k]]
           word == [k \in 1 .. Width |-> (u \div Power[Width - k]) % Base]
<1>1. Width \in Nat \ {0} /\ Base \in Nat \ {0} /\ u \in Nat /\ Power[Width] \in Nat
  BY ByteAssumption, PowerPositive
<1>2. v[0] = 0
  <2>1. u = 0 * Power[Width] + u /\ u < Power[Width] /\ Power[Width] \in Nat \ {0}
    BY <1>1
  <2>2. u \div Power[Width] = 0
    BY <1>1, <2>1, DivUnique
  <2> QED
    BY <1>1, <2>2
<1>3. ASSUME NEW k \in 1 .. Width
      PROVE  v[k] = v[k - 1] * Base + word[k] /\ word[k] \in Byte
  <2> DEFINE w == Power[Width - k]
             q == u \div w
  <2>1. w \in Nat \ {0} /\ Power[Width - (k - 1)] = Base * w
    <3>1. Width - k \in 0 .. Width /\ Width - (k - 1) \in 1 .. Width /\ (Width - (k - 1)) - 1 = Width - k
      BY <1>1
    <3> QED
      BY <3>1, PowerDef, PowerPositive
  <2>2. q \div Base = u \div (Base * w)
    BY <1>1, <2>1, DivDiv
  <2>3. q \in Nat
    BY <1>1, <2>1, DivMod
  <2>4. q = (q \div Base) * Base + (q % Base) /\ q % Base \in 0 .. (Base - 1)
    BY <1>1, <2>3, DivMod
  <2>5. v[k] = q /\ v[k - 1] = u \div (Base * w) /\ word[k] = q % Base
    BY <1>1, <2>1
  <2> HIDE DEF v, word, q, w
  <2> QED
    BY <2>2, <2>4, <2>5 DEF Byte
<1>4. v[Width] = u
  <2>1. u = u * 1 + 0
    BY <1>1
  <2>2. u \div 1 = u
    BY <1>1, <2>1, DivUnique
  <2> QED
    BY <1>1, <2>2, PowerDef
<1>5. \A k \in 0 .. Width : v[k] = IF k = 0 THEN 0 ELSE v[k - 1] * Base + word[k]
  <2>1. \A k \in 0 .. Width : k = 0 \/ k \in 1 .. Width
    BY <1>1
  <2> HIDE DEF v, word
  <2> QED
    BY <1>2, <1>3, <2>1
<1>6. v = [k \in 0 .. Width |-> v[k]]
  OBVIOUS
<1>7. IsValue(v, word)
  BY <1>5, <1>6 DEF IsValue
<1>8. word \in [1 .. Width -> Byte]
  BY <1>3
<1> QED
  BY <1>4, <1>7, <1>8

\* Two functions defined in this way are the same up to the least place at which
\* they differ, so there is none.
LEMMA ValueUnique ==
    ASSUME NEW v, NEW f, NEW word, IsValue(v, word), IsValue(f, word)
    PROVE  \A k \in 0 .. Width : v[k] = f[k]
<1> DEFINE T == {k \in 0 .. Width : v[k] # f[k]}
<1> SUFFICES ASSUME T # {} PROVE FALSE
  OBVIOUS
<1>0. Width \in Nat
  BY ByteAssumption
<1>1. PICK k \in T : \A m \in T : k <= m
  <2>1. T \in SUBSET Nat
    BY <1>0
  <2> QED
    BY <2>1, Least
<1>2. \A m \in 0 .. Width : /\ v[m] = IF m = 0 THEN 0 ELSE v[m - 1] * Base + word[m]
                            /\ f[m] = IF m = 0 THEN 0 ELSE f[m - 1] * Base + word[m]
  BY Zenon DEF IsValue
<1>3. k # 0
  BY <1>2
<1>4. k - 1 \in 0 .. Width /\ ~ (k <= k - 1)
  BY <1>0, <1>3
<1>5. v[k - 1] = f[k - 1]
  BY <1>1, <1>4
<1> QED
  BY <1>2, <1>3, <1>5

\* Every integer of the wire format survives the casts, htonl, the copy into the
\* datagram and ntohl, whatever its width and sign (heartbeat_message.cpp:19-24,
\* 65-71): encode writes Width bytes and decode makes the same number of them.
THEOREM WordsSurvive == WordCodec
<1> SUFFICES ASSUME NEW i \in Int32
             PROVE  /\ EncodeInt(i) \in Seq(Byte) /\ Len(EncodeInt(i)) = Width
                    /\ DecodeInt(EncodeInt(i)) = i
  BY DEF WordCodec
<1> DEFINE u == ToUnsigned(i)
           M == Power[Width]
           word == EncodeInt(i)
<1>1. Width \in Nat \ {0} /\ M \in Nat \ {0}
  BY ByteAssumption, PowerPositive
<1>2. i \in Int /\ i >= -(M \div 2) /\ i < M \div 2
  BY <1>1 DEF Int32
<1>3. u \in 0 .. (M - 1) /\ ToSigned(u) = i
  BY <1>1, <1>2 DEF ToUnsigned, ToSigned
<1>4. word = [k \in 1 .. Width |-> (u \div Power[Width - k]) % Base]
  BY DEF EncodeInt
<1> HIDE DEF u, M, word
<1>5. PICK v : IsValue(v, word) /\ v[Width] = u
  BY <1>3, <1>4, DigitsOf DEF M
<1>6. word \in [1 .. Width -> Byte]
  BY <1>3, <1>4, DigitsOf DEF M
<1>7. word \in Seq(Byte) /\ Len(word) = Width
  BY <1>1, <1>6
<1>8. DecodeInt(word) = i
  <2> DEFINE value == CHOOSE f : IsValue(f, word)
  <2>1. IsValue(value, word)
    BY <1>5, Zenon
  <2>2. DecodeInt(word) = ToSigned(value[Width])
    BY DEF DecodeInt, IsValue
  <2> HIDE DEF value
  <2>3. value[Width] = u
    BY <1>1, <1>5, <2>1, ValueUnique
  <2> QED
    BY <1>3, <2>2, <2>3
<1> QED
  BY <1>7, <1>8 DEF word

-----------------------------------------------------------------------------
(* The layout of a heartbeat.                                                *)

\* The first of two joined sequences is read back by its length.
LEMMA First ==
    ASSUME NEW S, NEW b \in Seq(S), NEW c \in Seq(S)
    PROVE  SubSeq(b \o c, 1, Len(b)) = b
<1> DEFINE d == SubSeq(b \o c, 1, Len(b))
<1>1. Len(b) \in Nat /\ \A k \in 1 .. Len(b) : (b \o c)[k] = b[k] /\ b[k] \in S
  BY ConcatProperties, LenProperties
<1>2. d \in Seq(S) /\ Len(d) = Len(b) /\ \A k \in 1 .. Len(b) : d[k] = (b \o c)[k]
  BY <1>1, SubSeqProperties
<1> HIDE DEF d
<1> QED
  BY <1>1, <1>2, SeqEqual

\* A piece in the middle is read back from its offset.
LEMMA Piece ==
    ASSUME NEW S, NEW a \in Seq(S), NEW b \in Seq(S), NEW c \in Seq(S)
    PROVE  SubSeq((a \o b) \o c, Len(a) + 1, Len(a) + Len(b)) = b
<1> DEFINE e == (a \o b) \o c
           d == SubSeq(e, Len(a) + 1, Len(a) + Len(b))
<1>1. Len(a) \in Nat /\ Len(b) \in Nat /\ \A k \in 1 .. Len(b) : b[k] \in S
  BY LenProperties
<1>2. a \o b \in Seq(S) /\ Len(a \o b) = Len(a) + Len(b)
  BY ConcatProperties
<1>3. ASSUME NEW k \in 1 .. Len(b) PROVE e[Len(a) + k] = b[k]
  <2>1. (a \o b)[Len(a) + k] = b[k]
    BY <1>1, ConcatProperties
  <2>2. e[Len(a) + k] = (a \o b)[Len(a) + k]
    BY <1>1, <1>2, ConcatProperties, LenProperties
  <2> QED
    BY <2>1, <2>2
<1> HIDE DEF e
<1>4. \A i \in (Len(a) + 1) .. (Len(a) + Len(b)) : e[i] = b[i - Len(a)]
  <2> SUFFICES ASSUME NEW i \in (Len(a) + 1) .. (Len(a) + Len(b)) PROVE e[i] = b[i - Len(a)]
    OBVIOUS
  <2>1. i - Len(a) \in 1 .. Len(b) /\ i = Len(a) + (i - Len(a))
    BY <1>1
  <2> QED
    BY <1>3, <2>1
<1>5. \A i \in (Len(a) + 1) .. (Len(a) + Len(b)) : e[i] \in S
  BY <1>1, <1>4
<1>6. d \in Seq(S) /\ Len(d) = Len(b) /\ \A k \in 1 .. Len(b) : d[k] = e[Len(a) + k]
  BY <1>1, <1>5, SubSeqProperties
<1> HIDE DEF d
<1>7. d = b
  BY <1>1, <1>3, <1>6, SeqEqual
<1> QED
  BY <1>7 DEF d, e

\* So is the last one.
LEMMA Last ==
    ASSUME NEW S, NEW a \in Seq(S), NEW b \in Seq(S)
    PROVE  SubSeq(a \o b, Len(a) + 1, Len(a \o b)) = b
<1>1. (a \o b) \o <<>> = a \o b /\ Len(a \o b) = Len(a) + Len(b)
  BY ConcatProperties, ConcatEmptySeq
<1>2. SubSeq((a \o b) \o <<>>, Len(a) + 1, Len(a) + Len(b)) = b
  BY Piece, EmptySeq
<1> QED
  BY <1>1, <1>2

\* Two pieces of a datagram, joined.
Cat(a, b) == a \o b

\* Pieces may be joined from the left or from the right.
LEMMA JoinedAlike ==
    ASSUME NEW S
    PROVE  \A a, b, c \in Seq(S) : Cat(Cat(a, b), c) = Cat(a, Cat(b, c)) /\ Cat(a, b) \in Seq(S)
<1>1. \A a, b, c \in Seq(S) : Cat(Cat(a, b), c) = Cat(a, Cat(b, c))
  BY ConcatAssociative DEF Cat
<1>2. \A a, b \in Seq(S) : Cat(a, b) \in Seq(S)
  BY ConcatProperties DEF Cat
<1> QED
  BY <1>1, <1>2

\* decode inverts encode: every field is read at the offset where it was
\* written, whatever the lengths, as long as the datagram fits the receive
\* buffer (heartbeat_message.cpp:13-101).
THEOREM RoundTrip ==
    ASSUME NEW v1 \in Int32, NEW v2 \in Int32, NEW v3 \in Int32,
           NEW id \in Seq(Byte), Len(id) = IdLen,
           NEW i \in Int32, NEW port \in Int32,
           NEW name \in Seq(Byte), FixedSize + Len(name) <= BufferSize,
           NEW msg, msg = [zlc_version |-> <<v1, v2, v3>>, node_id |-> id, info_id |-> i,
                           service_port |-> port, group_name |-> name]
    PROVE  Decode(CutOff(Encode(msg))) = msg
<1> DEFINE w1 == EncodeInt(v1)
           w2 == EncodeInt(v2)
           w3 == EncodeInt(v3)
           w4 == EncodeInt(i)
           w5 == EncodeInt(port)
<1>1. /\ w1 \in Seq(Byte) /\ w2 \in Seq(Byte) /\ w3 \in Seq(Byte) /\ w4 \in Seq(Byte) /\ w5 \in Seq(Byte)
      /\ Len(w1) = Width /\ Len(w2) = Width /\ Len(w3) = Width /\ Len(w4) = Width /\ Len(w5) = Width
      /\ DecodeInt(w1) = v1 /\ DecodeInt(w2) = v2 /\ DecodeInt(w3) = v3 /\ DecodeInt(w4) = i /\ DecodeInt(w5) = port
  BY WordsSurvive DEF WordCodec
<1> HIDE DEF w1, w2, w3, w4, w5
<1> DEFINE a2 == Cat(w1, w2)
           a3 == Cat(a2, w3)
           a4 == Cat(a3, id)
           a5 == Cat(a4, w4)
           a6 == Cat(a5, w5)
           data == Cat(a6, name)
           r6 == name
           r5 == Cat(w5, r6)
           r4 == Cat(w4, r5)
           r3 == Cat(id, r4)
           r2 == Cat(w3, r3)
           r1 == Cat(w2, r2)
<1>2. Width \in Nat /\ IdLen \in Nat /\ BufferSize \in Nat /\ Len(name) \in Nat
  BY ByteAssumption, LengthAssumption, LenProperties
<1>3. /\ a2 \in Seq(Byte) /\ Len(a2) = 2 * Width
      /\ a3 \in Seq(Byte) /\ Len(a3) = 3 * Width
      /\ a4 \in Seq(Byte) /\ Len(a4) = 3 * Width + IdLen
      /\ a5 \in Seq(Byte) /\ Len(a5) = 4 * Width + IdLen
      /\ a6 \in Seq(Byte) /\ Len(a6) = 5 * Width + IdLen
      /\ data \in Seq(Byte) /\ Len(data) = 5 * Width + IdLen + Len(name)
  <2>1. a2 \in Seq(Byte) /\ Len(a2) = Len(w1) + Len(w2)
    BY <1>1, ConcatProperties DEF Cat
  <2>2. a3 \in Seq(Byte) /\ Len(a3) = Len(a2) + Len(w3)
    BY <1>1, <2>1, ConcatProperties DEF Cat
  <2>3. a4 \in Seq(Byte) /\ Len(a4) = Len(a3) + Len(id)
    BY <1>1, <2>2, ConcatProperties DEF Cat
  <2>4. a5 \in Seq(Byte) /\ Len(a5) = Len(a4) + Len(w4)
    BY <1>1, <2>3, ConcatProperties DEF Cat
  <2>5. a6 \in Seq(Byte) /\ Len(a6) = Len(a5) + Len(w5)
    BY <1>1, <2>4, ConcatProperties DEF Cat
  <2>6. data \in Seq(Byte) /\ Len(data) = Len(a6) + Len(name)
    BY <2>5, ConcatProperties DEF Cat
  <2> HIDE DEF a2, a3, a4, a5, a6, data
  <2> QED
    BY <1>1, <1>2, <2>1, <2>2, <2>3, <2>4, <2>5, <2>6
<1>4. r6 \in Seq(Byte) /\ r5 \in Seq(Byte) /\ r4 \in Seq(Byte) /\ r3 \in Seq(Byte) /\ r2 \in Seq(Byte)
         /\ r1 \in Seq(Byte)
  BY <1>1, JoinedAlike
<1> HIDE DEF a2, a3, a4, a5, a6, data, r1, r2, r3, r4, r5, r6
<1>5. /\ data = Cat(a6, r6) /\ data = Cat(a5, r5) /\ data = Cat(a4, r4) /\ data = Cat(a3, r3)
      /\ data = Cat(a2, r2) /\ data = Cat(w1, r1)
  <2>1. Cat(a6, r6) = Cat(a5, r5)
    <3>1. a5 \in Seq(Byte) /\ w5 \in Seq(Byte) /\ r6 \in Seq(Byte)
      BY <1>1, <1>3, <1>4
    <3>2. Cat(Cat(a5, w5), r6) = Cat(a5, Cat(w5, r6))
      BY ONLY <3>1, JoinedAlike
    <3> QED
      BY <3>2 DEF a6, r5
  <2>2. Cat(a5, r5) = Cat(a4, r4)
    <3>1. a4 \in Seq(Byte) /\ w4 \in Seq(Byte) /\ r5 \in Seq(Byte)
      BY <1>1, <1>3, <1>4
    <3>2. Cat(Cat(a4, w4), r5) = Cat(a4, Cat(w4, r5))
      BY ONLY <3>1, JoinedAlike
    <3> QED
      BY <3>2 DEF a5, r4
  <2>3. Cat(a4, r4) = Cat(a3, r3)
    <3>1. a3 \in Seq(Byte) /\ id \in Seq(Byte) /\ r4 \in Seq(Byte)
      BY <1>1, <1>3, <1>4
    <3>2. Cat(Cat(a3, id), r4) = Cat(a3, Cat(id, r4))
      BY ONLY <3>1, JoinedAlike
    <3> QED
      BY <3>2 DEF a4, r3
  <2>4. Cat(a3, r3) = Cat(a2, r2)
    <3>1. a2 \in Seq(Byte) /\ w3 \in Seq(Byte) /\ r3 \in Seq(Byte)
      BY <1>1, <1>3, <1>4
    <3>2. Cat(Cat(a2, w3), r3) = Cat(a2, Cat(w3, r3))
      BY ONLY <3>1, JoinedAlike
    <3> QED
      BY <3>2 DEF a3, r2
  <2>5. Cat(a2, r2) = Cat(w1, r1)
    <3>1. w1 \in Seq(Byte) /\ w2 \in Seq(Byte) /\ r2 \in Seq(Byte)
      BY <1>1, <1>3, <1>4
    <3>2. Cat(Cat(w1, w2), r2) = Cat(w1, Cat(w2, r2))
      BY ONLY <3>1, JoinedAlike
    <3> QED
      BY <3>2 DEF a2, r1
  <2> QED
    BY <2>1, <2>2, <2>3, <2>4, <2>5 DEF data, r6
<1>6. Encode(msg) = data
  BY DEF Encode, Cat, w1, w2, w3, w4, w5, a2, a3, a4, a5, a6, data
<1>7. /\ SubSeq(data, 1, Width) = w1
      /\ SubSeq(data, Width + 1, 2 * Width) = w2
      /\ SubSeq(data, 2 * Width + 1, 3 * Width) = w3
      /\ SubSeq(data, 3 * Width + 1, 3 * Width + IdLen) = id
      /\ SubSeq(data, 3 * Width + IdLen + 1, 4 * Width + IdLen) = w4
      /\ SubSeq(data, 4 * Width + IdLen + 1, 5 * Width + IdLen) = w5
      /\ SubSeq(data, FixedSize + 1, Len(data)) = name
  <2>1. SubSeq(Cat(w1, r1), 1, Len(w1)) = w1
    BY <1>1, <1>4, First DEF Cat
  <2>2. SubSeq(Cat(a2, r2), Len(w1) + 1, Len(w1) + Len(w2)) = w2
    BY <1>1, <1>4, Piece DEF Cat, a2
  <2>3. SubSeq(Cat(a3, r3), Len(a2) + 1, Len(a2) + Len(w3)) = w3
    BY <1>1, <1>3, <1>4, Piece DEF Cat, a3
  <2>4. SubSeq(Cat(a4, r4), Len(a3) + 1, Len(a3) + Len(id)) = id
    BY <1>1, <1>3, <1>4, Piece DEF Cat, a4
  <2>5. SubSeq(Cat(a5, r5), Len(a4) + 1, Len(a4) + Len(w4)) = w4
    BY <1>1, <1>3, <1>4, Piece DEF Cat, a5
  <2>6. SubSeq(Cat(a6, r6), Len(a5) + 1, Len(a5) + Len(w5)) = w5
    BY <1>1, <1>3, <1>4, Piece DEF Cat, a6
  <2>7. SubSeq(Cat(a6, r6), Len(a6) + 1, Len(Cat(a6, r6))) = name
    BY <1>1, <1>3, <1>4, Last DEF Cat, r6
  <2>8. /\ Width + Width = 2 * Width /\ 2 * Width + Width = 3 * Width
        /\ (3 * Width + IdLen) + Width = 4 * Width + IdLen /\ (4 * Width + IdLen) + Width = 5 * Width + IdLen
    BY <1>2
  <2> QED
    BY <1>1, <1>3, <1>5, <2>1, <2>2, <2>3, <2>4, <2>5, <2>6, <2>7, <2>8 DEF FixedSize
<1>8. CutOff(data) = data
  <2>1. Len(data) <= BufferSize
    BY <1>2, <1>3 DEF FixedSize
  <2>2. Len(data) \in Nat
    BY <1>3, LenProperties
  <2>3. (IF Len(data) < BufferSize THEN Len(data) ELSE BufferSize) = Len(data)
    BY <1>2, <2>1, <2>2
  <2> QED
    BY <1>3, <2>3, SubSeqFull DEF CutOff
<1>9. [k \in 1 .. 3 |-> ReadInt(data, (k - 1) * Width)] = <<v1, v2, v3>>
  <2> DEFINE r(k) == ReadInt(data, (k - 1) * Width)
             f == [k \in 1 .. 3 |-> r(k)]
  <2>1. (1 - 1) * Width + 1 = 1 /\ (1 - 1) * Width + Width = Width
    BY <1>2
  <2>2. (2 - 1) * Width + 1 = Width + 1 /\ (2 - 1) * Width + Width = 2 * Width
    BY <1>2
  <2>3. (3 - 1) * Width + 1 = 2 * Width + 1 /\ (3 - 1) * Width + Width = 3 * Width
    BY <1>2
  <2>4. r(1) = v1 /\ r(2) = v2 /\ r(3) = v3
    BY <1>1, <1>7, <2>1, <2>2, <2>3 DEF ReadInt
  <2> HIDE DEF r
  <2>5. f \in Seq(Int32) /\ Len(f) = 3 /\ f[1] = v1 /\ f[2] = v2 /\ f[3] = v3
    BY <2>4
  <2> QED
    BY <2>5, SeqEqual DEF r
<1>10. ReadInt(data, 3 * Width + IdLen) = i /\ ReadInt(data, 4 * Width + IdLen) = port
  <2>1. 3 * Width + IdLen + Width = 4 * Width + IdLen /\ 4 * Width + IdLen + Width = 5 * Width + IdLen
    BY <1>2
  <2> QED
    BY <1>1, <1>7, <2>1 DEF ReadInt
<1>11. ~(Len(data) < FixedSize)
  BY <1>2, <1>3 DEF FixedSize
<1> QED
  BY <1>6, <1>7, <1>8, <1>9, <1>10, <1>11 DEF Decode

-----------------------------------------------------------------------------
(* The receive loop.                                                         *)

\* The datagrams that one sender, and that all, have sent so far.
SentBy(n) ==
    IF n \in Stranger THEN {[ip |-> Ip[n], data |-> data] : data \in Foreign}
    ELSE {[ip |-> Ip[n], data |-> Encode(Heartbeat(n, id))] : id \in 0 .. infoID[n]}

SentSoFar == UNION {SentBy(n) : n \in Sender}

IInv ==
    /\ infoID \in [Sender -> 0 .. MaxInfoID]
    /\ buffer \in Seq(SentSoFar)
    /\ AcceptedIsSent

\* A heartbeat of a node whose group name fits comes out as it went in.
LEMMA HeartbeatSurvives ==
    ASSUME NEW n \in Sender \ Stranger, NameFits(n), NEW id \in 0 .. MaxInfoID
    PROVE  Decode(CutOff(Encode(Heartbeat(n, id)))) = Heartbeat(n, id)
<1>1. 0 \in Int32 /\ 1 \in Int32 /\ ToSigned(id) \in Int32
  BY IntegerAssumption
<1>2. NodeID[n] \in Seq(Byte) /\ Len(NodeID[n]) = IdLen /\ GroupName[n] \in Seq(Byte) /\ ServicePort[n] \in Int32
  BY NodeAssumption
<1>3. FixedSize + Len(GroupName[n]) <= BufferSize
  BY DEF NameFits
<1> QED
  BY <1>1, <1>2, <1>3, RoundTrip DEF Heartbeat

\* What has been sent stays sent, and what has been accepted stays justified,
\* as infoID grows.
LEMMA Monotone ==
    ASSUME IInv, infoID' \in [Sender -> 0 .. MaxInfoID], \A n \in Sender : infoID[n] <= infoID'[n]
    PROVE  /\ SentSoFar \subseteq SentSoFar'
           /\ accepted' = accepted => AcceptedIsSent'
<1>1. \A n \in Sender : 0 .. infoID[n] \subseteq 0 .. infoID'[n]
  <2>1. MaxInfoID \in Nat /\ infoID \in [Sender -> 0 .. MaxInfoID]
    BY TimeAssumption DEF IInv
  <2> QED
    BY <2>1
<1>2. SentSoFar \subseteq SentSoFar'
  <2>1. ASSUME NEW n \in Sender PROVE SentBy(n) \subseteq SentBy(n)'
    BY <1>1 DEF SentBy
  <2> QED
    BY <2>1 DEF SentSoFar
<1>3. ASSUME accepted' = accepted PROVE AcceptedIsSent'
  BY <1>1, <1>3 DEF IInv, AcceptedIsSent, Peer
<1> QED
  BY <1>2, <1>3

\* A datagram that the filters let through is a heartbeat of a peer.
LEMMA AcceptedFromPeer ==
    ASSUME ForeignIgnored, \A n \in Sender \ Stranger : NameFits(n),
           IInv, NEW d \in SentSoFar, Accepts(d.ip, Decode(CutOff(d.data)))
    PROVE  \E n \in Peer : \E id \in 0 .. infoID[n] :
               /\ Decode(CutOff(d.data)) = Heartbeat(n, id)
               /\ d.ip = Ip[n]
               /\ GroupName[n] = GroupName[Observer]
               /\ IsInSameSubnet(Ip[n], Ip[Observer])
<1>1. PICK n \in Sender : d \in SentBy(n)
  BY DEF SentSoFar
<1>2. n \notin Stranger
  <2> SUFFICES ASSUME n \in Stranger PROVE FALSE
    OBVIOUS
  <2>1. PICK data \in Foreign : d = [ip |-> Ip[n], data |-> data]
    BY <1>1 DEF SentBy
  <2> QED
    BY <2>1 DEF ForeignIgnored
<1>3. PICK id \in 0 .. infoID[n] : d = [ip |-> Ip[n], data |-> Encode(Heartbeat(n, id))]
  BY <1>1, <1>2 DEF SentBy
<1>4. id \in 0 .. MaxInfoID
  <2>1. MaxInfoID \in Nat /\ infoID \in [Sender -> 0 .. MaxInfoID]
    BY TimeAssumption DEF IInv
  <2> QED
    BY <1>3, <2>1
<1>5. Decode(CutOff(d.data)) = Heartbeat(n, id) /\ d.ip = Ip[n]
  BY <1>2, <1>3, <1>4, HeartbeatSurvives
<1>6. Accepts(Ip[n], Heartbeat(n, id))
  BY <1>5
<1>7. GroupName[n] = GroupName[Observer] /\ NodeID[n] # NodeID[Observer] /\ IsInSameSubnet(Ip[n], Ip[Observer])
  BY <1>6 DEF Accepts, Heartbeat, IsInSameSubnet
<1>8. n \in Peer
  BY <1>2, <1>7 DEF Peer
<1> QED
  BY <1>5, <1>7, <1>8

\* The loops, registrations and time keep the invariant.
LEMMA Invariance ==
    ASSUME ForeignIgnored, \A n \in Sender \ Stranger : NameFits(n)
    PROVE  Spec => []IInv
<1>1. ASSUME Init PROVE IInv
  <2>1. infoID \in [Sender -> 0 .. MaxInfoID]
    BY <1>1, TimeAssumption, IntegerAssumption DEF Init
  <2>2. buffer \in Seq(SentSoFar)
    BY <1>1, EmptySeq DEF Init
  <2> QED
    BY <1>1, <2>1, <2>2 DEF Init, IInv, AcceptedIsSent
<1>2. ASSUME IInv, [Next]_vars PROVE IInv'
  <2> USE <1>2
  <2>1. infoID \in [Sender -> 0 .. MaxInfoID] /\ buffer \in Seq(SentSoFar) /\ MaxInfoID \in Nat
    BY TimeAssumption DEF IInv
  <2>2. ASSUME infoID' = infoID PROVE SentSoFar' = SentSoFar
    BY <2>2 DEF SentSoFar, SentBy
  <2>3. ASSUME infoID' = infoID, accepted' = accepted PROVE AcceptedIsSent'
    BY <2>1, <2>3, Monotone
  <2>4. CASE UNCHANGED <<infoID, buffer, accepted>>
    BY <2>1, <2>2, <2>3, <2>4 DEF IInv
  <2>5. ASSUME NEW n \in Sender, SendHeartbeat(n) PROVE IInv'
    <3>1. infoID' = infoID /\ accepted' = accepted
      BY <2>5 DEF SendHeartbeat
    <3>2. ASSUME NEW data \in IF n \in Stranger THEN Foreign ELSE {Encode(Heartbeat(n, infoID[n]))}
          PROVE  [ip |-> Ip[n], data |-> data] \in SentSoFar
      <4>1. infoID[n] \in 0 .. infoID[n]
        BY <2>1
      <4>2. [ip |-> Ip[n], data |-> data] \in SentBy(n)
        BY <3>2, <4>1 DEF SentBy
      <4> QED
        BY <4>2 DEF SentSoFar
    <3>3. buffer' \in Seq(SentSoFar)
      <4>1. PICK data \in IF n \in Stranger THEN Foreign ELSE {Encode(Heartbeat(n, infoID[n]))} :
               buffer' = IF Len(buffer) < Capacity THEN Append(buffer, [ip |-> Ip[n], data |-> data]) ELSE buffer
        BY <2>5 DEF SendHeartbeat
      <4> QED
        BY <2>1, <3>2, <4>1, AppendProperties
    <3> QED
      BY <2>1, <2>2, <2>3, <3>1, <3>3 DEF IInv
  <2>6. ASSUME NEW n \in Peer, Register(n) PROVE IInv'
    <3>1. infoID' \in [Sender -> 0 .. MaxInfoID] /\ \A m \in Sender : infoID[m] <= infoID'[m]
      BY <2>1, <2>6 DEF Register, Peer
    <3>2. buffer' = buffer /\ accepted' = accepted
      BY <2>6 DEF Register
    <3>3. SentSoFar \subseteq SentSoFar' /\ AcceptedIsSent'
      BY <3>1, <3>2, Monotone
    <3>4. buffer \in Seq(SentSoFar')
      BY <2>1, <3>3, SeqMonotonic
    <3> QED
      BY <3>1, <3>2, <3>3, <3>4 DEF IInv
  <2>7. CASE Ignore
    <3>1. infoID' = infoID /\ accepted' = accepted /\ buffer' = Tail(buffer) /\ buffer # <<>>
      BY <2>7 DEF Ignore
    <3> QED
      BY <2>1, <2>2, <2>3, <3>1, HeadTailProperties DEF IInv
  <2>8. CASE Receive
    <3> DEFINE d == Head(buffer)
    <3>1. infoID' = infoID /\ buffer' = Tail(buffer) /\ buffer # <<>>
      BY <2>8 DEF Receive
    <3>2. d \in SentSoFar /\ buffer' \in Seq(SentSoFar)
      BY <2>1, <3>1, HeadTailProperties
    <3>3. Accepts(d.ip, Decode(CutOff(d.data))) /\ accepted' = [ip |-> d.ip, msg |-> Decode(CutOff(d.data))]
      BY <2>8 DEF Receive, Process
    <3> HIDE DEF d
    <3>4. PICK n \in Peer : \E id \in 0 .. infoID[n] :
               /\ Decode(CutOff(d.data)) = Heartbeat(n, id)
               /\ d.ip = Ip[n]
               /\ GroupName[n] = GroupName[Observer]
               /\ IsInSameSubnet(Ip[n], Ip[Observer])
      BY <3>2, <3>3, AcceptedFromPeer
    <3>5. accepted'.msg = Decode(CutOff(d.data)) /\ accepted'.ip = d.ip
      BY <3>3
    <3>6. AcceptedIsSent'
      BY <3>1, <3>4, <3>5 DEF AcceptedIsSent
    <3> QED
      BY <2>1, <2>2, <3>1, <3>2, <3>6 DEF IInv
  <2>9. CASE EndFetch
    BY <2>4, <2>9 DEF EndFetch
  <2>10. CASE Tick
    <3>1. infoID' = infoID /\ buffer' = buffer /\ accepted' = NoMessage
      BY <2>10 DEF Tick
    <3> QED
      BY <2>1, <2>2, <3>1 DEF IInv, AcceptedIsSent
  <2>11. CASE UNCHANGED vars
    BY <2>4, <2>11 DEF vars
  <2> QED
    BY <2>5, <2>6, <2>7, <2>8, <2>9, <2>10, <2>11 DEF Next
<1> QED
  BY <1>1, <1>2, PTL DEF Spec

\* Whatever the receive loop processes is, field by field, a heartbeat that
\* another node of its group and subnet has sent from that very address, in
\* whatever order datagrams arrive and however many are dropped: encode, the
\* receive buffer, decode and the filters together let nothing else through
\* (heartbeat_message.cpp:13-101, multicast.cpp:112-155).  The hypotheses: the
\* group names fit the receive buffer, and the strangers' datagrams do not read
\* like heartbeats of the group.
THEOREM OnlySentAccepted ==
    ASSUME ForeignIgnored, \A n \in Sender \ Stranger : NameFits(n)
    PROVE  Spec => []AcceptedIsSent
<1>1. IInv => AcceptedIsSent
  BY DEF IInv
<1> QED
  BY <1>1, Invariance, PTL
=============================================================================
