----------------------------- MODULE Heartbeat ------------------------------
(* The bytes of a heartbeat: HeartbeatMessage::encode and decode, the        *)
(* receive buffer that cuts a datagram off, and the subnet filter.           *)
(* Words of Width bytes stand for int32_t, IdLen for the 36 characters of a  *)
(* UUID, BufferSize for the 1024 bytes of the receive buffer.                *)
EXTENDS Integers, Sequences

CONSTANTS
    Base,        \* 256 in the code: values of a byte
    Width,       \* 4 in the code: bytes of an integer
    IdLen,       \* 36 in the code: bytes of a node id
    BufferSize,  \* 1024 in the code: bytes recvfrom() reads at most
    NoMessage    \* the exception of decode

ASSUME ByteAssumption == Base \in Nat \ {0, 1} /\ Width \in Nat \ {0}
ASSUME LengthAssumption == IdLen \in Nat /\ BufferSize \in Nat

\* Base to the power k, the weight of a byte's place.
Power[k \in 0 .. Width] == IF k = 0 THEN 1 ELSE Base * Power[k - 1]

Byte  == 0 .. (Base - 1)
Int32 == (-(Power[Width] \div 2)) .. (Power[Width] \div 2 - 1)

\* HEARTBEAT_FIXED_SIZE: three version numbers, the id, info_id, service_port.
FixedSize == 5 * Width + IdLen

\* The casts between int32_t and uint32_t.
ToUnsigned(i) == IF i < 0 THEN i + Power[Width] ELSE i
ToSigned(u)   == IF u < Power[Width] \div 2 THEN u ELSE u - Power[Width]

\* htonl and the copy of its bytes: the most significant one first.
EncodeInt(i) == [k \in 1 .. Width |-> (ToUnsigned(i) \div Power[Width - k]) % Base]

\* ntohl of the copied bytes, and the cast.
DecodeInt(word) ==
    LET value[k \in 0 .. Width] == IF k = 0 THEN 0 ELSE value[k - 1] * Base + word[k]
    IN  ToSigned(value[Width])

\* memcpy of the bytes after offset, then ntohl.
ReadInt(data, offset) == DecodeInt(SubSeq(data, offset + 1, offset + Width))

\* HeartbeatMessage::encode, for a node_id of the right length (generateUUID
\* makes no other).
Encode(msg) ==
    EncodeInt(msg.zlc_version[1]) \o EncodeInt(msg.zlc_version[2]) \o EncodeInt(msg.zlc_version[3])
        \o msg.node_id \o EncodeInt(msg.info_id) \o EncodeInt(msg.service_port) \o msg.group_name

\* A slip: the two last integers are read in the wrong order.
DecodeSwapped(data) ==
    IF Len(data) < FixedSize THEN NoMessage
    ELSE [zlc_version  |-> [i \in 1 .. 3 |-> ReadInt(data, (i - 1) * Width)],
          node_id      |-> SubSeq(data, 3 * Width + 1, 3 * Width + IdLen),
          info_id      |-> ReadInt(data, 4 * Width + IdLen),
          service_port |-> ReadInt(data, 3 * Width + IdLen),
          group_name   |-> SubSeq(data, FixedSize + 1, Len(data))]

\* HeartbeatMessage::decode.
Decode(data) ==
    IF Len(data) < FixedSize THEN NoMessage
    ELSE [zlc_version  |-> [i \in 1 .. 3 |-> ReadInt(data, (i - 1) * Width)],
          node_id      |-> SubSeq(data, 3 * Width + 1, 3 * Width + IdLen),
          info_id      |-> ReadInt(data, 3 * Width + IdLen),
          service_port |-> ReadInt(data, 4 * Width + IdLen),
          group_name   |-> SubSeq(data, FixedSize + 1, Len(data))]

\* What the casts, htonl and ntohl promise: an integer becomes Width bytes, and
\* is read back from them.
WordCodec ==
    \A i \in Int32 :
        EncodeInt(i) \in Seq(Byte) /\ Len(EncodeInt(i)) = Width /\ DecodeInt(EncodeInt(i)) = i

\* recvfrom() into the buffer: the rest of a longer datagram is discarded.
CutOff(data) == SubSeq(data, 1, IF Len(data) < BufferSize THEN Len(data) ELSE BufferSize)

\* isInSameSubnet: the first three of the four bytes of an address.
IsInSameSubnet(ip1, ip2) == \A i \in 1 .. 3 : ip1[i] = ip2[i]
=============================================================================
