------------------------------- MODULE Serial -------------------------------
(***************************************************************************)
(* Packets as the sockets carry them (utils/serial.cpp): every field most  *)
(* significant byte first, data always PCK_DATA_SIZE bytes.  A uint16_t is *)
(* a number, a uint32_t its two halves, TLC's integers having 32 bits with *)
(* the sign.                                                               *)
(***************************************************************************)
EXTENDS Integers, Sequences

CONSTANT PCK_DATA_SIZE  \* bytes of data in a packet (512 in definitions.h)

PCK_HEADER_SIZE == 8

UINT16_MAX == 65535

\* len, a uint16_t, counts the header too.
ASSUME DataSizeAssumption ==
  PCK_DATA_SIZE \in Nat \ {0} /\ PCK_HEADER_SIZE + PCK_DATA_SIZE <= UINT16_MAX

Byte == 0 .. 255
Uint16 == 0 .. UINT16_MAX
Uint32 == [hi : Uint16, lo : Uint16]

ToUint32(n) == [hi |-> n \div 65536, lo |-> n % 65536]

WirePacket == [check_sum : Uint16, len : Uint16, seqno : Uint32, data : Seq(Byte)]
AckPacket == [cksum : Uint16, len : Uint16, ackno : Uint32]

SerializeUint16(value) == <<value \div 256, value % 256>>
SerializeUint32(value) == SerializeUint16(value.hi) \o SerializeUint16(value.lo)

LowByteFirst(buffer) == buffer[2] * 256 + buffer[1]
DeserializeUint16(buffer) == buffer[1] * 256 + buffer[2]

DeserializeUint32(buffer) ==
  [hi |-> DeserializeUint16(SubSeq(buffer, 1, 2)),
   lo |-> DeserializeUint16(SubSeq(buffer, 3, 4))]

DataAsLongAsLen(pack) ==
  SerializeUint16(pack.check_sum) \o SerializeUint16(pack.len)
    \o SerializeUint32(pack.seqno) \o SubSeq(pack.data, 1, pack.len - PCK_HEADER_SIZE)
SerializePacket(pack) ==
  SerializeUint16(pack.check_sum) \o SerializeUint16(pack.len)
    \o SerializeUint32(pack.seqno) \o pack.data

SerializeAckPacket(pack) ==
  SerializeUint16(pack.cksum) \o SerializeUint16(pack.len)
    \o SerializeUint32(pack.ackno)

DeserializePacket(buffer) ==
  [check_sum |-> DeserializeUint16(SubSeq(buffer, 1, 2)),
   len       |-> DeserializeUint16(SubSeq(buffer, 3, 4)),
   seqno     |-> DeserializeUint32(SubSeq(buffer, 5, 8)),
   data      |-> SubSeq(buffer, 9, PCK_HEADER_SIZE + PCK_DATA_SIZE)]

DeserializeAckPacket(buffer) ==
  [cksum |-> DeserializeUint16(SubSeq(buffer, 1, 2)),
   len   |-> DeserializeUint16(SubSeq(buffer, 3, 4)),
   ackno |-> DeserializeUint32(SubSeq(buffer, 5, 8))]
=============================================================================
