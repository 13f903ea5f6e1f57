------------------------------ MODULE Checksum ------------------------------
(***************************************************************************)
(* The checksums of data packets and acknowledgements and the packets made *)
(* with them (web_models/packet_utils.cpp).  The test before each fold,    *)
(* sum | 0x0100, is true for every sum: each fold keeps the low 16 bits,   *)
(* clears bit 8 and adds 1.                                                *)
(***************************************************************************)
EXTENDS Serial

Fold(sum) ==
  LET low == sum % 65536
      bit8 == (low \div 256) % 2
  IN  low - 256 * bit8 + 1

WithoutLength(len, number) == Fold(Fold(number.hi) + (number.lo % 256))
\* The sum of the length and of a sequence number or ackno: its high half
\* and its lowest byte.
SumHeader(len, number) == Fold(Fold(len + number.hi) + (number.lo % 256))

\* dum_ptr[i]: two bytes of data as the host, little-endian, reads them.
Word(data, i) == data[2 * i + 1] + 256 * data[2 * i + 2]

OneWordLess == (PCK_DATA_SIZE \div 16) - 1
WordsSummed == PCK_DATA_SIZE \div 16

CalculateChecksum(pack) ==
  LET sum[i \in 0 .. WordsSummed] ==
        IF i = 0 THEN SumHeader(pack.len, pack.seqno)
                 ELSE Fold(sum[i - 1] + Word(pack.data, i - 1))
  IN  sum[WordsSummed] % 65536

CalculateChecksumAck(pack) == SumHeader(pack.len, pack.ackno) % 65536

VerifyChecksum(pack) == pack.check_sum = CalculateChecksum(pack)
VerifyChecksumAck(pack) == pack.cksum = CalculateChecksumAck(pack)

-----------------------------------------------------------------------------
\* A buffer of PCK_DATA_SIZE zeros with bytes copied to its front.
Padded(bytes) ==
  [i \in 1 .. PCK_DATA_SIZE |-> IF i <= Len(bytes) THEN bytes[i] ELSE 0]

\* packet_core_data: size bytes of data, and zeros after them.
CoreData(bytes) == [size |-> Len(bytes), data |-> Padded(bytes)]

CreateDataPacket(core_data, seq_num) ==
  LET pck == [check_sum |-> 0,
              len       |-> PCK_HEADER_SIZE + core_data.size,
              seqno     |-> ToUint32(seq_num),
              data      |-> core_data.data]
  IN  [pck EXCEPT !.check_sum = CalculateChecksum(pck)]

CreateAckPacket(seq_num) ==
  LET pck == [cksum |-> 0, len |-> PCK_HEADER_SIZE, ackno |-> ToUint32(seq_num)]
  IN  [pck EXCEPT !.cksum = CalculateChecksumAck(pck)]

\* The bytes that len says there are.
WholeBuffer(pack) == pack.data
PureData(pack) == SubSeq(pack.data, 1, pack.len - PCK_HEADER_SIZE)

ExtractPureData(pack) == CoreData(PureData(pack))
=============================================================================
