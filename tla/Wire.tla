-------------------------------- MODULE Wire --------------------------------
(***************************************************************************)
(* A file on its way from disk to disk, in bytes: read in segments, made   *)
(* into packets, serialized, damaged by one bit or not, deserialized,      *)
(* verified and written; the acknowledgements likewise.  Loss, order and   *)
(* windows are the matter of the techniques' modules.  Here the workers    *)
(* are stop and wait on a link that holds one datagram each way, and a     *)
(* packet is sent again whenever nothing is under way.                     *)
(*                                                                         *)
(* Damage stops once some of it was accepted.  An accepted length that a   *)
(* buffer cannot hold makes the client's memcpy run over the end of it.    *)
(* That is undefined: the builds tried end in a segmentation fault, and    *)
(* here the client takes no step after it.                                 *)
(***************************************************************************)
EXTENDS FileFeeder, FileSink

CONSTANT Numbers  \* sequence numbers the checksums are tried with

\* The other modules count files in segments; here is what a segment is.
Segments(bytes) ==
  [i \in 1 .. (Len(bytes) + PCK_DATA_SIZE - 1) \div PCK_DATA_SIZE |->
     SubSeq(bytes, (i - 1) * PCK_DATA_SIZE + 1, Min({i * PCK_DATA_SIZE, Len(bytes)}))]

\* The number of the empty packet that ends a transfer is a uint32_t.
ASSUME NumbersAssumption ==
  /\ \A f \in Contents : f \in Seq(Byte) /\ ToUint32(Len(Segments(f))) \in Uint32
  /\ \A n \in Numbers : n \in Nat /\ ToUint32(n) \in Uint32

VARIABLES
  seq_no,   \* number of the packet to be acknowledged
  packet,   \* that packet, none or one
  wire,     \* the data packet in flight, none or one
  back,     \* the acknowledgement in flight, none or one
  damage,   \* bits changed in what is in flight
  ackNo,    \* number the client waits for
  cDone,    \* the client has the empty packet
  crashed,  \* the client copied more than a buffer holds
  fooled    \* something damaged was accepted (for the properties)

serverVars == <<feederVars, seq_no, packet>>
clientVars == <<sinkVars, ackNo, cDone, crashed>>
vars == <<serverVars, clientVars, wire, back, damage, fooled>>

Init ==
  /\ FeederInit /\ SinkInit
  /\ seq_no = 0 /\ ackNo = 0
  /\ packet = <<>> /\ wire = <<>> /\ back = <<>> /\ damage = {}
  /\ cDone = FALSE /\ crashed = FALSE /\ fooled = FALSE

\* A bit is a byte of the datagram and the weight of the bit in it.
Weights == {1, 2, 4, 8, 16, 32, 64, 128}
BitsOf(buffer) == (1 .. Len(buffer)) \X Weights

Flip(buffer, bit) ==
  [buffer EXCEPT ![bit[1]] = IF (@ \div bit[2]) % 2 = 1 THEN @ - bit[2] ELSE @ + bit[2]]

MakePacket ==
  /\ packet = <<>> /\ HasNext
  /\ GetNextDataSegment
  /\ packet' = <<CreateDataPacket(NextSegment, seq_no)>>
  /\ UNCHANGED <<seq_no, clientVars, wire, back, damage, fooled>>

SendPacket ==
  /\ packet # <<>> /\ wire = <<>> /\ back = <<>>
  /\ wire' = <<SerializePacket(packet[1])>>
  /\ UNCHANGED <<serverVars, clientVars, back, damage, fooled>>

MayDamage(bit) == damage = {} /\ ~fooled /\ damage' = {bit}

DamagePacket(bit) ==
  /\ MayDamage(bit)
  /\ wire' = <<Flip(wire[1], bit)>>
  /\ UNCHANGED <<serverVars, clientVars, back, fooled>>

DamageAck(bit) ==
  /\ MayDamage(bit)
  /\ back' = <<Flip(back[1], bit)>>
  /\ UNCHANGED <<serverVars, clientVars, wire, fooled>>

Acceptable(pack) == VerifyChecksum(pack) /\ pack.seqno = ToUint32(ackNo)

Accepted == fooled' = (fooled \/ damage # {})

Answer(ackno) == back' = <<SerializeAckPacket(CreateAckPacket(ackno))>>

\* extract_pure_data copies as many bytes as len says, into a buffer for
\* PCK_DATA_SIZE; a len below that of the header says 2^64 minus a few.
Fits(pack) == pack.len - PCK_HEADER_SIZE \in 0 .. PCK_DATA_SIZE

Overrun ==
  /\ crashed' = TRUE
  /\ Accepted
  /\ UNCHANGED <<sinkVars, ackNo, cDone, back>>

Accept(pack) ==
  /\ Answer(ackNo)
  /\ ackNo' = ackNo + 1
  /\ IF pack.len = PCK_HEADER_SIZE
     THEN cDone' = TRUE /\ UNCHANGED sinkVars
     ELSE FeedNextData(ExtractPureData(pack), ackNo) /\ UNCHANGED cDone
  /\ Accepted
  /\ UNCHANGED crashed

AnswersTheExpected == Answer(ackNo) /\ UNCHANGED <<clientVars, fooled>>
\* Refused, and answered with the last acknowledgement.
Refuse ==
  /\ IF ackNo > 0 THEN Answer(ackNo - 1) ELSE UNCHANGED back
  /\ UNCHANGED <<clientVars, fooled>>

\* After the empty packet, or a crash, nobody reads: the datagram is dropped.
Reading == ~cDone /\ ~crashed

ReceivePacket ==
  /\ wire # <<>>
  /\ wire' = <<>> /\ damage' = {}
  /\ LET pack == DeserializePacket(wire[1])
     IN  \/ Reading /\ Acceptable(pack) /\ Fits(pack) /\ Accept(pack)
         \/ Reading /\ Acceptable(pack) /\ ~Fits(pack) /\ Overrun
         \/ Reading /\ ~Acceptable(pack) /\ Refuse
         \/ ~Reading /\ UNCHANGED <<clientVars, back, fooled>>
  /\ UNCHANGED serverVars

Awaited(pack) == VerifyChecksumAck(pack) /\ pack.ackno = ToUint32(seq_no)

ReceiveAck ==
  /\ back # <<>>
  /\ back' = <<>> /\ damage' = {}
  /\ IF Awaited(DeserializeAckPacket(back[1]))
     THEN seq_no' = seq_no + 1 /\ packet' = <<>> /\ Accepted
     ELSE UNCHANGED <<seq_no, packet, fooled>>
  /\ UNCHANGED <<feederVars, clientVars, wire>>

Next ==
  \/ MakePacket \/ SendPacket \/ ReceivePacket \/ ReceiveAck
  \/ wire # <<>> /\ \E bit \in BitsOf(wire[1]) : DamagePacket(bit)
  \/ back # <<>> /\ \E bit \in BitsOf(back[1]) : DamageAck(bit)

Spec == Init /\ [][Next]_vars

-----------------------------------------------------------------------------
OneAtMost(s) == s = <<>> \/ s = <<s[1]>>

TypeOK ==
  /\ content \in Contents /\ position \in Nat
  /\ remain_size \in Nat /\ lastPacket \in BOOLEAN
  /\ OneAtMost(packet) /\ OneAtMost(wire) /\ OneAtMost(back)
  /\ \A i \in DOMAIN packet :
       packet[i] \in WirePacket /\ Len(packet[i].data) = PCK_DATA_SIZE
  /\ \A i \in DOMAIN wire :
       wire[i] \in Seq(Byte) /\ Len(wire[i]) = PCK_HEADER_SIZE + PCK_DATA_SIZE
  /\ \A i \in DOMAIN back : back[i] \in Seq(Byte) /\ Len(back[i]) = PCK_HEADER_SIZE
  /\ \A bit \in damage : \E d \in {wire, back} : d # <<>> /\ bit \in BitsOf(d[1])
  /\ seq_no \in Nat /\ ackNo \in Nat
  /\ written \in Seq(Byte) /\ packets \in Seq(WirePacket)
  /\ cDone \in BOOLEAN /\ crashed \in BOOLEAN /\ fooled \in BOOLEAN

\* Where the sums do not look: bits 8 to 15 of the number, and the data after
\* the first eighth.
NotSummed(i) == i = 7 \/ i > PCK_HEADER_SIZE + 2 * (PCK_DATA_SIZE \div 16)

\* Where bit 8 of a summed word is: in the upper byte of the length and of
\* the number's high half, and, the host being little-endian, in every
\* second byte of the data.  The fold clears it.
HasBit8(i) == i \in {3, 5} \/ (i > PCK_HEADER_SIZE /\ i % 2 = 0)

MayPass(bit) == NotSummed(bit[1]) \/ (HasBit8(bit[1]) /\ bit[2] = 1)

DetectedInData(pack) ==
  LET buffer == SerializePacket(pack)
  IN  \A bit \in BitsOf(buffer) :
        VerifyChecksum(DeserializePacket(Flip(buffer, bit))) => MayPass(bit)

DetectedInAck(pack) ==
  LET buffer == SerializeAckPacket(pack)
  IN  \A bit \in BitsOf(buffer) :
        VerifyChecksumAck(DeserializeAckPacket(Flip(buffer, bit))) => MayPass(bit)

\* One damaged bit is noticed wherever the sum looks, whatever the packet
\* holds and whatever its number, the carries of the folds notwithstanding:
\* only bit 8 of a word may be lost in them.  The same for acknowledgements.
\* (A packet is the same whether or not damage was accepted before it was
\* made, so it is looked at once, before.)
DetectsDamage ==
  ~fooled /\ packet # <<>> /\ wire = <<>> /\ back = <<>> =>
    \A n \in Numbers \cup {seq_no} :
      /\ DetectedInData(CreateDataPacket(ExtractPureData(packet[1]), n))
      /\ DetectedInAck(CreateAckPacket(n))

\* What was not damaged arrives as it was sent and is accepted by an end that
\* waits for it: a packet or an acknowledgement whose checksum failed by
\* itself would be sent for ever.
UndamagedIsAccepted ==
  /\ wire # <<>> /\ damage = {} =>
       /\ DeserializePacket(wire[1]) = packet[1]
       /\ VerifyChecksum(DeserializePacket(wire[1]))
       /\ ackNo = seq_no => Acceptable(DeserializePacket(wire[1]))
  /\ back # <<>> /\ damage = {} /\ ackNo = seq_no + 1 =>
       Awaited(DeserializeAckPacket(back[1]))

\* A packet the client accepts has no more data than a packet holds.  It does
\* not always: bit 8 of the length is in no sum.
AcceptedFits == wire # <<>> /\ Reading /\ Acceptable(DeserializePacket(wire[1])) =>
                  Fits(DeserializePacket(wire[1]))

\* Of all the bits of a datagram only that one, the first of its third byte, has
\* the client copy more than a buffer holds: the sums see the rest of the length.
OnlyBit8Overruns ==
  wire # <<>> /\ Acceptable(DeserializePacket(wire[1])) /\ ~Fits(DeserializePacket(wire[1]))
    => damage = {<<3, 1>>}

\* A second way to the client's file: the packets kept for get_buff hold the
\* same bytes as the file, also when damage was accepted.
BufferIsFile == GetBuff = written

-----------------------------------------------------------------------------
(* Where everything is, as a function of seq_no and ackNo.                  *)

FinSeqno == Len(Segments(content))
SegmentAt(f, n) == IF n < Len(Segments(f)) THEN Segments(f)[n + 1] ELSE <<>>
BytesIn(f, n) == Min({n * PCK_DATA_SIZE, Len(f)})

\* Segments handed out.
Taken == IF packet = <<>> THEN seq_no ELSE seq_no + 1

FeederInStep ==
  /\ Taken <= FinSeqno + 1
  /\ position = BytesIn(content, Taken) /\ remain_size = Len(content) - position
  /\ lastPacket <=> Taken > FinSeqno

\* The packet that waits for its acknowledgement carries its segment.
PacketIsNext == packet # <<>> =>
  packet[1] = CreateDataPacket(CoreData(SegmentAt(content, seq_no)), seq_no)

\* However much is damaged, nothing is accepted out of turn.  Without damage
\* accepted the client stops with the empty packet, and not before.
InLockStep ==
  /\ ackNo \in {seq_no, seq_no + 1}
  /\ packet = <<>> => ackNo = seq_no
  /\ ~fooled => ~crashed /\ (cDone <=> ackNo > FinSeqno)

\* At most one bit is changed.
Arrives(sent, got, bits) ==
  \/ bits = {} /\ got = sent
  \/ \E bit \in BitsOf(sent) : bits = {bit} /\ got = Flip(sent, bit)

\* One thing at a time is on the link: the packet, or the acknowledgement of
\* the last one accepted, with one bit changed or none.
LinkIsHonest ==
  /\ wire = <<>> /\ back = <<>> => damage = {}
  /\ wire # <<>> =>
       /\ packet # <<>> /\ back = <<>>
       /\ Arrives(SerializePacket(packet[1]), wire[1], damage)
  /\ back # <<>> =>
       /\ packet # <<>> /\ ackNo > 0
       /\ Arrives(SerializeAckPacket(CreateAckPacket(ackNo - 1)), back[1], damage)

\* The client's file is that part of the server's which it has accepted, unless
\* damage was.
ClientInStep == ~fooled => written = SubSeq(content, 1, BytesIn(content, ackNo))

Inv ==
  /\ TypeOK /\ FeederInStep /\ PacketIsNext /\ InLockStep /\ LinkIsHonest
  /\ ClientInStep /\ BufferIsFile

-----------------------------------------------------------------------------
Feeder(f) == INSTANCE DataFeeder WITH
  Data        <- Seq(Byte) \ {<<>>},
  Empty       <- <<>>,
  File        <- Segments(f),
  remain_size <- (remain_size + PCK_DATA_SIZE - 1) \div PCK_DATA_SIZE

\* The feeder hands out the segments DataFeeder says it does, one empty one
\* after the last, for every size: 0, a multiple of a segment, or one more.
FeedsSegments == [][\A f \in Contents : content = f =>
  /\ Feeder(f)!FeederStep
  /\ packet = <<>> /\ packet' # <<>> =>
       PureData(packet'[1]) = Feeder(f)!NextSegment]_vars

RT(f) == INSTANCE ReliableTransfer WITH
  File       <- Segments(f),
  delivered  <- Segments(written),
  clientDone <- cDone,
  serverDone <- packet = <<>> /\ ~HasNext

\* Byte for byte, the client's file grows into the server's, as long as no
\* damage was accepted.
ImplementsReliableTransfer == [][\A f \in Contents :
  content = f /\ ~fooled' => RT(f)!Step]_vars
=============================================================================
