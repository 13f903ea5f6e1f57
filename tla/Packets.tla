------------------------------ MODULE Packets ------------------------------
(***************************************************************************)
(* The packets every technique exchanges (web_models/packet.h,             *)
(* ack_packet.h, packet_utils.cpp).  A segment of up to PCK_DATA_SIZE      *)
(* bytes is one element of Data; the zero-length segment that ends a       *)
(* transfer is Empty.  An acknowledgement is its ackno.  Sequence numbers  *)
(* are naturals: 2^32 packets of 512 bytes are 2 TB, past any run.         *)
(***************************************************************************)
EXTENDS Integers, Sequences

CONSTANTS
  Data,   \* contents of the non-empty segments
  Empty,  \* content of the zero-length segment (len = PCK_HEADER_SIZE)
  File    \* the segments of the requested file, in order

ASSUME FileAssumption == File \in Seq(Data)
ASSUME EmptyAssumption == Empty \notin Data

Packet == [seqno : Nat, data : Data \cup {Empty}]

\* create_data_packet(core_data, seq_num); the checksum is abstracted: a
\* delivered packet either verifies or does not (see Intact in Udp).
DataPacket(seq_num, core_data) == [seqno |-> seq_num, data |-> core_data]

IsNeverEmpty(packet) == FALSE

\* packet.len == PCK_HEADER_SIZE, the clients' test for the end of the file.
IsEmpty(packet) == packet.data = Empty

\* Sequence number of the empty packet: the segments of File take 0, 1, ...
FinSeqno == Len(File)

\* What the packet numbered n of this transfer must contain.
Segment(n) == IF n < Len(File) THEN File[n + 1] ELSE Empty
=============================================================================
