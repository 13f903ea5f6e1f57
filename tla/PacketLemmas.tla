---------------------------- MODULE PacketLemmas ----------------------------
(***************************************************************************)
(* The file as packets: which segment each number carries, and how the     *)
(* beginning of the file that a client has written grows; and that the     *)
(* feeder hands the segments out by number.                                *)
(***************************************************************************)
EXTENDS DataFeeder, SequenceLemmas

\* The segment numbers of the file: below FinSeqno a segment of Data, from
\* there on the empty one, which is how IsEmpty tells them apart.
LEMMA Segments ==
  /\ FinSeqno \in Nat
  /\ \A n \in Nat : /\ Segment(n) \in Data \cup {Empty}
                    /\ n < FinSeqno => Segment(n) \in Data /\ Segment(n) = File[n + 1]
                    /\ n >= FinSeqno => Segment(n) = Empty
                    /\ DataPacket(n, Segment(n)) \in Packet
                    /\ DataPacket(n, Segment(n)).seqno = n
                    /\ DataPacket(n, Segment(n)).data = Segment(n)
                    /\ IsEmpty(DataPacket(n, Segment(n))) <=> n >= FinSeqno
<1>1. FinSeqno \in Nat
  BY FileAssumption DEF FinSeqno
<1>2. ASSUME NEW n \in Nat
      PROVE  /\ Segment(n) \in Data \cup {Empty}
             /\ n < FinSeqno => Segment(n) \in Data /\ Segment(n) = File[n + 1]
             /\ n >= FinSeqno => Segment(n) = Empty
  <2>1. CASE n < FinSeqno
    <3>1. n + 1 \in 1 .. Len(File)
      BY <1>1, <2>1 DEF FinSeqno
    <3> QED
      BY <2>1, <3>1, FileAssumption, <1>1 DEF Segment, FinSeqno
  <2>2. CASE n >= FinSeqno
    BY <2>2, <1>1 DEF Segment, FinSeqno
  <2> QED
    BY <1>1, <2>1, <2>2
<1>3. ASSUME NEW n \in Nat
      PROVE  /\ DataPacket(n, Segment(n)) \in Packet
             /\ DataPacket(n, Segment(n)).seqno = n
             /\ DataPacket(n, Segment(n)).data = Segment(n)
             /\ IsEmpty(DataPacket(n, Segment(n))) <=> n >= FinSeqno
  <2>1. /\ DataPacket(n, Segment(n)) \in Packet
        /\ DataPacket(n, Segment(n)).seqno = n
        /\ DataPacket(n, Segment(n)).data = Segment(n)
    BY <1>2 DEF DataPacket, Packet
  <2>2. Segment(n) = Empty <=> n >= FinSeqno
    BY <1>1, <1>2, EmptyAssumption
  <2> QED
    BY <2>1, <2>2 DEF IsEmpty
<1> QED
  BY <1>1, <1>2, <1>3

\* The beginning of the file, up to segment n.
LEMMA Beginning ==
  ASSUME NEW n \in Nat, n <= FinSeqno
  PROVE  /\ SubSeq(File, 1, n) \in Seq(Data)
         /\ Len(SubSeq(File, 1, n)) = n
         /\ \A j \in 1 .. n : SubSeq(File, 1, n)[j] = File[j]
BY FileAssumption, FirstEntries DEF FinSeqno

\* Written in order, the next segment extends the beginning by one.
LEMMA BeginningGrows ==
  ASSUME NEW n \in Nat, n < FinSeqno
  PROVE  SubSeq(File, 1, n) \o <<Segment(n)>> = SubSeq(File, 1, n + 1)
<1>1. Segment(n) = File[n + 1] /\ File \in Seq(Data) /\ n < Len(File)
  BY Segments, FileAssumption DEF FinSeqno
<1> QED
  BY <1>1, FirstEntriesGrow

-----------------------------------------------------------------------------
(* The feeder.                                                              *)

\* After n segments the next one is number n, and then there were n + 1.
LEMMA FeederMoves ==
  ASSUME NEW n \in Nat, remain_size \in Nat, lastPacket \in BOOLEAN,
         FeederAt(n), HasNext, GetNextDataSegment
  PROVE  /\ n <= FinSeqno
         /\ NextSegment = Segment(n)
         /\ remain_size' \in Nat /\ lastPacket' \in BOOLEAN
         /\ remain_size' = IF n + 1 < FinSeqno THEN FinSeqno - (n + 1) ELSE 0
         /\ (lastPacket' <=> n + 1 > FinSeqno)
<1>1. /\ FinSeqno \in Nat /\ n <= FinSeqno + 1
      /\ remain_size = IF n < FinSeqno THEN FinSeqno - n ELSE 0
      /\ (lastPacket <=> n > FinSeqno)
  BY Segments DEF FeederAt
<1>2. n <= FinSeqno
  BY <1>1 DEF HasNext
<1>3. CASE n < FinSeqno
  <2>1. remain_size = FinSeqno - n /\ remain_size > 0 /\ ~lastPacket
    BY <1>1, <1>3
  <2>2. remain_size' = remain_size - 1 /\ ~lastPacket' /\ lastPacket' \in BOOLEAN
    <3>1. remain_size' = remain_size - 1 /\ lastPacket' = lastPacket
      BY <2>1 DEF GetNextDataSegment
    <3> QED
      BY <1>1, <2>1, <3>1
  <2>3. FinSeqno - remain_size + 1 = n + 1
    BY <1>1, <2>1
  <2>4. NextSegment = File[n + 1]
    BY <2>1, <2>3 DEF NextSegment, FinSeqno
  <2>5. Segment(n) = File[n + 1]
    BY <1>1, <1>3, Segments
  <2> QED
    BY <1>1, <1>3, <2>1, <2>2, <2>4, <2>5
<1>4. CASE n = FinSeqno
  <2>1. remain_size = 0
    BY <1>1, <1>4
  <2>2. remain_size' = 0 /\ lastPacket' /\ lastPacket' \in BOOLEAN
    BY <2>1 DEF GetNextDataSegment
  <2>3. NextSegment = Segment(n)
    BY <1>1, <1>4, <2>1, Segments DEF NextSegment
  <2> QED
    BY <1>1, <1>4, <2>2, <2>3
<1> QED
  BY <1>1, <1>2, <1>3, <1>4

\* When the feeder has no more, every number was handed out.
LEMMA FeederEnds ==
  ASSUME NEW n \in Nat, FeederAt(n), ~HasNext
  PROVE  n = FinSeqno + 1
BY Segments DEF FeederAt, HasNext
=============================================================================
