--------------------------- MODULE GoBackNProofs ---------------------------
(***************************************************************************)
(* Go-back-N is safe for every file, every window and every fault profile: *)
(* Inv is inductive, and the properties follow from it.                    *)
(***************************************************************************)
EXTENDS GoBackN, PacketLemmas

\* The window after packets were popped from its front: what is left still
\* belongs to the numbers from the new base on.
LEMMA PopKeepsWindow ==
  ASSUME NEW u \in Seq(Packet), NEW b \in Nat, NEW n \in Nat, NEW a \in Nat,
         Len(u) = n - b, a >= b, a < n,
         \A i \in DOMAIN u : u[i] = DataPacket(b + i - 1, Segment(b + i - 1))
  PROVE  LET v == SubSeq(u, a - b + 2, Len(u))
         IN  /\ v \in Seq(Packet)
             /\ Len(v) = n - (a + 1)
             /\ \A i \in DOMAIN v :
                  v[i] = DataPacket(a + 1 + i - 1, Segment(a + 1 + i - 1))
<1> DEFINE m == a - b + 2
           v == SubSeq(u, m, Len(u))
<1>1. /\ Len(u) \in Nat /\ n - b \in Nat
      /\ m \in 1 .. Len(u) + 1 /\ Len(u) \in 0 .. Len(u) /\ m <= Len(u) + 1
  OBVIOUS
<1>2. /\ v \in Seq(Packet) /\ Len(v) = Len(u) - m + 1
      /\ \A j \in 1 .. Len(u) - m + 1 : v[j] = u[m + j - 1]
  BY <1>1, Piece
<1>3. Len(v) = n - (a + 1)
  BY <1>1, <1>2
<1>4. ASSUME NEW i \in DOMAIN v
      PROVE  v[i] = DataPacket(a + 1 + i - 1, Segment(a + 1 + i - 1))
  <2>1. i \in 1 .. Len(u) - m + 1 /\ v[i] = u[m + i - 1]
    <3>1. DOMAIN v = 1 .. Len(v)
      BY <1>2
    <3> HIDE DEF v, m
    <3>2. i \in 1 .. Len(u) - m + 1
      BY <1>2, <3>1
    <3> QED
      BY <1>2, <3>2
  <2>2. m + i - 1 \in 1 .. Len(u)
    BY <1>1, <2>1
  <2>3. u[m + i - 1] = DataPacket(b + (m + i - 1) - 1, Segment(b + (m + i - 1) - 1))
    BY <2>2
  <2>4. b + (m + i - 1) - 1 = a + 1 + i - 1
    BY <1>1, <2>1
  <2> QED
    BY <2>1, <2>3, <2>4
<1> QED
  BY <1>2, <1>3, <1>4

\* The window after the next packet was appended.
LEMMA AppendKeepsWindow ==
  ASSUME NEW u \in Seq(Packet), NEW b \in Nat, NEW n \in Nat, b <= n,
         Len(u) = n - b,
         \A i \in DOMAIN u : u[i] = DataPacket(b + i - 1, Segment(b + i - 1))
  PROVE  LET v == Append(u, DataPacket(n, Segment(n)))
         IN  /\ v \in Seq(Packet)
             /\ Len(v) = n + 1 - b
             /\ \A i \in DOMAIN v : v[i] = DataPacket(b + i - 1, Segment(b + i - 1))
<1> DEFINE p == DataPacket(n, Segment(n))
           v == Append(u, p)
<1>1. p \in Packet
  BY Segments
<1>2. DataPacket(n, Segment(n)) = p
  OBVIOUS
<1> HIDE DEF p
<1>3. v \in Seq(Packet) /\ Len(v) = Len(u) + 1
  BY <1>1
<1>4. ASSUME NEW i \in DOMAIN v
      PROVE  v[i] = DataPacket(b + i - 1, Segment(b + i - 1))
  <2>1. CASE i \in DOMAIN u
    <3>1. v[i] = u[i]
      BY <1>1, <2>1
    <3> QED
      BY <2>1, <3>1
  <2>2. CASE i \notin DOMAIN u
    <3>1. i = Len(u) + 1 /\ Len(u) \in Nat
      BY <1>3, <2>2
    <3>2. v[i] = p
      BY <1>1, <3>1
    <3>3. b + i - 1 = n
      BY <3>1
    <3> QED
      BY <1>2, <3>2, <3>3
  <2> QED
    BY <2>1, <2>2
<1> QED
  BY <1>2, <1>3, <1>4

\* The invariant holds before the first step.
LEMMA InitEstablishes == Init => Inv
<1> SUFFICES ASSUME Init PROVE Inv
  OBVIOUS
<1> USE Segments DEF Init, ServerInit, ClientInit, NetInit, FeederInit, SinkInit
<1>1. TypeOK
  <2>1. delivered \in Seq(Data) /\ unacked_packet \in Seq(Packet)
    OBVIOUS
  <2>2. remain_size \in Nat /\ lastPacket \in BOOLEAN
    BY DEF FinSeqno
  <2> QED
    BY <2>1, <2>2 DEF TypeOK
<1>2. WindowIsUnacknowledged
  BY SendWindowAssumption DEF WindowIsUnacknowledged
<1>3. FeederInStep
  BY DEF FeederInStep, FeederAt, FinSeqno
<1>4. NetworkIsHonest
  BY DEF NetworkIsHonest
<1>5. ClientInStep
  <2>1. SubSeq(File, 1, 0) = <<>>
    BY SubSeqEmpty
  <2>2. base_ack_no = 0 /\ cDone = FALSE /\ delivered = <<>>
    OBVIOUS
  <2> QED
    BY <2>1, <2>2 DEF ClientInStep
<1> QED
  BY <1>1, <1>2, <1>3, <1>4, <1>5 DEF Inv

-----------------------------------------------------------------------------
(* The steps of the server. *)

\* A server step leaves the client as it is.
LEMMA ClientAside ==
  ASSUME Inv, UNCHANGED clientVars
  PROVE  /\ ClientInStep'
         /\ base_ack_no' = base_ack_no /\ base_ack_no \in Nat
         /\ cDone' = cDone /\ delivered' = delivered
<1>1. base_ack_no' = base_ack_no /\ cDone' = cDone /\ delivered' = delivered
  BY DEF clientVars
<1> QED
  BY <1>1 DEF Inv, TypeOK, ClientInStep

\* Steps that move the server from one place of its loop to another, send
\* again what is in the window, or nothing, and change no number.
LEMMA WindowAside ==
  ASSUME Inv, UNCHANGED clientVars,
         seq_no' = seq_no, base_seq_no' = base_seq_no,
         unacked_packet' = unacked_packet,
         remain_size' = remain_size, lastPacket' = lastPacket,
         faults' = faults, ackNet' \subseteq ackNet,
         pkts' \subseteq pkts \cup {unacked_packet[i] : i \in DOMAIN unacked_packet},
         sPc' \in {"loop", "drainNew", "drain", "timers", "done", "failed"},
         sPc' # "failed" => sPc # "failed",
         sPc' = "done" => seq_no = FinSeqno + 1 /\ base_seq_no = seq_no
  PROVE  Inv'
<1>1. /\ TypeOK /\ WindowIsUnacknowledged /\ FeederInStep /\ NetworkIsHonest
      /\ seq_no \in Nat /\ base_seq_no \in Nat /\ unacked_packet \in Seq(Packet)
  BY DEF Inv, TypeOK
<1>2. /\ ClientInStep' /\ base_ack_no' = base_ack_no /\ base_ack_no \in Nat
      /\ cDone' = cDone /\ delivered' = delivered
  BY ClientAside
<1>3. ASSUME NEW p \in pkts'
      PROVE  /\ p \in Packet
             /\ p = DataPacket(p.seqno, Segment(p.seqno)) /\ p.seqno < seq_no
  <2>1. CASE p \in pkts
    BY <1>1, <2>1 DEF NetworkIsHonest, TypeOK
  <2>2. CASE p \notin pkts
    <3>1. PICK i \in DOMAIN unacked_packet : p = unacked_packet[i]
      BY <2>2
    <3>2. i \in 1 .. Len(unacked_packet) /\ Len(unacked_packet) = seq_no - base_seq_no
      BY <1>1, <3>1 DEF WindowIsUnacknowledged
    <3>3. base_seq_no + i - 1 \in Nat /\ base_seq_no + i - 1 < seq_no
      BY <1>1, <3>2
    <3>4. p = DataPacket(base_seq_no + i - 1, Segment(base_seq_no + i - 1))
      BY <1>1, <3>1 DEF WindowIsUnacknowledged
    <3>5. p.seqno = base_seq_no + i - 1 /\ p \in Packet
      BY <3>3, <3>4, Segments
    <3> QED
      BY <3>3, <3>4, <3>5
  <2> QED
    BY <2>1, <2>2
<1>4. TypeOK'
  <2>1. pkts' \subseteq Packet
    BY <1>3
  <2> QED
    BY <1>1, <1>2, <2>1 DEF TypeOK
<1>5. WindowIsUnacknowledged'
  BY <1>1, <1>2 DEF WindowIsUnacknowledged
<1>6. FeederInStep'
  BY <1>1 DEF FeederInStep, FeederAt
<1>7. NetworkIsHonest'
  BY <1>1, <1>2, <1>3 DEF NetworkIsHonest
<1> QED
  BY <1>2, <1>4, <1>5, <1>6, <1>7 DEF Inv

LEMMA SendNextPreserves ==
  Inv /\ SendNext /\ UNCHANGED clientVars => Inv'
<1> SUFFICES ASSUME Inv, SendNext, UNCHANGED clientVars PROVE Inv'
  OBVIOUS
<1> DEFINE p == DataPacket(seq_no, Segment(seq_no))
<1>1. /\ TypeOK /\ WindowIsUnacknowledged /\ FeederInStep /\ NetworkIsHonest
      /\ seq_no \in Nat /\ base_seq_no \in Nat /\ unacked_packet \in Seq(Packet)
      /\ remain_size \in Nat /\ lastPacket \in BOOLEAN
  BY DEF Inv, TypeOK
<1>2. /\ sPc = "loop" /\ sPc' = "drainNew" /\ HasNext /\ WindowOpen
      /\ seq_no' = seq_no + 1 /\ base_seq_no' = base_seq_no
      /\ faults' = faults /\ ackNet' = ackNet /\ GetNextDataSegment
  BY DEF SendNext
<1>3. /\ ClientInStep' /\ base_ack_no' = base_ack_no /\ base_ack_no \in Nat
      /\ cDone' = cDone /\ delivered' = delivered
  BY ClientAside
<1>4. /\ seq_no <= FinSeqno /\ NextSegment = Segment(seq_no)
      /\ remain_size' \in Nat /\ lastPacket' \in BOOLEAN
      /\ remain_size' = IF seq_no + 1 < FinSeqno THEN FinSeqno - (seq_no + 1) ELSE 0
      /\ (lastPacket' <=> seq_no + 1 > FinSeqno)
  <2>1. FeederAt(seq_no)
    BY <1>1, <1>2 DEF FeederInStep
  <2> QED
    BY <1>1, <1>2, <2>1, FeederMoves
<1>5. pkts' \subseteq pkts \cup {p} /\ unacked_packet' = Append(unacked_packet, p)
  BY <1>4 DEF SendNext, Transmit
<1>6. p \in Packet /\ p.seqno = seq_no
  BY <1>1, Segments
<1>7. /\ base_seq_no <= seq_no /\ Len(unacked_packet) = seq_no - base_seq_no
      /\ \A i \in DOMAIN unacked_packet : unacked_packet[i] =
           DataPacket(base_seq_no + i - 1, Segment(base_seq_no + i - 1))
      /\ base_seq_no <= base_ack_no /\ base_ack_no <= seq_no
  BY <1>1, <1>3 DEF WindowIsUnacknowledged
<1>8. /\ unacked_packet' \in Seq(Packet)
      /\ Len(unacked_packet') = seq_no + 1 - base_seq_no
      /\ \A i \in DOMAIN unacked_packet' : unacked_packet'[i] =
           DataPacket(base_seq_no + i - 1, Segment(base_seq_no + i - 1))
  BY <1>1, <1>5, <1>7, AppendKeepsWindow
<1>9. WindowIsUnacknowledged'
  <2>1. seq_no + 1 - base_seq_no <= sendWindow
    BY <1>1, <1>2, SendWindowAssumption DEF WindowOpen
  <2>2. base_ack_no' <= seq_no'
    BY <1>1, <1>2, <1>3, <1>7
  <2>3. /\ Len(unacked_packet') = seq_no' - base_seq_no'
        /\ Len(unacked_packet') <= sendWindow
    <3>1. /\ Len(unacked_packet') = seq_no + 1 - base_seq_no
          /\ seq_no' = seq_no + 1 /\ base_seq_no' = base_seq_no
      BY <1>2, <1>8
    <3>2. Len(unacked_packet') = seq_no' - base_seq_no'
      BY <1>1, <3>1, SMT
    <3>3. Len(unacked_packet') <= sendWindow
      BY <2>1, <3>1
    <3> QED
      BY <3>2, <3>3
  <2>4. \A i \in DOMAIN unacked_packet' : unacked_packet'[i] =
          DataPacket(base_seq_no' + i - 1, Segment(base_seq_no' + i - 1))
    BY <1>2, <1>8, Zenon
  <2>5. base_seq_no' <= base_ack_no'
    BY <1>2, <1>3, <1>7
  <2> QED
    BY <2>2, <2>3, <2>4, <2>5, Zenon DEF WindowIsUnacknowledged
<1>10. TypeOK'
  BY <1>1, <1>2, <1>3, <1>4, <1>5, <1>6, <1>8 DEF TypeOK
<1>11. FeederInStep'
  BY <1>1, <1>2, <1>4, Segments DEF FeederInStep, FeederAt
<1>12. NetworkIsHonest'
  <2>1. ASSUME NEW q \in pkts'
        PROVE  q = DataPacket(q.seqno, Segment(q.seqno)) /\ q.seqno < seq_no'
    <3>1. CASE q \in pkts
      <4>1. /\ q = DataPacket(q.seqno, Segment(q.seqno)) /\ q.seqno < seq_no
            /\ q.seqno \in Nat
        BY <1>1, <3>1 DEF NetworkIsHonest, TypeOK, Packet
      <4> QED
        BY <1>1, <1>2, <4>1
    <3>2. CASE q = p
      BY <1>1, <1>2, <1>6, <3>2
    <3> QED
      BY <1>5, <3>1, <3>2
  <2> QED
    BY <1>1, <1>2, <1>3, <2>1 DEF NetworkIsHonest
<1> QED
  BY <1>3, <1>9, <1>10, <1>11, <1>12 DEF Inv

LEMMA SendFailsPreserves ==
  Inv /\ SendFails /\ UNCHANGED clientVars => Inv'
<1> SUFFICES ASSUME Inv, SendFails, UNCHANGED clientVars PROVE Inv'
  OBVIOUS
<1>1. /\ TypeOK /\ WindowIsUnacknowledged /\ FeederInStep /\ NetworkIsHonest
      /\ seq_no \in Nat /\ remain_size \in Nat /\ lastPacket \in BOOLEAN
  BY DEF Inv, TypeOK
<1>2. /\ sPc = "loop" /\ sPc' = "failed" /\ HasNext /\ GetNextDataSegment
      /\ seq_no' = seq_no /\ base_seq_no' = base_seq_no
      /\ unacked_packet' = unacked_packet
      /\ faults' = faults /\ pkts' = pkts /\ ackNet' = ackNet
  BY DEF SendFails, netVars
<1>3. /\ ClientInStep' /\ base_ack_no' = base_ack_no
      /\ cDone' = cDone /\ delivered' = delivered
  BY ClientAside
<1>4. remain_size' \in Nat /\ lastPacket' \in BOOLEAN
  <2>1. FeederAt(seq_no)
    BY <1>1, <1>2 DEF FeederInStep
  <2> QED
    BY <1>1, <1>2, <2>1, FeederMoves
<1>5. TypeOK'
  BY <1>1, <1>2, <1>3, <1>4 DEF TypeOK
<1>6. WindowIsUnacknowledged' /\ FeederInStep' /\ NetworkIsHonest'
  BY <1>1, <1>2, <1>3 DEF WindowIsUnacknowledged, FeederInStep, NetworkIsHonest
<1> QED
  BY <1>3, <1>5, <1>6 DEF Inv

LEMMA AwaitAcksPreserves ==
  Inv /\ AwaitAcks /\ UNCHANGED clientVars => Inv'
<1> SUFFICES ASSUME Inv, AwaitAcks, UNCHANGED clientVars PROVE Inv'
  OBVIOUS
<1> QED
  BY WindowAside DEF AwaitAcks, netVars

LEMMA FinishPreserves ==
  Inv /\ Finish /\ UNCHANGED clientVars => Inv'
<1> SUFFICES ASSUME Inv, Finish, UNCHANGED clientVars PROVE Inv'
  OBVIOUS
<1>1. /\ sPc = "loop" /\ ~HasNext /\ unacked_packet = <<>>
      /\ seq_no \in Nat /\ base_seq_no \in Nat
      /\ FeederInStep /\ WindowIsUnacknowledged
  BY DEF Finish, Inv, TypeOK
<1>2. seq_no = FinSeqno + 1
  <2>1. FeederAt(seq_no)
    BY <1>1 DEF FeederInStep
  <2> QED
    BY <1>1, <2>1, FeederEnds
<1>3. base_seq_no = seq_no
  BY <1>1 DEF WindowIsUnacknowledged
<1> QED
  BY <1>2, <1>3, WindowAside DEF Finish, netVars

\* Whatever was read, the rest of the network is as it was.
LEMMA ReadingOnlyTakes ==
  ASSUME NEW net, NEW m, NEW left \in AfterReading(net, m)
  PROVE  left \subseteq net
BY DEF AfterReading

LEMMA ReceiveErrorPreserves ==
  Inv /\ ReceiveError /\ UNCHANGED clientVars => Inv'
<1> SUFFICES ASSUME Inv, ReceiveError, UNCHANGED clientVars PROVE Inv'
  OBVIOUS
<1> QED
  BY WindowAside DEF ReceiveError, netVars, Draining, AfterRefusal

\* A cumulative acknowledgement is for a packet the client accepted, so it
\* takes nothing from the window that the client lacks, and no more than the
\* window has.
LEMMA ReceiveAckPreserves ==
  ASSUME Inv, NEW a \in ackNet, NEW intact \in Intact,
         ReceiveAck(a, intact), UNCHANGED clientVars
  PROVE  Inv'
<1>1. /\ TypeOK /\ WindowIsUnacknowledged /\ FeederInStep /\ NetworkIsHonest
      /\ seq_no \in Nat /\ base_seq_no \in Nat /\ a \in Nat
      /\ unacked_packet \in Seq(Packet)
  BY DEF Inv, TypeOK
<1>2. /\ sPc \in {"drainNew", "drain"}
      /\ faults' = faults /\ pkts' = pkts /\ seq_no' = seq_no
      /\ remain_size' = remain_size /\ lastPacket' = lastPacket
  BY DEF ReceiveAck, Draining
<1>3. ackNet' \subseteq ackNet
  BY ReadingOnlyTakes DEF ReceiveAck
<1>4. CASE intact /\ InSendWindow(a)
  <2>1. /\ ClientInStep' /\ base_ack_no' = base_ack_no /\ base_ack_no \in Nat
        /\ cDone' = cDone /\ delivered' = delivered
    BY ClientAside
  <2>2. /\ sPc' = sPc /\ base_seq_no' = a + 1
        /\ unacked_packet' =
             SubSeq(unacked_packet, a - base_seq_no + 2, Len(unacked_packet))
    BY <1>4 DEF ReceiveAck, PopThrough
  <2>3. a >= base_seq_no /\ a < base_ack_no /\ base_ack_no <= seq_no
    BY <1>1, <1>4 DEF InSendWindow, NetworkIsHonest, WindowIsUnacknowledged
  <2>4. a < seq_no
    BY <1>1, <2>1, <2>3
  <2>5. /\ Len(unacked_packet) = seq_no - base_seq_no
        /\ Len(unacked_packet) <= sendWindow
        /\ \A i \in DOMAIN unacked_packet : unacked_packet[i] =
             DataPacket(base_seq_no + i - 1, Segment(base_seq_no + i - 1))
    BY <1>1 DEF WindowIsUnacknowledged
  <2>6. /\ unacked_packet' \in Seq(Packet)
        /\ Len(unacked_packet') = seq_no - (a + 1)
        /\ \A i \in DOMAIN unacked_packet' : unacked_packet'[i] =
             DataPacket(a + 1 + i - 1, Segment(a + 1 + i - 1))
    BY <1>1, <2>2, <2>3, <2>4, <2>5, PopKeepsWindow
  <2>7. WindowIsUnacknowledged'
    <3>1. seq_no - (a + 1) <= sendWindow
      BY <1>1, <2>3, <2>5, SendWindowAssumption
    <3>2. base_seq_no' <= base_ack_no' /\ base_ack_no' <= seq_no'
      BY <1>1, <1>2, <2>1, <2>2, <2>3
    <3> QED
      BY <1>2, <2>2, <2>6, <3>1, <3>2 DEF WindowIsUnacknowledged
  <2>8. TypeOK'
    BY <1>1, <1>2, <1>3, <2>1, <2>2, <2>6 DEF TypeOK
  <2>9. FeederInStep'
    BY <1>1, <1>2, <2>2 DEF FeederInStep, FeederAt
  <2>10. NetworkIsHonest'
    BY <1>1, <1>2, <1>3, <2>1 DEF NetworkIsHonest
  <2> QED
    BY <2>1, <2>7, <2>8, <2>9, <2>10 DEF Inv
<1>5. CASE ~(intact /\ InSendWindow(a))
  <2>1. /\ sPc' = AfterRefusal /\ base_seq_no' = base_seq_no
        /\ unacked_packet' = unacked_packet
    BY <1>5 DEF ReceiveAck
  <2> QED
    BY <1>2, <1>3, <2>1, WindowAside DEF AfterRefusal
<1> QED
  BY <1>4, <1>5

LEMMA LeaveDrainPreserves ==
  Inv /\ LeaveDrain /\ UNCHANGED clientVars => Inv'
<1> SUFFICES ASSUME Inv, LeaveDrain, UNCHANGED clientVars PROVE Inv'
  OBVIOUS
<1>1. PICK k \in 0 .. Len(unacked_packet) :
        \E sent \in SUBSET (1 .. k) : UpdateTimer(k, sent)
  BY DEF LeaveDrain
<1>2. PICK sent \in SUBSET (1 .. k) : UpdateTimer(k, sent)
  BY <1>1
<1>3. /\ sPc \in {"drainNew", "drain", "timers"} /\ sPc' \in {"loop", "failed"}
      /\ faults' = faults /\ ackNet' = ackNet
      /\ seq_no' = seq_no /\ base_seq_no' = base_seq_no
      /\ unacked_packet' = unacked_packet
      /\ remain_size' = remain_size /\ lastPacket' = lastPacket
      /\ pkts' = pkts \cup {unacked_packet[i] : i \in sent}
  BY <1>2 DEF UpdateTimer, AfterTimer, Draining, Transmit
<1>4. sent \subseteq DOMAIN unacked_packet
  <2>1. unacked_packet \in Seq(Packet)
    BY DEF Inv, TypeOK
  <2> QED
    BY <1>2, <2>1
<1> QED
  BY <1>3, <1>4, WindowAside

-----------------------------------------------------------------------------
(* The steps of the client. *)

\* An accepted packet is the next of the file.
LEMMA AcceptMoves ==
  ASSUME Inv, NEW p \in pkts, ~cDone, IsNext(p), Accept(p)
  PROVE  /\ base_ack_no \in Nat /\ base_ack_no <= FinSeqno /\ base_ack_no < seq_no
         /\ base_ack_no' = base_ack_no + 1 /\ ClientInStep'
         /\ cDone' \in BOOLEAN /\ delivered' \in Seq(Data)
         /\ ackNet' \subseteq ackNet \cup {base_ack_no}
<1>1. /\ base_ack_no \in Nat /\ seq_no \in Nat /\ FinSeqno \in Nat /\ p.seqno \in Nat
      /\ FeederInStep /\ NetworkIsHonest /\ ClientInStep
  BY Segments DEF Inv, TypeOK, Packet
<1>2. /\ p.seqno = base_ack_no /\ p = DataPacket(base_ack_no, Segment(base_ack_no))
      /\ base_ack_no < seq_no
  BY <1>1 DEF IsNext, NetworkIsHonest
<1>3. base_ack_no <= FinSeqno
  BY <1>1, <1>2 DEF FeederInStep
<1>4. /\ base_ack_no' = base_ack_no + 1
      /\ ackNet' \subseteq ackNet \cup {base_ack_no}
  BY <1>2 DEF Accept, SendAck
<1>5. delivered = SubSeq(File, 1, base_ack_no)
  BY <1>1 DEF ClientInStep
<1>6. CASE IsEmpty(p)
  <2>1. cDone' = TRUE /\ delivered' = delivered
    BY <1>6 DEF Accept
  <2>2. base_ack_no = FinSeqno
    BY <1>1, <1>2, <1>3, <1>6, Segments
  <2>3. ClientInStep'
    BY <1>1, <1>4, <1>5, <2>1, <2>2 DEF ClientInStep
  <2>4. delivered' \in Seq(Data)
    BY <2>1 DEF Inv, TypeOK
  <2> QED
    BY <1>1, <1>2, <1>3, <1>4, <2>1, <2>3, <2>4
<1>7. CASE ~IsEmpty(p)
  <2>1. cDone' = FALSE /\ delivered' = delivered \o <<p.data>>
    BY <1>7 DEF Accept, FeedNextData, Inv, TypeOK
  <2>2. base_ack_no < FinSeqno /\ p.data = Segment(base_ack_no)
    BY <1>1, <1>2, <1>3, <1>7, Segments
  <2>3. delivered' = SubSeq(File, 1, base_ack_no + 1)
    BY <1>1, <1>5, <2>1, <2>2, BeginningGrows
  <2>4. delivered' \in Seq(Data)
    <3>1. base_ack_no + 1 \in Nat /\ base_ack_no + 1 <= FinSeqno
      BY <1>1, <2>2
    <3> QED
      BY <2>3, <3>1, Beginning
  <2>5. ClientInStep'
    BY <1>1, <1>4, <2>1, <2>2, <2>3 DEF ClientInStep
  <2> QED
    BY <1>1, <1>2, <1>3, <1>4, <2>1, <2>4, <2>5
<1> QED
  BY <1>6, <1>7

LEMMA ReceivePacketPreserves ==
  ASSUME Inv, NEW p \in pkts, NEW intact \in Intact,
         ReceivePacket(p, intact), UNCHANGED serverVars
  PROVE  Inv'
<1>1. /\ TypeOK /\ WindowIsUnacknowledged /\ FeederInStep /\ NetworkIsHonest
      /\ ClientInStep /\ base_ack_no \in Nat /\ seq_no \in Nat /\ base_seq_no \in Nat
      /\ ~cDone /\ faults' = faults
      /\ sPc' = sPc /\ seq_no' = seq_no /\ base_seq_no' = base_seq_no
      /\ unacked_packet' = unacked_packet
      /\ remain_size' = remain_size /\ lastPacket' = lastPacket
  BY DEF Inv, TypeOK, ReceivePacket, serverVars
<1>2. pkts' \subseteq pkts
  BY ReadingOnlyTakes DEF ReceivePacket
<1>3. FeederInStep'
  BY <1>1 DEF FeederInStep, FeederAt
<1>4. CASE intact /\ IsNext(p)
  <2>1. Accept(p)
    BY <1>4 DEF ReceivePacket
  <2>2. /\ base_ack_no < seq_no
        /\ base_ack_no' = base_ack_no + 1 /\ ClientInStep'
        /\ cDone' \in BOOLEAN /\ delivered' \in Seq(Data)
        /\ ackNet' \subseteq ackNet \cup {base_ack_no}
    BY <1>1, <1>4, <2>1, AcceptMoves
  <2>3. TypeOK'
    BY <1>1, <1>2, <2>2 DEF TypeOK
  <2>4. WindowIsUnacknowledged'
    <3>1. base_seq_no' <= base_ack_no' /\ base_ack_no' <= seq_no'
      BY <1>1, <2>2 DEF WindowIsUnacknowledged
    <3> QED
      BY <1>1, <3>1 DEF WindowIsUnacknowledged
  <2>5. NetworkIsHonest'
    <3>1. \A b \in ackNet' : b < base_ack_no'
      <4> SUFFICES ASSUME NEW b \in ackNet' PROVE b < base_ack_no'
        OBVIOUS
      <4>1. b = base_ack_no \/ (b \in ackNet /\ b < base_ack_no /\ b \in Nat)
        BY <1>1, <2>2 DEF NetworkIsHonest, TypeOK
      <4> QED
        BY <1>1, <2>2, <4>1
    <3> QED
      BY <1>1, <1>2, <3>1 DEF NetworkIsHonest
  <2> QED
    BY <1>3, <2>2, <2>3, <2>4, <2>5 DEF Inv
<1>5. CASE ~(intact /\ IsNext(p))
  <2>1. /\ base_ack_no' = base_ack_no /\ cDone' = cDone /\ delivered' = delivered
        /\ ackNet' = ackNet
    BY <1>5 DEF ReceivePacket, clientVars
  <2>2. TypeOK'
    BY <1>1, <1>2, <2>1 DEF TypeOK
  <2>3. WindowIsUnacknowledged' /\ NetworkIsHonest' /\ ClientInStep'
    BY <1>1, <1>2, <2>1 DEF WindowIsUnacknowledged, NetworkIsHonest, ClientInStep
  <2> QED
    BY <1>3, <2>2, <2>3 DEF Inv
<1> QED
  BY <1>4, <1>5

-----------------------------------------------------------------------------
LEMMA NextPreserves == Inv /\ [Next]_vars => Inv'
<1> SUFFICES ASSUME Inv, [Next]_vars PROVE Inv'
  OBVIOUS
<1>1. CASE ServerStep
  <2>0. UNCHANGED clientVars
    BY <1>1 DEF ServerStep
  <2>1. CASE SendNext
    BY <2>0, <2>1, SendNextPreserves
  <2>2. CASE SendFails
    BY <2>0, <2>2, SendFailsPreserves
  <2>3. CASE AwaitAcks
    BY <2>0, <2>3, AwaitAcksPreserves
  <2>4. CASE Finish
    BY <2>0, <2>4, FinishPreserves
  <2>5. CASE \E a \in ackNet, intact \in Intact : ReceiveAck(a, intact)
    BY <2>0, <2>5, ReceiveAckPreserves
  <2>6. CASE ReceiveError
    BY <2>0, <2>6, ReceiveErrorPreserves
  <2>7. CASE LeaveDrain
    BY <2>0, <2>7, LeaveDrainPreserves
  <2> QED
    BY <1>1, <2>1, <2>2, <2>3, <2>4, <2>5, <2>6, <2>7 DEF ServerStep, ServerNext
<1>2. CASE ClientStep
  BY <1>2, ReceivePacketPreserves DEF ClientStep, ClientNext
<1>3. CASE UNCHANGED vars
  BY <1>3 DEF vars, serverVars, clientVars, netVars, Inv, TypeOK,
              WindowIsUnacknowledged, FeederInStep, FeederAt, NetworkIsHonest,
              ClientInStep
<1> QED
  BY <1>1, <1>2, <1>3 DEF Next

\* The inductive invariant of go-back-N (GoBackServer, GoBackClient) holds in
\* every reachable state, for every file, window and fault profile.
THEOREM Invariance == Spec => []Inv
<1>1. Init => Inv
  BY InitEstablishes
<1>2. Inv /\ [Next]_vars => Inv'
  BY NextPreserves
<1> QED
  BY <1>1, <1>2, PTL DEF Spec

\* The variables keep their types.
THEOREM TypeCorrect == Spec => []TypeOK
<1>1. Inv => TypeOK
  BY DEF Inv
<1> QED
  BY <1>1, Invariance, PTL

\* What the server keeps is what was not acknowledged, and what a cumulative
\* acknowledgement erased the client has.
THEOREM WindowIsKept == Spec => []WindowIsUnacknowledged
<1>1. Inv => WindowIsUnacknowledged
  BY DEF Inv
<1> QED
  BY <1>1, Invariance, PTL

\* receive_ack never erases from an empty unacked_packet, whatever
\* acknowledgement is still on its way.
THEOREM PopsAreSafe == Spec => []PopsWhatWasSent
<1>1. Inv => PopsWhatWasSent
  <2> SUFFICES ASSUME Inv, NEW a \in ackNet
               PROVE  a - base_seq_no < Len(unacked_packet)
    BY DEF PopsWhatWasSent
  <2>1. /\ a \in Nat /\ base_seq_no \in Nat /\ base_ack_no \in Nat /\ seq_no \in Nat
        /\ a < base_ack_no /\ base_ack_no <= seq_no
        /\ Len(unacked_packet) = seq_no - base_seq_no
    BY DEF Inv, TypeOK, NetworkIsHonest, WindowIsUnacknowledged
  <2> QED
    BY <2>1
<1> QED
  BY <1>1, Invariance, PTL

-----------------------------------------------------------------------------
(* Go-back-N implements ReliableTransfer. *)

LEMMA InitRefines == Init => RT!Init
BY DEF Init, ServerInit, ClientInit, SinkInit, RT!Init

\* Every step maps to a step of ReliableTransfer or to a stutter.
LEMMA NextRefines ==
  ASSUME Inv, Inv', [Next]_vars
  PROVE  [RT!Next]_<<delivered, cDone, sPc = "done">>
<1>1. CASE ServerStep
  <2>1. UNCHANGED <<delivered, cDone>> /\ sPc # "done"
    BY <1>1 DEF ServerStep, clientVars, ServerNext, SendNext, SendFails, AwaitAcks,
                Finish, ReceiveAck, ReceiveError, LeaveDrain, UpdateTimer, Draining
  <2>2. CASE sPc' = "done"
    <3>1. /\ base_seq_no' = FinSeqno + 1 /\ seq_no' = FinSeqno + 1
          /\ base_seq_no' <= base_ack_no' /\ base_ack_no' <= seq_no'
          /\ base_ack_no' \in Nat
      BY <2>2 DEF Inv, TypeOK, FeederInStep, FinSeqno, WindowIsUnacknowledged
    <3>2. base_ack_no' = FinSeqno + 1
      BY <3>1, Segments
    <3>3. cDone' /\ cDone
      BY <2>1, <3>2 DEF Inv, ClientInStep, FinSeqno
    <3> QED
      BY <2>1, <2>2, <3>3 DEF RT!Next, RT!ServerFinishes
  <2>3. CASE sPc' # "done"
    BY <2>1, <2>3
  <2> QED
    BY <2>2, <2>3
<1>2. CASE ClientStep
  <2>1. PICK p \in pkts, intact \in Intact : ReceivePacket(p, intact)
    BY <1>2 DEF ClientStep, ClientNext
  <2>2. cDone = FALSE /\ sPc' = sPc
    BY <1>2, <2>1 DEF ReceivePacket, ClientStep, serverVars, Inv, TypeOK
  <2>3. CASE intact /\ IsNext(p)
    <3>1. Accept(p)
      BY <2>1, <2>3 DEF ReceivePacket
    <3>2. /\ base_ack_no \in Nat /\ FinSeqno \in Nat /\ base_ack_no <= FinSeqno
          /\ base_ack_no' = base_ack_no + 1 /\ cDone' \in BOOLEAN
      BY <2>2, <2>3, <3>1, AcceptMoves, Segments
    <3>3. delivered = SubSeq(File, 1, base_ack_no) /\ Len(delivered) = base_ack_no
      <4>1. delivered = SubSeq(File, 1, base_ack_no)
        BY <2>2 DEF Inv, ClientInStep
      <4> QED
        BY <3>2, <4>1, Beginning
    <3>4. PICK n \in base_ack_no .. FinSeqno :
            delivered' = SubSeq(File, 1, n) /\ (cDone' => n = FinSeqno)
      <4>1. /\ cDone' <=> base_ack_no' = FinSeqno + 1
            /\ delivered' = SubSeq(File, 1, IF cDone' THEN FinSeqno ELSE base_ack_no')
            /\ base_ack_no' <= FinSeqno + 1
        BY DEF Inv, ClientInStep, FinSeqno
      <4> QED
        BY <3>2, <4>1
    <3>5. RT!ClientWrites
      BY <2>2, <3>2, <3>3, <3>4 DEF RT!ClientWrites, FinSeqno
    <3> QED
      BY <3>5 DEF RT!Next
  <2>4. CASE ~(intact /\ IsNext(p))
    BY <2>1, <2>2, <2>4 DEF ReceivePacket, clientVars
  <2> QED
    BY <2>3, <2>4
<1>3. CASE UNCHANGED vars
  BY <1>3 DEF vars, clientVars, serverVars
<1> QED
  BY <1>1, <1>2, <1>3 DEF Next

\* The client writes the segments in order, each once, stops only with the
\* whole file, and the server reports success only after that.
THEOREM Refinement == Spec => ImplementsReliableTransfer
<1>1. Init => RT!Init
  BY InitRefines
<1>2. Inv /\ Inv' /\ [Next]_vars => [RT!Next]_<<delivered, cDone, sPc = "done">>
  BY NextRefines
<1> QED
  BY <1>1, <1>2, Invariance, PTL DEF Spec, ImplementsReliableTransfer, RT!Spec
=============================================================================
