--------------------------- MODULE StopWaitProofs ---------------------------
(***************************************************************************)
(* Stop and wait is safe for every file and every fault profile: Inv is    *)
(* inductive, and the properties follow from it.                           *)
(***************************************************************************)
EXTENDS StopWait, PacketLemmas

\* The invariant holds before the first step.
LEMMA InitEstablishes == Init => Inv
<1> SUFFICES ASSUME Init PROVE Inv
  OBVIOUS
<1> USE Segments DEF Init, ServerInit, ClientInit, NetInit, FeederInit, SinkInit
<1>1. TypeOK
  <2>1. delivered \in Seq(Data)
    OBVIOUS
  <2>2. packet \in Packet
    BY DEF Packet, DataPacket
  <2>3. remain_size \in Nat /\ lastPacket \in BOOLEAN
    BY DEF FinSeqno
  <2> QED
    BY <2>1, <2>2, <2>3 DEF TypeOK, NoAck
<1>2. InLockStep
  BY DEF InLockStep
<1>3. FeederInStep
  BY DEF FeederInStep, FeederAt, Handed, Waiting, FinSeqno
<1>4. PacketsInStep
  BY DEF PacketsInStep
<1>5. ClientInStep
  <2>1. SubSeq(File, 1, 0) = <<>>
    BY SubSeqEmpty
  <2>2. ackNo = 0 /\ last_pack = -1 /\ cDone = FALSE /\ delivered = <<>>
    BY DEF NoAck
  <2> QED
    BY <2>1, <2>2 DEF ClientInStep
<1> QED
  BY <1>1, <1>2, <1>3, <1>4, <1>5 DEF Inv

-----------------------------------------------------------------------------
(* The steps of the server. *)

\* What a server step leaves to be shown when the client stands still.
LEMMA ClientAside ==
  ASSUME Inv, UNCHANGED clientVars
  PROVE  /\ ClientInStep'
         /\ ackNo' = ackNo /\ ackNo \in Nat
         /\ last_pack' = last_pack /\ cDone' = cDone /\ delivered' = delivered
<1>1. /\ ackNo' = ackNo /\ last_pack' = last_pack
      /\ cDone' = cDone /\ delivered' = delivered
  BY DEF clientVars
<1> QED
  BY <1>1 DEF Inv, TypeOK, ClientInStep

LEMMA SendNextPreserves ==
  Inv /\ SendNext /\ UNCHANGED clientVars => Inv'
<1> SUFFICES ASSUME Inv, SendNext, UNCHANGED clientVars PROVE Inv'
  OBVIOUS
<1>1. /\ TypeOK /\ InLockStep /\ PacketsInStep
      /\ sPc = "feed" /\ seq_no \in Nat /\ seq_no' = seq_no
      /\ sPc' \in {"wait", "failed"}
      /\ faults' = faults /\ ackNet' = ackNet
  BY DEF Inv, TypeOK, SendNext
<1>2. /\ seq_no <= FinSeqno /\ NextSegment = Segment(seq_no)
      /\ remain_size' \in Nat /\ lastPacket' \in BOOLEAN
      /\ remain_size' = IF seq_no + 1 < FinSeqno THEN FinSeqno - (seq_no + 1) ELSE 0
      /\ (lastPacket' <=> seq_no + 1 > FinSeqno)
  <2>1. /\ HasNext /\ GetNextDataSegment /\ FeederAt(seq_no)
        /\ remain_size \in Nat /\ lastPacket \in BOOLEAN
    BY <1>1 DEF SendNext, Inv, TypeOK, FeederInStep, Handed, Waiting
  <2> QED
    BY <1>1, <2>1, FeederMoves
<1>3. /\ packet' = DataPacket(seq_no, Segment(seq_no))
      /\ packet' \in Packet /\ packet'.seqno = seq_no
  BY <1>1, <1>2, Segments DEF SendNext
<1>4. pkts' \subseteq pkts \cup {packet'}
  BY DEF SendNext, Transmit
<1>5. /\ ClientInStep' /\ ackNo' = ackNo /\ ackNo \in Nat
      /\ last_pack' = last_pack /\ cDone' = cDone /\ delivered' = delivered
  BY ClientAside
<1>6. TypeOK'
  BY <1>1, <1>2, <1>3, <1>4, <1>5 DEF TypeOK
<1>7. InLockStep'
  BY <1>1, <1>5 DEF InLockStep
<1>8. FeederInStep'
  BY <1>1, <1>2, <1>3, Segments DEF FeederInStep, FeederAt, Handed, Waiting
<1>9. PacketsInStep'
  <2>1. ASSUME NEW p \in pkts'
        PROVE  /\ p = DataPacket(p.seqno, Segment(p.seqno))
               /\ p.seqno <= seq_no' /\ p.seqno <= FinSeqno
    BY <1>1, <1>2, <1>3, <1>4 DEF PacketsInStep
  <2> QED
    BY <1>1, <2>1 DEF PacketsInStep
<1> QED
  BY <1>5, <1>6, <1>7, <1>8, <1>9 DEF Inv

LEMMA FinishPreserves ==
  Inv /\ Finish /\ UNCHANGED clientVars => Inv'
<1> SUFFICES ASSUME Inv, Finish, UNCHANGED clientVars PROVE Inv'
  OBVIOUS
<1>1. /\ TypeOK /\ InLockStep /\ PacketsInStep /\ FeederInStep
      /\ sPc = "feed" /\ sPc' = "done" /\ seq_no \in Nat /\ seq_no' = seq_no
      /\ packet' = packet /\ remain_size' = remain_size /\ lastPacket' = lastPacket
      /\ faults' = faults /\ pkts' = pkts /\ ackNet' = ackNet
  BY DEF Inv, TypeOK, Finish, netVars
<1>2. /\ ClientInStep' /\ ackNo' = ackNo /\ ackNo \in Nat
      /\ last_pack' = last_pack /\ cDone' = cDone /\ delivered' = delivered
  BY ClientAside
<1>3. seq_no = FinSeqno + 1
  <2>1. FeederAt(seq_no) /\ ~HasNext
    BY <1>1 DEF FeederInStep, FeederAt, Handed, Waiting, Finish
  <2> QED
    BY <1>1, <2>1, FeederEnds
<1>4. TypeOK' /\ InLockStep'
  BY <1>1, <1>2 DEF TypeOK, InLockStep
<1>5. FeederInStep'
  BY <1>1, <1>3 DEF FeederInStep, FeederAt, Handed, Waiting
<1>6. PacketsInStep'
  BY <1>1 DEF PacketsInStep
<1> QED
  BY <1>2, <1>4, <1>5, <1>6 DEF Inv

LEMMA RetransmitPreserves ==
  ASSUME Inv, NEW sent \in SUBSET {packet}, Retransmit(sent), UNCHANGED clientVars
  PROVE  Inv'
<1>1. /\ TypeOK /\ InLockStep /\ PacketsInStep /\ FeederInStep
      /\ Waiting /\ sPc' = "rewait" /\ seq_no \in Nat /\ seq_no' = seq_no
      /\ packet' = packet /\ remain_size' = remain_size /\ lastPacket' = lastPacket
      /\ faults' = faults /\ ackNet' = ackNet
      /\ pkts' \subseteq pkts \cup {packet}
  BY DEF Inv, TypeOK, Retransmit, Transmit
<1>2. /\ ClientInStep' /\ ackNo' = ackNo /\ ackNo \in Nat
      /\ last_pack' = last_pack /\ cDone' = cDone /\ delivered' = delivered
  BY ClientAside
<1>3. /\ packet = DataPacket(seq_no, Segment(seq_no)) /\ seq_no <= FinSeqno
      /\ packet.seqno = seq_no
  BY <1>1, Segments DEF FeederInStep
<1>4. TypeOK' /\ InLockStep'
  BY <1>1, <1>2 DEF TypeOK, InLockStep, Waiting
<1>5. FeederInStep'
  BY <1>1 DEF FeederInStep, FeederAt, Handed, Waiting
<1>6. PacketsInStep'
  <2>1. ASSUME NEW p \in pkts'
        PROVE  /\ p = DataPacket(p.seqno, Segment(p.seqno))
               /\ p.seqno <= seq_no' /\ p.seqno <= FinSeqno
    BY <1>1, <1>3 DEF PacketsInStep
  <2> QED
    BY <1>1, <2>1 DEF PacketsInStep
<1> QED
  BY <1>2, <1>4, <1>5, <1>6 DEF Inv

LEMMA GiveUpPreserves ==
  Inv /\ GiveUp /\ UNCHANGED clientVars => Inv'
<1> SUFFICES ASSUME Inv, GiveUp, UNCHANGED clientVars PROVE Inv'
  OBVIOUS
<1>1. /\ TypeOK /\ InLockStep /\ PacketsInStep /\ FeederInStep
      /\ sPc' = "failed" /\ seq_no' = seq_no
      /\ packet' = packet /\ remain_size' = remain_size /\ lastPacket' = lastPacket
      /\ faults' = faults /\ pkts' = pkts /\ ackNet' = ackNet
  BY DEF Inv, GiveUp, netVars
<1>2. /\ ClientInStep' /\ ackNo' = ackNo /\ ackNo \in Nat
      /\ last_pack' = last_pack /\ cDone' = cDone /\ delivered' = delivered
  BY ClientAside
<1>3. TypeOK' /\ InLockStep' /\ PacketsInStep'
  BY <1>1, <1>2 DEF TypeOK, InLockStep, PacketsInStep
<1>4. FeederInStep'
  BY <1>1 DEF FeederInStep, Waiting
<1> QED
  BY <1>2, <1>3, <1>4 DEF Inv

\* Whatever was read, the rest of the network is as it was.
LEMMA ReadingOnlyTakes ==
  ASSUME NEW net, NEW m, NEW left \in AfterReading(net, m)
  PROVE  left \subseteq net
BY DEF AfterReading

LEMMA ReceiveAckPreserves ==
  ASSUME Inv, NEW a \in ackNet, NEW intact \in Intact,
         ReceiveAck(a, intact), UNCHANGED clientVars
  PROVE  Inv'
<1>1. /\ TypeOK /\ InLockStep /\ PacketsInStep /\ FeederInStep
      /\ Waiting /\ seq_no \in Nat /\ a \in Nat
      /\ packet' = packet /\ remain_size' = remain_size /\ lastPacket' = lastPacket
      /\ faults' = faults /\ pkts' = pkts
  BY DEF Inv, TypeOK, ReceiveAck
<1>2. ackNet' \subseteq ackNet
  BY ReadingOnlyTakes DEF ReceiveAck
<1>3. /\ ClientInStep' /\ ackNo' = ackNo /\ ackNo \in Nat
      /\ last_pack' = last_pack /\ cDone' = cDone /\ delivered' = delivered
  BY ClientAside
<1>4. CASE intact /\ IsAwaited(a)
  <2>1. a = seq_no /\ seq_no' = seq_no + 1 /\ sPc' = "feed"
    BY <1>4 DEF ReceiveAck, IsAwaited
  \* Only the packet the client already accepted is acknowledged.
  <2>2. ackNo = seq_no + 1
    <3>1. a < ackNo /\ ackNo <= seq_no + 1
      BY <1>1 DEF InLockStep
    <3> QED
      BY <1>1, <1>3, <2>1, <3>1
  <2>3. TypeOK'
    BY <1>1, <1>2, <1>3, <2>1 DEF TypeOK
  <2>4. InLockStep'
    BY <1>1, <1>2, <1>3, <2>1, <2>2 DEF InLockStep
  <2>5. FeederInStep'
    BY <1>1, <2>1, Segments DEF FeederInStep, FeederAt, Handed, Waiting
  <2>6. PacketsInStep'
    <3>1. ASSUME NEW p \in pkts'
          PROVE  /\ p = DataPacket(p.seqno, Segment(p.seqno))
                 /\ p.seqno <= seq_no' /\ p.seqno <= FinSeqno /\ p.seqno < seq_no'
      <4>1. /\ p = DataPacket(p.seqno, Segment(p.seqno))
            /\ p.seqno <= seq_no /\ p.seqno <= FinSeqno
        BY <1>1 DEF PacketsInStep
      <4>2. p.seqno \in Nat
        BY <1>1 DEF TypeOK, Packet
      <4> QED
        BY <1>1, <2>1, <4>1, <4>2
    <3> QED
      BY <3>1 DEF PacketsInStep
  <2> QED
    BY <1>3, <2>3, <2>4, <2>5, <2>6 DEF Inv
<1>5. CASE ~(intact /\ IsAwaited(a))
  <2>1. seq_no' = seq_no /\ sPc' = sPc
    BY <1>5 DEF ReceiveAck
  <2>2. TypeOK' /\ InLockStep' /\ PacketsInStep'
    BY <1>1, <1>2, <1>3, <2>1 DEF TypeOK, InLockStep, PacketsInStep
  <2>3. FeederInStep'
    BY <1>1, <2>1 DEF FeederInStep, FeederAt, Handed, Waiting
  <2> QED
    BY <1>3, <2>2, <2>3 DEF Inv
<1> QED
  BY <1>4, <1>5

-----------------------------------------------------------------------------
(* The steps of the client. *)

\* An accepted packet is the next of the file.
LEMMA AcceptMoves ==
  ASSUME Inv, NEW p \in pkts, ~cDone, IsExpected(p), Accept(p)
  PROVE  /\ p.seqno = ackNo /\ ackNo \in Nat /\ ackNo <= FinSeqno /\ ackNo = seq_no
         /\ sPc \notin {"feed", "done"}
         /\ ackNo' = ackNo + 1 /\ ClientInStep'
         /\ cDone' \in BOOLEAN /\ last_pack' \in Nat /\ delivered' \in Seq(Data)
         /\ ackNet' \subseteq ackNet \cup {ackNo}
<1>1. /\ ackNo \in Nat /\ seq_no \in Nat /\ FinSeqno \in Nat /\ p.seqno \in Nat
      /\ InLockStep /\ PacketsInStep /\ ClientInStep
  BY Segments DEF Inv, TypeOK, Packet
<1>2. /\ p.seqno = ackNo /\ p = DataPacket(ackNo, Segment(ackNo))
      /\ ackNo <= seq_no /\ ackNo <= FinSeqno
  BY <1>1 DEF IsExpected, PacketsInStep
<1>3. ackNo = seq_no /\ sPc \notin {"feed", "done"}
  <2>1. ackNo = seq_no
    BY <1>1, <1>2 DEF InLockStep
  <2>2. CASE sPc \in {"feed", "done"}
    <3>1. p.seqno < seq_no
      BY <1>1, <2>2 DEF PacketsInStep
    <3> QED
      BY <1>1, <1>2, <2>1, <3>1
  <2> QED
    BY <2>1, <2>2
<1>4. /\ last_pack' = ackNo /\ ackNo' = ackNo + 1
      /\ ackNet' \subseteq ackNet \cup {ackNo}
  BY DEF Accept, SendAck
<1>5. delivered = SubSeq(File, 1, ackNo)
  BY <1>1 DEF ClientInStep
<1>6. CASE IsEmpty(p)
  <2>1. cDone' = TRUE /\ delivered' = delivered
    BY <1>6 DEF Accept
  <2>2. ackNo = FinSeqno
    BY <1>1, <1>2, <1>6, Segments
  <2>3. ClientInStep'
    BY <1>1, <1>4, <1>5, <2>1, <2>2 DEF ClientInStep
  <2>4. delivered' \in Seq(Data)
    BY <2>1 DEF Inv, TypeOK
  <2> QED
    BY <1>1, <1>2, <1>3, <1>4, <2>1, <2>3, <2>4
<1>7. CASE ~IsEmpty(p)
  <2>1. cDone' = FALSE /\ delivered' = delivered \o <<p.data>>
    BY <1>7 DEF Accept, FeedNextData, Inv, TypeOK
  <2>2. ackNo < FinSeqno /\ p.data = Segment(ackNo)
    BY <1>1, <1>2, <1>7, Segments
  <2>3. delivered' = SubSeq(File, 1, ackNo + 1)
    BY <1>1, <1>5, <2>1, <2>2, BeginningGrows
  <2>4. delivered' \in Seq(Data)
    <3>1. ackNo + 1 \in Nat /\ ackNo + 1 <= FinSeqno
      BY <1>1, <2>2
    <3> QED
      BY <2>3, <3>1, Beginning
  <2>5. ClientInStep'
    BY <1>1, <1>4, <2>1, <2>2, <2>3 DEF ClientInStep
  <2> QED
    BY <1>1, <1>2, <1>3, <1>4, <2>1, <2>4, <2>5
<1> QED
  BY <1>6, <1>7

LEMMA ReceivePacketPreserves ==
  ASSUME Inv, NEW p \in pkts, NEW intact \in Intact,
         ReceivePacket(p, intact), UNCHANGED serverVars
  PROVE  Inv'
<1>1. /\ TypeOK /\ InLockStep /\ PacketsInStep /\ FeederInStep /\ ClientInStep
      /\ ackNo \in Nat /\ seq_no \in Nat /\ ~cDone /\ faults' = faults
      /\ sPc' = sPc /\ seq_no' = seq_no /\ packet' = packet
      /\ remain_size' = remain_size /\ lastPacket' = lastPacket
  BY DEF Inv, TypeOK, ReceivePacket, serverVars
<1>2. pkts' \subseteq pkts
  BY ReadingOnlyTakes DEF ReceivePacket
<1>3. FeederInStep' /\ PacketsInStep'
  BY <1>1, <1>2 DEF FeederInStep, FeederAt, PacketsInStep, Handed, Waiting
<1>4. CASE intact /\ IsExpected(p)
  <2>1. Accept(p)
    BY <1>4 DEF ReceivePacket
  <2>2. /\ ackNo = seq_no /\ sPc \notin {"feed", "done"}
        /\ ackNo' = ackNo + 1 /\ ClientInStep'
        /\ cDone' \in BOOLEAN /\ last_pack' \in Nat /\ delivered' \in Seq(Data)
        /\ ackNet' \subseteq ackNet \cup {ackNo}
    BY <1>1, <1>4, <2>1, AcceptMoves
  <2>3. TypeOK'
    BY <1>1, <1>2, <2>2 DEF TypeOK
  <2>4. InLockStep'
    <3>1. \A b \in ackNet' : b < ackNo'
      <4> SUFFICES ASSUME NEW b \in ackNet' PROVE b < ackNo'
        OBVIOUS
      <4>1. b = ackNo \/ (b \in ackNet /\ b < ackNo /\ b \in Nat)
        BY <1>1, <2>2 DEF InLockStep, TypeOK
      <4> QED
        BY <1>1, <2>2, <4>1
    <3> QED
      BY <1>1, <2>2, <3>1 DEF InLockStep
  <2> QED
    BY <1>3, <2>2, <2>3, <2>4 DEF Inv
<1>5. CASE ~(intact /\ IsExpected(p))
  <2>1. /\ ackNo' = ackNo /\ last_pack' = last_pack /\ cDone' = cDone
        /\ delivered' = delivered
    BY <1>5 DEF ReceivePacket, Refuse, clientVars
  <2>2. ackNet' \subseteq ackNet \cup ({last_pack} \ {NoAck})
    BY <1>5 DEF ReceivePacket, Refuse, RepeatLastAck, SendAck
  <2>3. last_pack = NoAck \/ (last_pack \in Nat /\ last_pack < ackNo)
    BY <1>1 DEF ClientInStep, TypeOK
  <2>4. TypeOK'
    BY <1>1, <1>2, <2>1, <2>2, <2>3 DEF TypeOK
  <2>5. InLockStep'
    BY <1>1, <2>1, <2>2, <2>3 DEF InLockStep
  <2>6. ClientInStep'
    BY <1>1, <2>1 DEF ClientInStep
  <2> QED
    BY <1>3, <2>4, <2>5, <2>6 DEF Inv
<1> QED
  BY <1>4, <1>5

-----------------------------------------------------------------------------
LEMMA NextPreserves == Inv /\ [Next]_vars => Inv'
<1> SUFFICES ASSUME Inv, [Next]_vars PROVE Inv'
  OBVIOUS
<1>1. CASE ServerStep
  <2>0. UNCHANGED clientVars
    BY <1>1 DEF ServerStep
  <2>1. CASE SendNext
    BY <2>0, <2>1, SendNextPreserves
  <2>2. CASE Finish
    BY <2>0, <2>2, FinishPreserves
  <2>3. CASE GiveUp
    BY <2>0, <2>3, GiveUpPreserves
  <2>4. CASE \E sent \in SUBSET {packet} : Retransmit(sent)
    BY <2>0, <2>4, RetransmitPreserves
  <2>5. CASE \E a \in ackNet, intact \in Intact : ReceiveAck(a, intact)
    BY <2>0, <2>5, ReceiveAckPreserves
  <2> QED
    BY <1>1, <2>1, <2>2, <2>3, <2>4, <2>5 DEF ServerStep, ServerNext
<1>2. CASE ClientStep
  BY <1>2, ReceivePacketPreserves DEF ClientStep, ClientNext
<1>3. CASE UNCHANGED vars
  BY <1>3 DEF vars, serverVars, clientVars, netVars, Inv, TypeOK, InLockStep,
              FeederInStep, FeederAt, PacketsInStep, ClientInStep, Handed, Waiting
<1> QED
  BY <1>1, <1>2, <1>3 DEF Next

\* The inductive invariant of stop and wait (StopWaitServer, StopWaitClient)
\* holds in every reachable state, for every file and fault profile.
THEOREM Invariance == Spec => []Inv
<1>1. Init => Inv
  BY InitEstablishes
<1>2. Inv /\ [Next]_vars => Inv'
  BY NextPreserves
<1> QED
  BY <1>1, <1>2, PTL DEF Spec

\* The variables keep their types.
THEOREM TypeCorrect == Spec => []TypeOK
<1>1. Inv => TypeOK
  BY DEF Inv
<1> QED
  BY <1>1, Invariance, PTL

\* The ends are never more than one packet apart: no acknowledgement, however
\* late or often repeated, moves the server past a packet the client lacks.
THEOREM LockStep == Spec => []InLockStep
<1>1. Inv => InLockStep
  BY DEF Inv
<1> QED
  BY <1>1, Invariance, PTL

-----------------------------------------------------------------------------
(* Stop and wait implements ReliableTransfer. *)

LEMMA InitRefines == Init => RT!Init
BY DEF Init, ServerInit, ClientInit, SinkInit, RT!Init

\* Every step maps to a step of ReliableTransfer or to a stutter.
LEMMA NextRefines ==
  ASSUME Inv, Inv', [Next]_vars
  PROVE  [RT!Next]_<<delivered, cDone, sPc = "done">>
<1>1. CASE ServerStep
  <2>1. /\ UNCHANGED <<delivered, cDone>> /\ sPc # "done"
    BY <1>1 DEF ServerStep, clientVars, ServerNext, SendNext, Finish, GiveUp,
                Retransmit, ReceiveAck, Waiting
  <2>2. CASE sPc' = "done"
    <3>1. ackNo' = seq_no' /\ seq_no' = FinSeqno + 1
      BY <2>2 DEF Inv, InLockStep, FeederInStep
    <3>2. cDone' /\ cDone
      BY <2>1, <3>1 DEF Inv, ClientInStep, FinSeqno
    <3> QED
      BY <2>1, <2>2, <3>2 DEF RT!Next, RT!ServerFinishes
  <2>3. CASE sPc' # "done"
    BY <2>1, <2>3
  <2> QED
    BY <2>2, <2>3
<1>2. CASE ClientStep
  <2>1. PICK p \in pkts, intact \in Intact : ReceivePacket(p, intact)
    BY <1>2 DEF ClientStep, ClientNext
  <2>2. cDone = FALSE /\ sPc' = sPc
    BY <1>2, <2>1 DEF ReceivePacket, ClientStep, serverVars, Inv, TypeOK
  <2>3. CASE intact /\ IsExpected(p)
    <3>1. Accept(p)
      BY <2>1, <2>3 DEF ReceivePacket
    <3>2. /\ ackNo \in Nat /\ FinSeqno \in Nat /\ ackNo <= FinSeqno /\ ackNo' = ackNo + 1
          /\ cDone' \in BOOLEAN
      BY <2>2, <2>3, <3>1, AcceptMoves, Segments
    <3>3. delivered = SubSeq(File, 1, ackNo) /\ Len(delivered) = ackNo
      <4>1. delivered = SubSeq(File, 1, ackNo)
        BY <2>2 DEF Inv, ClientInStep
      <4> QED
        BY <3>2, <4>1, Beginning
    <3>4. PICK n \in ackNo .. FinSeqno :
            delivered' = SubSeq(File, 1, n) /\ (cDone' => n = FinSeqno)
      <4>1. /\ cDone' <=> ackNo' = FinSeqno + 1
            /\ delivered' = SubSeq(File, 1, IF cDone' THEN FinSeqno ELSE ackNo')
            /\ ackNo' <= FinSeqno + 1
        BY DEF Inv, ClientInStep, FinSeqno
      <4> QED
        BY <3>2, <4>1
    <3>5. RT!ClientWrites
      BY <2>2, <3>2, <3>3, <3>4 DEF RT!ClientWrites, FinSeqno
    <3> QED
      BY <3>5 DEF RT!Next
  <2>4. CASE ~(intact /\ IsExpected(p))
    BY <2>1, <2>2, <2>4 DEF ReceivePacket, Refuse, clientVars
  <2> QED
    BY <2>3, <2>4
<1>3. CASE UNCHANGED vars
  BY <1>3 DEF vars, clientVars, serverVars
<1> QED
  BY <1>1, <1>2, <1>3 DEF Next

\* The client writes the segments in order, each once, stops only with the
\* whole file, and the server reports success only after that.
THEOREM Refinement == Spec => ImplementsReliableTransfer
<1>1. Init => RT!Init
  BY InitRefines
<1>2. Inv /\ Inv' /\ [Next]_vars => [RT!Next]_<<delivered, cDone, sPc = "done">>
  BY NextRefines
<1> QED
  BY <1>1, <1>2, Invariance, PTL DEF Spec, ImplementsReliableTransfer, RT!Spec
=============================================================================
