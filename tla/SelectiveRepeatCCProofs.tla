---------------------- MODULE SelectiveRepeatCCProofs ----------------------
(***************************************************************************)
(* Selective repeat with congestion control is safe for every file, every  *)
(* pair of windows, every control.cc and every fault profile.              *)
(*                                                                         *)
(* Nothing of SelectiveRepeatProofs is proved again.  Its lemmas hold for  *)
(* every send window, so also for one as large as the transfer; and each   *)
(* step of this server is a step of that one, with three exceptions: it    *)
(* waits when its own window is full, it returns when sendOrder is empty,  *)
(* and it refuses an acknowledgement outside its own window, which to the  *)
(* packets is a damaged one.                                               *)
(***************************************************************************)
EXTENDS SelectiveRepeatCC, PacketLemmas, FiniteSetTheorems

\* Selective repeat, with its lemmas, with a window that is never full.
P == INSTANCE SelectiveRepeatProofs WITH sendWindow <- FinSeqno + 1

\* What SelectiveRepeatProofs assumes of the constants is true here.
LEMMA Conditions ==
  /\ File \in Seq(Data) /\ Empty \notin Data
  /\ FaultProfiles \subseteq SUBSET P!FaultKinds
  /\ FinSeqno + 1 \in Nat /\ recvWindow \in Nat
BY FileAssumption, EmptyAssumption, FaultAssumption, RecvWindowAssumption
   DEF P!FaultKinds, FaultKinds, FinSeqno

\* Its definitions, read in two instances, and here, are the same.
LEMMA SameInvariant == (SR!Inv <=> P!Inv) /\ (SR!Inv' <=> P!Inv')
<1> USE DEF SR!Outstanding, P!Outstanding, SR!FinSeqno, P!FinSeqno, SR!Segment,
            P!Segment, SR!DataPacket, P!DataPacket, SR!Holds, P!Holds, SR!Packet,
            P!Packet, SR!NoNumber, P!NoNumber, SR!LoopEnds, P!LoopEnds
<1>1. (SR!TypeOK <=> P!TypeOK) /\ (SR!TypeOK' <=> P!TypeOK')
  BY DEF SR!TypeOK, P!TypeOK
<1>2. (SR!FeederInStep <=> P!FeederInStep) /\ (SR!FeederInStep' <=> P!FeederInStep')
  BY DEF SR!FeederInStep, P!FeederInStep
<1>3. (SR!IndexesAgree <=> P!IndexesAgree) /\ (SR!IndexesAgree' <=> P!IndexesAgree')
  BY DEF SR!IndexesAgree, P!IndexesAgree
<1>4. (SR!SendTimesCover <=> P!SendTimesCover)
      /\ (SR!SendTimesCover' <=> P!SendTimesCover')
  BY DEF SR!SendTimesCover, P!SendTimesCover
<1>5. (SR!ClientInStep <=> P!ClientInStep) /\ (SR!ClientInStep' <=> P!ClientInStep')
  BY DEF SR!ClientInStep, P!ClientInStep
<1>6. (SR!NetworkIsHonest <=> P!NetworkIsHonest)
      /\ (SR!NetworkIsHonest' <=> P!NetworkIsHonest')
  BY DEF SR!NetworkIsHonest, P!NetworkIsHonest
<1>7. (SR!CrossedOffIsHeld <=> P!CrossedOffIsHeld)
      /\ (SR!CrossedOffIsHeld' <=> P!CrossedOffIsHeld')
  BY DEF SR!CrossedOffIsHeld, P!CrossedOffIsHeld
<1> QED
  BY <1>1, <1>2, <1>3, <1>4, <1>5, <1>6, <1>7 DEF SR!Inv, P!Inv

LEMMA SameServer ==
  /\ SendPacket <=> P!SendPacket
  /\ GiveUp <=> P!GiveUp
  /\ ReceiveError <=> P!ReceiveError
  /\ \A a : CrossOff(a) <=> P!CrossOff(a)
  /\ \A k, sent : UpdateTimers(k, sent) <=> P!UpdateTimers(k, sent)
  /\ HasNext <=> P!HasNext
  /\ TouchedKeys = P!TouchedKeys /\ AfterRefusal = P!AfterRefusal
  /\ Draining <=> P!Draining
<1> USE DEF GetNextDataSegment, P!GetNextDataSegment, NextSegment, P!NextSegment,
            DataPacket, P!DataPacket, Transmit, P!Transmit, SocketError,
            P!SocketError, netVars, P!netVars, TouchedKeys, P!TouchedKeys, Front,
            P!Front, AfterRefusal, P!AfterRefusal, Draining, P!Draining
<1>1. (SendPacket <=> P!SendPacket) /\ (GiveUp <=> P!GiveUp)
  BY DEF SendPacket, P!SendPacket, GiveUp, P!GiveUp
<1>2. ReceiveError <=> P!ReceiveError
  BY DEF ReceiveError, P!ReceiveError
<1>3. \A a : CrossOff(a) <=> P!CrossOff(a)
  BY DEF CrossOff, P!CrossOff
<1>4. \A k, sent : UpdateTimers(k, sent) <=> P!UpdateTimers(k, sent)
  BY DEF UpdateTimers, P!UpdateTimers, Rotate, P!Rotate
<1>5. HasNext <=> P!HasNext
  BY DEF HasNext, P!HasNext
<1>6. /\ TouchedKeys = P!TouchedKeys /\ AfterRefusal = P!AfterRefusal
      /\ Draining <=> P!Draining
  OBVIOUS
<1> QED
  BY <1>1, <1>2, <1>3, <1>4, <1>5, <1>6

LEMMA SameVariables ==
  /\ UNCHANGED clientVars <=> UNCHANGED P!clientVars
  /\ UNCHANGED serverVars <=> UNCHANGED P!serverVars
  /\ UNCHANGED netVars <=> UNCHANGED P!netVars
BY DEF clientVars, P!clientVars, serverVars, P!serverVars, netVars, P!netVars

\* Every packet the client accepts finds room: those it keeps are all above
\* base_ack_no and within the window.
LEMMA AlwaysRoom ==
  ASSUME SR!Inv, NEW n \in Nat, InRecvWindow(n)
  PROVE  HasRoom
<1>1. base_ack_no \in Nat /\ SR!ClientInStep /\ recvWindow \in Nat
      /\ DOMAIN data_received \subseteq Nat
  BY RecvWindowAssumption DEF SR!Inv, SR!TypeOK
<1>2. recvWindow >= 1
  BY <1>1 DEF InRecvWindow
<1> DEFINE above == base_ack_no + 1 .. base_ack_no + recvWindow - 1
<1>3. DOMAIN data_received \subseteq above
  BY <1>1 DEF SR!ClientInStep
<1>4. IsFiniteSet(above) /\ Cardinality(above) = recvWindow - 1
  BY <1>1, <1>2, FS_Interval
<1>5. Cardinality(DOMAIN data_received) <= recvWindow - 1
      /\ Cardinality(DOMAIN data_received) \in Nat
  BY <1>3, <1>4, FS_Subset, FS_CardinalityType
<1> QED
  BY <1>1, <1>5 DEF HasRoom

\* So the client is that of selective repeat.
LEMMA SameClient ==
  ASSUME SR!Inv, NEW packet \in pkts, NEW intact, CCReceivePacket(packet, intact)
  PROVE  P!ReceivePacket(packet, intact)
<1>1. packet.seqno \in Nat
  BY DEF SR!Inv, SR!TypeOK, SR!Packet
<1>2. InRecvWindow(packet.seqno) =>
        (CCAcceptData(packet) <=> P!AcceptData(packet))
  <2>1. InRecvWindow(packet.seqno) => (CCAcceptData(packet) <=> AcceptData(packet))
    BY <1>1, AlwaysRoom DEF CCAcceptData, AcceptData
  <2>2. AcceptData(packet) <=> P!AcceptData(packet)
    BY DEF AcceptData, P!AcceptData, SendAck, P!SendAck, HandleWindow, P!HandleWindow,
           Buffered, P!Buffered, FeedNextData, P!FeedNextData, FinSeqno, P!FinSeqno
  <2> QED
    BY <2>1, <2>2
<1>3. /\ InReAckRange(packet.seqno) <=> P!InReAckRange(packet.seqno)
      /\ InRecvWindow(packet.seqno) <=> P!InRecvWindow(packet.seqno)
      /\ IsEmpty(packet) <=> P!IsEmpty(packet)
  BY DEF InReAckRange, P!InReAckRange, MinPack, P!MinPack, InRecvWindow,
         P!InRecvWindow, IsEmpty, P!IsEmpty
<1>4. /\ Ignore <=> P!Ignore
      /\ ReAck(packet) <=> P!ReAck(packet)
      /\ AcceptFin(packet) <=> P!AcceptFin(packet)
      /\ LoopEnds' = P!LoopEnds'
      /\ AfterReading(pkts, packet) = P!AfterReading(pkts, packet)
  BY DEF Ignore, P!Ignore, ReAck, P!ReAck, AcceptFin, P!AcceptFin, SendAck, P!SendAck,
         LoopEnds, P!LoopEnds, AfterReading, P!AfterReading
<1> QED
  BY <1>2, <1>3, <1>4 DEF CCReceivePacket, P!ReceivePacket

-----------------------------------------------------------------------------
(* The congestion window. *)

\* A window that advances: what WindowAdvances says of cc.
Advancing(c) ==
  /\ c \in [window : Nat, ssthres : Nat, miniWin : Nat, recorded : Nat]
  /\ c.window >= 1
  /\ c.miniWin < c.window
  /\ c.window < c.ssthres => c.miniWin = 0
  /\ c.recorded <= c.window /\ c.window < 2 * c.recorded

\* It stays one in slow start and in congestion avoidance.
LEMMA GrowKeeps ==
  ASSUME NEW c, Advancing(c)
  PROVE  Advancing(Grow(c))
<1>1. /\ c \in [window : Nat, ssthres : Nat, miniWin : Nat, recorded : Nat]
      /\ c.window \in Nat /\ c.ssthres \in Nat /\ c.miniWin \in Nat /\ c.recorded \in Nat
      /\ c.window >= 1 /\ c.miniWin < c.window
      /\ c.window < c.ssthres => c.miniWin = 0
      /\ c.recorded <= c.window /\ c.window < 2 * c.recorded
  BY DEF Advancing
<1>2. CASE c.window >= c.ssthres
  <2>1. Grow(c) = Avoidance(c)
    BY <1>2 DEF Grow
  <2>2. CASE c.miniWin + 1 = c.window
    <3>1. Grow(c) = [window |-> c.window + 1, ssthres |-> c.ssthres, miniWin |-> 0,
                     recorded |-> c.window + 1]
      BY <1>1, <2>1, <2>2 DEF Avoidance
    <3> QED
      BY <1>1, <3>1 DEF Advancing
  <2>3. CASE c.miniWin + 1 # c.window
    <3>1. Grow(c) = [window |-> c.window, ssthres |-> c.ssthres,
                     miniWin |-> c.miniWin + 1, recorded |-> c.recorded]
      BY <1>1, <2>1, <2>3 DEF Avoidance
    <3> QED
      BY <1>1, <1>2, <2>3, <3>1 DEF Advancing
  <2> QED
    BY <2>2, <2>3
<1>3. CASE c.window < c.ssthres
  <2> DEFINE r == IF c.window + 1 = 2 * c.recorded THEN c.window + 1 ELSE c.recorded
  <2>1. Grow(c) = [window |-> c.window + 1, ssthres |-> c.ssthres,
                   miniWin |-> c.miniWin, recorded |-> r]
    <3>1. ~(c.window >= c.ssthres)
      BY <1>1, <1>3
    <3>2. Grow(c) = SlowStart(c)
      BY <3>1 DEF Grow
    <3> QED
      BY <1>1, <3>2 DEF SlowStart
  <2>2. r \in Nat /\ r <= c.window + 1 /\ c.window + 1 < 2 * r
    BY <1>1
  <2> HIDE DEF r
  <2> QED
    BY <1>1, <1>3, <2>1, <2>2 DEF Advancing
<1> QED
  BY <1>1, <1>2, <1>3

\* And when it shrinks.
LEMMA DecreaseKeeps ==
  ASSUME NEW c, Advancing(c), NEW timeout \in BOOLEAN
  PROVE  Advancing(Decrease(c, timeout))
<1> DEFINE half == IF c.window \div 2 = 0 THEN 1 ELSE c.window \div 2
           w == IF timeout THEN 1 ELSE half
<1>0. c.window \in Nat /\ c.window >= 1 /\ c.window \div 2 \in Nat
  BY DEF Advancing
<1>1. half \in Nat /\ half >= 1 /\ w \in Nat /\ w >= 1 /\ w <= half
  BY <1>0
<1>2. Decrease(c, timeout) =
        [window |-> w, ssthres |-> half, miniWin |-> 0, recorded |-> w]
  BY DEF Decrease
<1> HIDE DEF half, w
<1> QED
  BY <1>1, <1>2 DEF Advancing

LEMMA TimeoutsKeep ==
  ASSUME NEW c, Advancing(c), NEW k \in Nat
  PROVE  Advancing(AfterTimeouts(c, k))
<1>1. Advancing(Decrease(c, TRUE))
  BY DecreaseKeeps
<1>2. Advancing(Decrease(Decrease(c, TRUE), TRUE))
  BY <1>1, DecreaseKeeps
<1> QED
  BY <1>1, <1>2 DEF AfterTimeouts

\* The part of the invariant that is about congestion control.
Congestion ==
  /\ Advancing(cc)
  /\ successAcks \in Nat /\ dupAckIndex \in 0 .. Len(dupAcks)

LEMMA InvParts == Inv <=> P!Inv /\ Congestion
<1>1. SR!Inv => SR!TypeOK
  BY DEF SR!Inv
<1> QED
  BY <1>1, SameInvariant DEF Inv, TypeOK, WindowAdvances, Congestion, Advancing

LEMMA InvPartsNext == Inv' <=> P!Inv' /\ Congestion'
<1>1. SR!Inv' => SR!TypeOK'
  BY DEF SR!Inv
<1> QED
  BY <1>1, SameInvariant DEF Inv, TypeOK, WindowAdvances, Congestion, Advancing

LEMMA CongestionAside ==
  Congestion /\ UNCHANGED ccVars => Congestion'
BY DEF Congestion, Advancing, ccVars

-----------------------------------------------------------------------------
(* The steps of the server. *)

\* What they need to know of the packets.
LEMMA ServerKnows ==
  ASSUME P!Inv
  PROVE  /\ seq_no \in Nat /\ base_seq_no \in Nat /\ sendOrder \in Seq(Nat)
         /\ base_seq_no <= seq_no /\ seq_no <= FinSeqno + 1 /\ FinSeqno \in Nat
         /\ sPc # "failed" /\ HasNext => seq_no <= FinSeqno
         /\ sPc = "loop" /\ ~HasNext => seq_no = FinSeqno + 1
         /\ \A a \in ackNet : a \in Nat /\ a < seq_no
<1> USE Conditions, SameInvariant DEF P!FinSeqno, FinSeqno
<1>1. /\ P!TypeOK /\ P!IndexesAgree /\ P!FeederInStep /\ P!NetworkIsHonest
  BY DEF P!Inv
<1>2. seq_no \in Nat /\ base_seq_no \in Nat /\ sendOrder \in Seq(Nat)
      /\ ackNet \subseteq Nat
  BY <1>1 DEF P!TypeOK
<1>3. base_seq_no <= seq_no /\ seq_no <= FinSeqno + 1 /\ FinSeqno \in Nat
  BY <1>1, Segments DEF P!IndexesAgree
<1>4. /\ sPc # "failed" /\ HasNext => seq_no <= FinSeqno
      /\ sPc = "loop" /\ ~HasNext => seq_no = FinSeqno + 1
  BY <1>1, <1>2, <1>3 DEF P!FeederInStep, HasNext
<1>5. \A a \in ackNet : a \in Nat /\ a < seq_no
  BY <1>1, <1>2 DEF P!NetworkIsHonest
<1> QED
  BY <1>2, <1>3, <1>4, <1>5

LEMMA SendNextPreserves ==
  ASSUME Inv, CCSendNext, UNCHANGED clientVars
  PROVE  Inv'
<1>1. P!Inv /\ Congestion
  BY InvParts
<1>2. P!SendNext
  <2>1. P!WindowOpen
    BY <1>1, ServerKnows DEF CCSendNext, P!WindowOpen
  <2> QED
    BY <2>1, SameServer DEF CCSendNext, P!SendNext
<1>3. P!Inv'
  BY <1>1, <1>2, Conditions, SameVariables, P!SendNextPreserves
<1>4. Congestion'
  BY <1>1, CongestionAside DEF CCSendNext
<1> QED
  BY <1>3, <1>4, InvPartsNext

LEMMA SendFailsPreserves ==
  ASSUME Inv, CCSendFails, UNCHANGED clientVars
  PROVE  Inv'
<1>1. P!Inv /\ Congestion
  BY InvParts
<1>2. P!SendFails
  <2>1. P!WindowOpen
    BY <1>1, ServerKnows DEF CCSendFails, P!WindowOpen
  <2> QED
    BY <2>1, SameServer DEF CCSendFails, P!SendFails
<1>3. P!Inv'
  BY <1>1, <1>2, Conditions, SameVariables, P!SendFailsPreserves
<1>4. Congestion'
  BY <1>1, CongestionAside DEF CCSendFails
<1> QED
  BY <1>3, <1>4, InvPartsNext

\* It waits when its own window is full, so something was sent: that window is
\* never 0.
LEMMA AwaitAcksPreserves ==
  ASSUME Inv, CCAwaitAcks, UNCHANGED clientVars
  PROVE  Inv'
<1>1. P!Inv /\ Congestion
  BY InvParts
<1>2. /\ sPc = "loop" /\ sPc' = "drain"
      /\ UNCHANGED <<netVars, seq_no, base_seq_no, sendOrder, seqnums_sent,
                     data_sent, acks, remain_size, lastPacket, ccVars>>
  BY DEF CCAwaitAcks
<1>3. seq_no > 0
  <2>1. CASE HasNext
    <3>1. ~CCWindowOpen /\ cc.window \in Nat /\ cc.window >= 1
      BY <1>1, <2>1 DEF CCAwaitAcks, Congestion, Advancing
    <3> QED
      BY <1>1, <3>1, ServerKnows DEF CCWindowOpen
  <2>2. CASE ~HasNext
    BY <1>1, <1>2, <2>2, ServerKnows
  <2> QED
    BY <2>1, <2>2
<1>4. P!Inv'
  BY <1>1, <1>2, <1>3, Conditions, SameVariables, P!WaitingPreserves
<1>5. Congestion'
  BY <1>1, <1>2, CongestionAside
<1> QED
  BY <1>4, <1>5, InvPartsNext

LEMMA FinishPreserves ==
  ASSUME Inv, CCFinish, UNCHANGED clientVars
  PROVE  Inv'
<1>1. P!Inv /\ Congestion
  BY InvParts
<1>2. /\ sPc = "loop" /\ sPc' = "done" /\ ~P!HasNext /\ sendOrder = <<>>
      /\ UNCHANGED <<netVars, seq_no, base_seq_no, sendOrder, seqnums_sent,
                     data_sent, acks, remain_size, lastPacket, ccVars>>
  BY SameServer DEF CCFinish
<1>3. P!Inv'
  BY <1>1, <1>2, Conditions, SameVariables, P!ReturningPreserves
<1>4. Congestion'
  BY <1>1, <1>2, CongestionAside
<1> QED
  BY <1>3, <1>4, InvPartsNext

LEMMA CountAckKeeps ==
  Congestion /\ CountAck => Congestion'
<1> SUFFICES ASSUME Congestion, CountAck PROVE Congestion'
  OBVIOUS
<1>1. /\ Advancing(cc) /\ successAcks \in Nat /\ dupAckIndex \in 0 .. Len(dupAcks)
      /\ Len(dupAcks) \in Nat
  BY DupAcksAssumption DEF Congestion
<1>2. Advancing(Grow(cc)) /\ Advancing(Decrease(Grow(cc), FALSE))
  BY <1>1, GrowKeeps, DecreaseKeeps
<1>3. Advancing(cc')
  BY <1>2 DEF CountAck
<1>4. successAcks' \in Nat /\ dupAckIndex' \in 0 .. Len(dupAcks)
  <2>1. CASE dupAckIndex < Len(dupAcks) /\ successAcks + 1 = dupAcks[dupAckIndex + 1]
    <3>1. successAcks' = 0 /\ dupAckIndex' = dupAckIndex + 1
      BY <2>1 DEF CountAck
    <3> QED
      BY <1>1, <2>1, <3>1
  <2>2. CASE ~(dupAckIndex < Len(dupAcks) /\ successAcks + 1 = dupAcks[dupAckIndex + 1])
    <3>1. successAcks' = successAcks + 1 /\ dupAckIndex' = dupAckIndex
      BY <2>2 DEF CountAck
    <3> QED
      BY <1>1, <3>1
  <2> QED
    BY <2>1, <2>2
<1>5. Advancing(cc)' = Advancing(cc')
  BY DEF Advancing
<1> QED
  BY <1>3, <1>4, <1>5 DEF Congestion

\* An acknowledgement it takes, the other server takes too; one it refuses is
\* a damaged one to the other.
LEMMA ReceiveAckPreserves ==
  ASSUME Inv, NEW a \in ackNet, NEW intact, CCReceiveAck(a, intact),
         UNCHANGED clientVars
  PROVE  Inv'
<1>1. P!Inv /\ Congestion
  BY InvParts
<1>2. P!InSendWindow(a)  \/ ~InCCWindow(a)
  BY <1>1, ServerKnows DEF InCCWindow, P!InSendWindow
<1>3. AfterReading(ackNet, a) = P!AfterReading(ackNet, a)
  BY DEF AfterReading, P!AfterReading
<1>4. CASE intact /\ InCCWindow(a)
  <2>1. P!ReceiveAck(a, intact)
    BY <1>2, <1>3, <1>4, SameServer DEF CCReceiveAck, P!ReceiveAck
  <2>2. P!Inv'
    BY <1>1, <2>1, Conditions, SameVariables, P!ReceiveAckPreserves
  <2>3. CountAck \/ UNCHANGED ccVars
    BY DEF CCReceiveAck
  <2> QED
    BY <1>1, <2>2, <2>3, CongestionAside, CountAckKeeps, InvPartsNext
<1>5. CASE ~(intact /\ InCCWindow(a))
  <2>1. P!ReceiveAck(a, FALSE)
    BY <1>3, <1>5, SameServer DEF CCReceiveAck, P!ReceiveAck
  <2>2. P!Inv'
    BY <1>1, <2>1, Conditions, SameVariables, P!ReceiveAckPreserves
  <2>3. UNCHANGED ccVars
    BY <1>5 DEF CCReceiveAck
  <2> QED
    BY <1>1, <2>2, <2>3, CongestionAside, InvPartsNext
<1> QED
  BY <1>4, <1>5

LEMMA ReceiveErrorPreserves ==
  ASSUME Inv, ReceiveError, UNCHANGED ccVars, UNCHANGED clientVars
  PROVE  Inv'
<1>1. P!Inv /\ Congestion
  BY InvParts
<1>2. P!Inv'
  BY <1>1, SameServer, Conditions, SameVariables, P!ReceiveErrorPreserves
<1> QED
  BY <1>1, <1>2, CongestionAside, InvPartsNext

LEMMA UpdateTimersPreserves ==
  ASSUME Inv, NEW k \in 0 .. Len(sendOrder), NEW sent \in SUBSET (1 .. k),
         CCUpdateTimers(k, sent), UNCHANGED clientVars
  PROVE  Inv'
<1>1. P!Inv /\ Congestion
  BY InvParts
<1>2. P!Inv'
  BY <1>1, SameServer, Conditions, SameVariables, P!UpdateTimersPreserves
     DEF CCUpdateTimers
<1>3. k \in Nat
  BY <1>1, ServerKnows
<1>4. Advancing(cc')
  BY <1>1, <1>3, TimeoutsKeep DEF CCUpdateTimers, Congestion
<1>5. Advancing(cc)' = Advancing(cc')
  BY DEF Advancing
<1>6. Congestion'
  BY <1>1, <1>4, <1>5 DEF Congestion, CCUpdateTimers
<1> QED
  BY <1>2, <1>6, InvPartsNext

-----------------------------------------------------------------------------
(* The theorems. *)

LEMMA InitEstablishes == Init => Inv
<1> SUFFICES ASSUME Init PROVE Inv
  OBVIOUS
<1>1. P!Init
  BY DEF Init, CCServerInit, ServerInit, ClientInit, NetInit, FeederInit, SinkInit,
         DataPacket, NoNumber, P!Init, P!ServerInit, P!ClientInit, P!NetInit,
         P!FeederInit, P!SinkInit, P!DataPacket, P!NoNumber
<1>2. P!Inv
  BY <1>1, Conditions, P!InitEstablishes
<1>3. Congestion
  BY SendWindowAssumption, DupAcksAssumption
     DEF Init, CCServerInit, Congestion, Advancing
<1> QED
  BY <1>2, <1>3, InvParts

\* Inv is inductive.
LEMMA NextPreserves == Inv /\ [Next]_vars => Inv'
<1> SUFFICES ASSUME Inv, [Next]_vars PROVE Inv'
  OBVIOUS
<1>1. CASE ServerStep
  <2>1. CASE CCSendNext
    BY <1>1, <2>1, SendNextPreserves DEF ServerStep
  <2>2. CASE CCSendFails
    BY <1>1, <2>2, SendFailsPreserves DEF ServerStep
  <2>3. CASE CCAwaitAcks
    BY <1>1, <2>3, AwaitAcksPreserves DEF ServerStep
  <2>4. CASE CCFinish
    BY <1>1, <2>4, FinishPreserves DEF ServerStep
  <2>5. CASE \E a \in ackNet, intact \in Intact : CCReceiveAck(a, intact)
    BY <1>1, <2>5, ReceiveAckPreserves DEF ServerStep
  <2>6. CASE ReceiveError /\ UNCHANGED ccVars
    BY <1>1, <2>6, ReceiveErrorPreserves DEF ServerStep
  <2>7. CASE CCLeaveDrain
    BY <1>1, <2>7, UpdateTimersPreserves DEF ServerStep, CCLeaveDrain
  <2> QED
    BY <1>1, <2>1, <2>2, <2>3, <2>4, <2>5, <2>6, <2>7 DEF ServerStep, CCServerNext
<1>2. CASE ClientStep
  <2>1. PICK packet \in pkts, intact \in Intact : CCReceivePacket(packet, intact)
    BY <1>2 DEF ClientStep, CCClientNext
  <2>2. P!Inv /\ SR!Inv /\ Congestion
    BY InvParts, SameInvariant
  <2>3. P!Inv'
    BY <1>2, <2>1, <2>2, SameClient, SameVariables, Conditions,
       P!ReceivePacketPreserves DEF ClientStep
  <2> QED
    BY <1>2, <2>2, <2>3, CongestionAside, InvPartsNext DEF ClientStep
<1>3. CASE UNCHANGED vars
  <2>1. P!Inv /\ Congestion
    BY InvParts
  <2>2. UNCHANGED P!vars /\ UNCHANGED ccVars
    BY <1>3, SameVariables DEF vars, P!vars
  <2>3. P!Inv'
    BY <2>1, <2>2, Conditions, P!NextPreserves
  <2> QED
    BY <2>1, <2>2, <2>3, CongestionAside, InvPartsNext
<1> QED
  BY <1>1, <1>2, <1>3 DEF Next

\* Every reachable state satisfies the invariant.
THEOREM Invariance == Spec => []Inv
<1>1. Init => Inv
  BY InitEstablishes
<1>2. Inv /\ [Next]_vars => Inv'
  BY NextPreserves
<1> QED
  BY <1>1, <1>2, PTL DEF Spec

\* The variables keep their types.
THEOREM TypeCorrect == Spec => []TypeOK
<1>1. Inv => TypeOK
  BY DEF Inv
<1> QED
  BY <1>1, Invariance, PTL

\* The congestion window is never 0, never stuck in congestion avoidance, and
\* its record never misses a doubling (the four assignments to it in
\* receive_ack, updateTimers and window_decrease agree).
THEOREM WindowKeepsAdvancing == Spec => []WindowAdvances
<1>1. Inv => WindowAdvances
  BY DEF Inv
<1> QED
  BY <1>1, Invariance, PTL

\* A packet the server sent and forgot is one the client wrote or keeps: the
\* client has room for all it acknowledges, and a window that shrinks under
\* acknowledgements in flight loses none that it needs.
THEOREM NothingForgottenEarly == Spec => []CrossedOffIsHeld
<1>1. Inv => CrossedOffIsHeld
  BY DEF Inv, SR!Inv, CrossedOffIsHeld
<1> QED
  BY <1>1, Invariance, PTL

\* updateTimers and receive_ack never dereference an iterator to nothing,
\* however the window has moved.
THEOREM LookupsAreSafe == Spec => []LookupsSucceed
<1>1. Inv => LookupsSucceed
  <2> SUFFICES ASSUME Inv PROVE LookupsSucceed
    OBVIOUS
  <2>1. /\ SR!IndexesAgree /\ SR!SendTimesCover /\ base_seq_no \in Nat
        /\ seqnums_sent \subseteq Nat /\ FinSeqno + 1 # 0
    BY Segments DEF Inv, SR!Inv, SR!TypeOK
  <2>2. \A n \in Outstanding : n \in seqnums_sent /\ n \in DOMAIN data_sent
    BY <2>1 DEF SR!IndexesAgree, SR!SendTimesCover, SR!Outstanding, Outstanding
  <2>3. \A n \in seqnums_sent : InCCWindow(n) => n \in Outstanding
    BY <2>1 DEF SR!SendTimesCover, SR!Outstanding, Outstanding, InCCWindow
  <2> QED
    BY <2>2, <2>3 DEF LookupsSucceed
<1> QED
  BY <1>1, Invariance, PTL

\* In every state in which what is in flight fits the receive window, however
\* the server's window came to that, the client answers every packet the server
\* may still resend: the number it waits for is neither behind the server's base,
\* of which it would then lack a packet the server has forgotten, nor past the
\* last one sent.  This is what ClientFinishesIfWithin lives on; a receive window
\* of the server's configured maximum is not enough (see ClientFinishes).
THEOREM EveryResendAnswered == Spec => []ResendIsAnswered
<1>1. Inv => ResendIsAnswered
  <2> SUFFICES ASSUME Inv, WithinRecvWindow PROVE SR!ResendIsAnswered
    BY DEF ResendIsAnswered
  <2>1. P!Inv
    BY InvParts
  <2>2. seq_no <= base_seq_no + recvWindow
    BY DEF WithinRecvWindow
  <2>3. P!ResendIsAnswered
    BY <2>1, <2>2, Conditions, P!InvAnswers
  <2>4. P!ResendIsAnswered <=> SR!ResendIsAnswered
    BY DEF P!ResendIsAnswered, SR!ResendIsAnswered, P!Outstanding, SR!Outstanding,
           P!InReAckRange, SR!InReAckRange, P!MinPack, SR!MinPack, P!InRecvWindow,
           SR!InRecvWindow
  <2> QED
    BY <2>3, <2>4
<1> QED
  BY <1>1, Invariance, PTL

-----------------------------------------------------------------------------
(* Congestion control implements ReliableTransfer. *)

\* Success is reported only after the client stopped.
DoneAfterClient == sPc = "done" => cDone

LEMMA DoneIsLast == Inv => DoneAfterClient
<1>1. Inv => P!Inv
  BY InvParts
<1>2. P!Inv => P!DoneAfterClient
  BY Conditions, P!DoneIsLast
<1> QED
  BY <1>1, <1>2 DEF DoneAfterClient, P!DoneAfterClient

\* The first state maps to the first state.
LEMMA InitRefines == Init => RT!Init
BY DEF Init, CCServerInit, ServerInit, ClientInit, SinkInit, RT!Init

\* Every step maps to a step of ReliableTransfer or to a stutter.
LEMMA NextRefines ==
  ASSUME Inv, Inv', DoneAfterClient', [Next]_vars
  PROVE  [RT!Next]_<<delivered, cDone, sPc = "done">>
<1>1. CASE ServerStep
  <2>1. UNCHANGED <<delivered, cDone>> /\ sPc # "done"
    BY <1>1 DEF ServerStep, clientVars, CCServerNext, CCSendNext, SendPacket,
                CCSendFails, GiveUp, CCAwaitAcks, CCFinish, CCReceiveAck, ReceiveError,
                CCLeaveDrain, CCUpdateTimers, UpdateTimers, Draining
  <2>2. CASE sPc' = "done"
    <3>1. cDone
      BY <2>1, <2>2 DEF DoneAfterClient
    <3> QED
      BY <2>1, <2>2, <3>1 DEF RT!Next, RT!ServerFinishes
  <2>3. CASE sPc' # "done"
    BY <2>1, <2>3
  <2> QED
    BY <2>2, <2>3
<1>2. CASE ClientStep
  <2>1. PICK packet \in pkts, intact \in Intact : CCReceivePacket(packet, intact)
    BY <1>2 DEF ClientStep, CCClientNext
  <2>2. sPc' = sPc
    BY <1>2 DEF ClientStep, serverVars
  <2>3. P!Inv /\ P!Inv' /\ SR!Inv
    BY InvParts, InvPartsNext, SameInvariant
  <2>4. P!ReceivePacket(packet, intact)
    BY <2>1, <2>3, SameClient
  <2>5. P!RT!ClientWrites
    BY <2>2, <2>3, <2>4, Conditions, P!ClientRefines
  <2>6. RT!ClientWrites
    BY <2>5 DEF P!RT!ClientWrites, RT!ClientWrites
  <2> QED
    BY <2>6 DEF RT!Next
<1>3. CASE UNCHANGED vars
  BY <1>3 DEF vars, clientVars, serverVars
<1> QED
  BY <1>1, <1>2, <1>3 DEF Next

\* The client writes the segments in order, each once, stops only with the
\* whole file, and the server reports success only after that.
THEOREM Refinement == Spec => ImplementsReliableTransfer
<1>1. Init => RT!Init
  BY InitRefines
<1>2. Inv /\ Inv' /\ DoneAfterClient' /\ [Next]_vars
        => [RT!Next]_<<delivered, cDone, sPc = "done">>
  BY NextRefines
<1>3. Inv => DoneAfterClient
  BY DoneIsLast
<1> QED
  BY <1>1, <1>2, <1>3, Invariance, PTL DEF Spec, ImplementsReliableTransfer, RT!Spec
=============================================================================
