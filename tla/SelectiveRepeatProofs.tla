----------------------- MODULE SelectiveRepeatProofs -----------------------
(***************************************************************************)
(* Selective repeat is safe for every file, every window and every fault   *)
(* profile: Inv is inductive, and the properties follow from it.           *)
(***************************************************************************)
EXTENDS SelectiveRepeat, PacketLemmas, SequenceLemmas

\* The invariant holds before the first step.
LEMMA InitEstablishes == Init => Inv
<1> SUFFICES ASSUME Init PROVE Inv
  OBVIOUS
<1> USE Segments DEF Init, ServerInit, ClientInit, NetInit, FeederInit, SinkInit
<1>1. TypeOK
  <2>1. /\ DOMAIN data_sent \subseteq Nat
        /\ data_sent \in [DOMAIN data_sent -> Packet]
    OBVIOUS
  <2>2. /\ DOMAIN data_received \subseteq Nat
        /\ data_received \in [DOMAIN data_received -> Data]
    OBVIOUS
  <2>4. sendOrder \in Seq(Nat) /\ delivered \in Seq(Data)
    OBVIOUS
  <2>5. remain_size \in Nat /\ lastPacket \in BOOLEAN
    BY DEF FinSeqno
  <2>6. seqnums_sent \subseteq Nat /\ acks \subseteq Nat
    OBVIOUS
  <2>3. /\ faults \in FaultProfiles /\ pkts \subseteq Packet /\ ackNet \subseteq Nat
    OBVIOUS
  <2> QED
    BY <2>1, <2>2, <2>3, <2>4, <2>5, <2>6 DEF TypeOK, NoNumber
<1>2. FeederInStep
  BY DEF FeederInStep, FinSeqno
<1>3. IndexesAgree
  BY SendWindowAssumption DEF IndexesAgree, Outstanding
<1>4. SendTimesCover
  BY DEF SendTimesCover, Outstanding
<1>5. ClientInStep
  <2>1. SubSeq(File, 1, 0) = <<>>
    BY SubSeqEmpty
  <2>2. delivered = <<>> /\ base_ack_no = 0 /\ end = FALSE
    OBVIOUS
  <2>3. cDone = LoopEnds
    BY DEF LoopEnds
  <2>4. last_ack_no = NoNumber
    OBVIOUS
  <2>5. DOMAIN data_received = {}
    OBVIOUS
  <2>6. base_ack_no <= FinSeqno /\ base_ack_no <= seq_no
    OBVIOUS
  <2> QED
    BY <2>1, <2>2, <2>3, <2>4, <2>5, <2>6 DEF ClientInStep
<1>6. NetworkIsHonest /\ CrossedOffIsHeld
  BY DEF NetworkIsHonest, CrossedOffIsHeld
<1> QED
  BY <1>1, <1>2, <1>3, <1>4, <1>5, <1>6 DEF Inv

-----------------------------------------------------------------------------
(* The steps of the server. *)

\* A step that leaves the client alone leaves what it holds.
LEMMA ClientAside ==
  UNCHANGED clientVars =>
    /\ \A n : Holds(n)' = Holds(n)
    /\ ClientInStep /\ seq_no \in Nat /\ seq_no' \in Nat /\ seq_no' >= seq_no
       /\ base_ack_no \in Nat /\ DOMAIN data_received \subseteq Nat
         => ClientInStep'
<1> SUFFICES ASSUME UNCHANGED clientVars
             PROVE  /\ \A n : Holds(n)' = Holds(n)
                    /\ ClientInStep /\ seq_no \in Nat /\ seq_no' \in Nat
                       /\ seq_no' >= seq_no
                       /\ base_ack_no \in Nat /\ DOMAIN data_received \subseteq Nat
                         => ClientInStep'
  OBVIOUS
<1>1. /\ base_ack_no' = base_ack_no /\ data_received' = data_received
      /\ last_ack_no' = last_ack_no /\ end' = end /\ cDone' = cDone
      /\ delivered' = delivered
  BY DEF clientVars
<1>2. \A n : Holds(n)' = Holds(n)
  BY <1>1 DEF Holds
<1>3. ASSUME ClientInStep, seq_no \in Nat, seq_no' \in Nat, seq_no' >= seq_no,
             base_ack_no \in Nat, DOMAIN data_received \subseteq Nat
      PROVE  ClientInStep'
  BY <1>1, <1>3, Segments DEF ClientInStep, LoopEnds
<1> QED
  BY <1>2, <1>3

LEMMA SendNextPreserves ==
  Inv /\ SendNext /\ UNCHANGED clientVars => Inv'
<1> SUFFICES ASSUME Inv, SendNext, UNCHANGED clientVars PROVE Inv'
  OBVIOUS
<1> USE Segments, SendWindowAssumption
<1>1. /\ TypeOK /\ FeederInStep /\ IndexesAgree /\ SendTimesCover
      /\ ClientInStep /\ NetworkIsHonest /\ CrossedOffIsHeld
  BY DEF Inv
<1>2. /\ sPc = "loop" /\ sPc' = "drainNew"
      /\ seq_no \in Nat /\ seq_no' = seq_no + 1
      /\ base_seq_no \in Nat /\ base_seq_no' = base_seq_no
      /\ base_seq_no + sendWindow > seq_no
      /\ sendOrder \in Seq(Nat) /\ sendOrder' = Append(sendOrder, seq_no)
      /\ seqnums_sent' = seqnums_sent \cup {seq_no}
      /\ acks' = acks /\ ackNet' = ackNet /\ faults' = faults
  BY <1>1 DEF SendNext, SendPacket, TypeOK, WindowOpen
<1>3. /\ seq_no <= FinSeqno
      /\ NextSegment = Segment(seq_no)
      /\ FeederInStep'
      /\ remain_size' \in Nat /\ lastPacket' \in BOOLEAN
  <2>1. seq_no <= FinSeqno /\ remain_size = FinSeqno - seq_no /\ lastPacket = FALSE
    BY <1>1, <1>2 DEF SendNext, HasNext, FeederInStep
  <2>2. CASE seq_no < FinSeqno
    <3>1. remain_size > 0 /\ remain_size' = remain_size - 1 /\ lastPacket' = lastPacket
      BY <2>1, <2>2, <1>2 DEF SendNext, SendPacket, GetNextDataSegment
    <3>2. NextSegment = File[Len(File) - remain_size + 1]
      BY <3>1 DEF NextSegment
    <3>3. Len(File) - remain_size + 1 = seq_no + 1
      BY <2>1, <1>2 DEF FinSeqno
    <3>4. FeederInStep'
      <4>1. seq_no' <= FinSeqno /\ remain_size' = FinSeqno - seq_no'
            /\ FinSeqno' = FinSeqno
        BY <1>2, <2>1, <2>2, <3>1 DEF FinSeqno
      <4> QED
        BY <2>1, <3>1, <4>1 DEF FeederInStep
    <3>5. NextSegment = File[seq_no + 1]
      BY <3>2, <3>3
    <3>6. remain_size' \in Nat
      BY <1>2, <2>1, <2>2, <3>1
    <3>7. lastPacket' = FALSE
      BY <2>1, <3>1
    <3> QED
      BY <1>2, <2>1, <2>2, <3>4, <3>5, <3>6, <3>7
  <2>3. CASE seq_no = FinSeqno
    <3>1. ~(remain_size > 0) /\ remain_size' = remain_size /\ lastPacket' = TRUE
      BY <2>1, <2>3, <1>2 DEF SendNext, SendPacket, GetNextDataSegment
    <3> QED
      BY <1>2, <2>1, <2>3, <3>1 DEF FeederInStep, NextSegment
  <2> QED
    BY <1>2, <2>1, <2>2, <2>3
<1> DEFINE packet == DataPacket(seq_no, Segment(seq_no))
<1>4. /\ packet \in Packet
      /\ pkts' \in {pkts, pkts \cup {packet}}
      /\ data_sent' = [n \in DOMAIN data_sent \cup {seq_no} |->
                         IF n = seq_no THEN packet ELSE data_sent[n]]
  BY <1>2, <1>3 DEF SendNext, SendPacket, Transmit
<1> HIDE DEF packet
<1>5. Outstanding' = Outstanding \cup {seq_no}
  BY <1>2, AppendElement DEF Outstanding, Elements
<1>6. TypeOK'
  <2>1. /\ DOMAIN data_sent' \subseteq Nat
        /\ data_sent' \in [DOMAIN data_sent' -> Packet]
    BY <1>1, <1>2, <1>4 DEF TypeOK
  <2>2. /\ pkts' \subseteq Packet /\ ackNet' \subseteq Nat /\ faults' \in FaultProfiles
        /\ seq_no' \in Nat /\ base_seq_no' \in Nat /\ sendOrder' \in Seq(Nat)
        /\ seqnums_sent' \subseteq Nat /\ acks' \subseteq Nat
    BY <1>1, <1>2, <1>4 DEF TypeOK
  <2> QED
    BY <1>1, <1>2, <1>3, <2>1, <2>2 DEF TypeOK, clientVars
<1>7. IndexesAgree'
  <2>1. seq_no \notin Outstanding
    BY <1>1, <1>2 DEF IndexesAgree
  <2>2. \A i, j \in 1 .. Len(sendOrder') : sendOrder'[i] = sendOrder'[j] => i = j
    BY <1>1, <1>2, <2>1 DEF IndexesAgree, Outstanding
  <2>3. acks' = (base_seq_no' .. seq_no' - 1) \ Outstanding'
    BY <1>1, <1>2, <1>5, <2>1 DEF IndexesAgree
  <2>4. \A n \in Outstanding' : data_sent'[n] = DataPacket(n, Segment(n))
    BY <1>1, <1>4, <1>5, <2>1 DEF IndexesAgree, packet
  <2>5. DOMAIN data_sent' = Outstanding'
    BY <1>1, <1>4, <1>5 DEF IndexesAgree
  <2>6. /\ base_seq_no' <= seq_no' /\ seq_no' <= base_seq_no' + sendWindow
        /\ seq_no' <= FinSeqno + 1
    BY <1>1, <1>2, <1>3 DEF IndexesAgree
  <2>7. /\ Outstanding' \subseteq base_seq_no' .. seq_no' - 1
        /\ base_seq_no' < seq_no' => base_seq_no' \in Outstanding'
    BY <1>1, <1>2, <1>5 DEF IndexesAgree
  <2> QED
    BY <2>2, <2>3, <2>4, <2>5, <2>6, <2>7 DEF IndexesAgree
<1>8. SendTimesCover'
  BY <1>1, <1>2, <1>5 DEF SendTimesCover
<1>9. ClientInStep' /\ \A n : Holds(n)' = Holds(n)
  BY <1>1, <1>2, ClientAside DEF TypeOK
<1>10. NetworkIsHonest'
  <2>1. \A p \in pkts' : p.seqno < seq_no' /\ p = DataPacket(p.seqno, Segment(p.seqno))
    BY <1>1, <1>2, <1>4 DEF NetworkIsHonest, TypeOK, packet, Packet
  <2>2. \A a \in ackNet' : a < seq_no' /\ Holds(a)'
    BY <1>1, <1>2, <1>9 DEF NetworkIsHonest, TypeOK
  <2> QED
    BY <2>1, <2>2 DEF NetworkIsHonest
<1>11. CrossedOffIsHeld'
  BY <1>1, <1>2, <1>5, <1>9 DEF CrossedOffIsHeld
<1> QED
  BY <1>3, <1>6, <1>7, <1>8, <1>9, <1>10, <1>11 DEF Inv

\* A server step that keeps the window and what is stored for it, takes
\* acknowledgements from the network and sends only what it stored, keeps
\* every part of the invariant that is about them.
LEMMA WindowAside ==
  ASSUME Inv, UNCHANGED clientVars,
         UNCHANGED <<faults, seq_no, base_seq_no, data_sent, acks>>,
         sendOrder' \in Seq(Nat), NoRepeats(sendOrder'),
         Elements(sendOrder') = Elements(sendOrder),
         ackNet' \subseteq ackNet,
         \A p \in pkts' : p \in pkts \/ \E n \in Outstanding : p = data_sent[n]
  PROVE  /\ Outstanding' = Outstanding
         /\ IndexesAgree' /\ ClientInStep' /\ NetworkIsHonest' /\ CrossedOffIsHeld'
         /\ pkts' \subseteq Packet
<1> USE Segments, SendWindowAssumption
<1>1. /\ TypeOK /\ IndexesAgree /\ ClientInStep /\ NetworkIsHonest /\ CrossedOffIsHeld
      /\ seq_no \in Nat /\ base_seq_no \in Nat
  BY DEF Inv, TypeOK
<1>2. /\ seq_no' = seq_no /\ base_seq_no' = base_seq_no
      /\ data_sent' = data_sent /\ acks' = acks
  OBVIOUS
<1>3. Outstanding' = Outstanding
  BY DEF Outstanding, Elements
<1>4. IndexesAgree'
  <2>1. \A i, j \in 1 .. Len(sendOrder') : sendOrder'[i] = sendOrder'[j] => i = j
    BY DEF NoRepeats
  <2> QED
    BY <1>1, <1>2, <1>3, <2>1 DEF IndexesAgree
<1>5. ClientInStep' /\ \A n : Holds(n)' = Holds(n)
  BY <1>1, <1>2, ClientAside DEF TypeOK
<1>6. \A n \in Outstanding :
        /\ n \in Nat /\ n < seq_no
        /\ data_sent[n] = DataPacket(n, Segment(n))
  BY <1>1 DEF IndexesAgree
<1>7. NetworkIsHonest'
  <2>1. ASSUME NEW p \in pkts'
        PROVE  p.seqno < seq_no' /\ p = DataPacket(p.seqno, Segment(p.seqno))
    <3>1. CASE p \in pkts
      BY <1>1, <1>2, <3>1 DEF NetworkIsHonest
    <3>2. ASSUME NEW n \in Outstanding, p = data_sent[n]
          PROVE  p.seqno < seq_no' /\ p = DataPacket(p.seqno, Segment(p.seqno))
      <4>1. n \in Nat /\ n < seq_no /\ p = DataPacket(n, Segment(n))
        BY <1>6, <3>2
      <4>2. p.seqno = n
        BY <4>1
      <4> QED
        BY <1>2, <4>1, <4>2
    <3> QED
      BY <3>1, <3>2
  <2>2. \A a \in ackNet' : a < seq_no' /\ Holds(a)'
    BY <1>1, <1>2, <1>5 DEF NetworkIsHonest
  <2> QED
    BY <2>1, <2>2 DEF NetworkIsHonest
<1>8. CrossedOffIsHeld'
  BY <1>1, <1>2, <1>3, <1>5 DEF CrossedOffIsHeld
<1>9. pkts' \subseteq Packet
  <2>1. \A n \in Outstanding : data_sent[n] \in Packet
    BY <1>6
  <2>2. pkts \subseteq Packet
    BY <1>1 DEF TypeOK
  <2> QED
    BY <2>1, <2>2
<1> QED
  BY <1>3, <1>4, <1>5, <1>7, <1>8, <1>9

\* sendOrder as it is has no repetitions.
LEMMA SendOrderNoRepeats ==
  Inv => sendOrder \in Seq(Nat) /\ NoRepeats(sendOrder)
BY DEF Inv, TypeOK, IndexesAgree, NoRepeats

LEMMA SendFailsPreserves ==
  Inv /\ SendFails /\ UNCHANGED clientVars => Inv'
<1> SUFFICES ASSUME Inv, SendFails, UNCHANGED clientVars PROVE Inv'
  OBVIOUS
<1>1. /\ sPc = "loop" /\ sPc' = "failed" /\ GetNextDataSegment /\ HasNext
      /\ UNCHANGED <<netVars, seq_no, base_seq_no, sendOrder, seqnums_sent,
                     data_sent, acks>>
  BY DEF SendFails, GiveUp
<1>2. /\ Outstanding' = Outstanding
      /\ IndexesAgree' /\ ClientInStep' /\ NetworkIsHonest' /\ CrossedOffIsHeld'
  BY <1>1, WindowAside, SendOrderNoRepeats DEF netVars
<1>3. FeederInStep'
  BY <1>1 DEF FeederInStep
<1>4. SendTimesCover'
  BY <1>1, <1>2 DEF SendTimesCover, Inv
<1>5. TypeOK'
  <2>1. TypeOK
    BY DEF Inv
  <2>2. remain_size' \in Nat
    BY <1>1, <2>1 DEF GetNextDataSegment, TypeOK
  <2>3. lastPacket' \in BOOLEAN
    BY <1>1, <2>1 DEF GetNextDataSegment, TypeOK
  <2> QED
    BY <1>1, <2>1, <2>2, <2>3 DEF TypeOK, netVars, clientVars
<1> QED
  BY <1>2, <1>3, <1>4, <1>5 DEF Inv

\* Beginning to wait, once something was sent.
LEMMA WaitingPreserves ==
  ASSUME Inv, UNCHANGED clientVars, sPc = "loop", sPc' = "drain",
         UNCHANGED <<netVars, seq_no, base_seq_no, sendOrder, seqnums_sent,
                     data_sent, acks, remain_size, lastPacket>>,
         seq_no > 0 \/ sendWindow = 0
  PROVE  Inv'
<1>1. /\ Outstanding' = Outstanding
      /\ IndexesAgree' /\ ClientInStep' /\ NetworkIsHonest' /\ CrossedOffIsHeld'
  BY WindowAside, SendOrderNoRepeats DEF netVars
<1>2. TypeOK /\ FeederInStep /\ SendTimesCover /\ IndexesAgree
      /\ seq_no \in Nat /\ base_seq_no \in Nat
  BY DEF Inv, TypeOK
<1>3. FeederInStep'
  BY <1>2 DEF FeederInStep, FinSeqno
<1>4. SendTimesCover'
  BY <1>1, <1>2 DEF SendTimesCover
<1>5. TypeOK'
  BY <1>2 DEF TypeOK, netVars, clientVars
<1> QED
  BY <1>1, <1>3, <1>4, <1>5 DEF Inv

LEMMA AwaitAcksPreserves ==
  Inv /\ AwaitAcks /\ UNCHANGED clientVars => Inv'
<1> SUFFICES ASSUME Inv, AwaitAcks, UNCHANGED clientVars PROVE Inv'
  OBVIOUS
<1> USE SendWindowAssumption, Segments
<1>1. /\ sPc = "loop" /\ sPc' = "drain"
      /\ UNCHANGED <<netVars, seq_no, base_seq_no, sendOrder, seqnums_sent,
                     data_sent, acks, remain_size, lastPacket>>
  BY DEF AwaitAcks
<1>2. FeederInStep /\ SendTimesCover /\ seq_no \in Nat /\ base_seq_no \in Nat
  BY DEF Inv, TypeOK
<1>3. seq_no > 0 \/ sendWindow = 0
  <2>1. CASE HasNext
    BY <2>1, <1>2 DEF AwaitAcks, WindowOpen
  <2>2. CASE ~HasNext
    BY <2>2, <1>1, <1>2 DEF HasNext, FeederInStep
  <2> QED
    BY <2>1, <2>2
<1> QED
  BY <1>1, <1>3, WaitingPreserves

\* Returning, once everything was handed out and acknowledged.
LEMMA ReturningPreserves ==
  ASSUME Inv, UNCHANGED clientVars, sPc = "loop", sPc' = "done", ~HasNext,
         sendOrder = <<>>,
         UNCHANGED <<netVars, seq_no, base_seq_no, sendOrder, seqnums_sent,
                     data_sent, acks, remain_size, lastPacket>>
  PROVE  Inv'
<1> USE Segments
<1>1. /\ Outstanding' = Outstanding
      /\ IndexesAgree' /\ ClientInStep' /\ NetworkIsHonest' /\ CrossedOffIsHeld'
  BY WindowAside, SendOrderNoRepeats DEF netVars
<1>2. TypeOK /\ FeederInStep /\ SendTimesCover /\ seq_no \in Nat
  BY DEF Inv, TypeOK
<1>3. FeederInStep'
  BY <1>2 DEF FeederInStep, FinSeqno
<1>4. seq_no = FinSeqno + 1
  BY <1>2 DEF HasNext, FeederInStep
<1>5. SendTimesCover'
  BY <1>1, <1>2, <1>4 DEF SendTimesCover, FinSeqno
<1>6. TypeOK'
  BY <1>2 DEF TypeOK, netVars, clientVars
<1> QED
  BY <1>1, <1>3, <1>5, <1>6 DEF Inv

LEMMA FinishPreserves ==
  Inv /\ Finish /\ UNCHANGED clientVars => Inv'
<1> SUFFICES ASSUME Inv, Finish, UNCHANGED clientVars PROVE Inv'
  OBVIOUS
<1>1. /\ sPc = "loop" /\ sPc' = "done" /\ ~HasNext /\ seqnums_sent = {}
      /\ UNCHANGED <<netVars, seq_no, base_seq_no, sendOrder, seqnums_sent,
                     data_sent, acks, remain_size, lastPacket>>
  BY DEF Finish
<1>2. SendTimesCover /\ sendOrder \in Seq(Nat)
  BY DEF Inv, TypeOK
<1>3. sendOrder = <<>>
  <2>1. Outstanding = {}
    BY <1>1, <1>2 DEF SendTimesCover
  <2>2. Len(sendOrder) \in Nat /\ (Len(sendOrder) > 0 => sendOrder[1] \in Outstanding)
    BY <1>2 DEF Outstanding
  <2>3. Len(sendOrder) = 0
    BY <2>1, <2>2
  <2> QED
    BY <1>2, <2>3
<1> QED
  BY <1>1, <1>3, ReturningPreserves

\* What seqnums_sent[sendOrder.front()] leaves in seqnums_sent: nothing but
\* keys that were there or, from an empty list, a number below the window.
LEMMA TouchingIsHarmless ==
  ASSUME Inv, Draining \/ sPc = "timers"
  PROVE  /\ TouchedKeys \subseteq Nat
         /\ Outstanding \subseteq TouchedKeys
         /\ \A n \in TouchedKeys \ Outstanding : n < base_seq_no \/ sendWindow = 0
<1> USE SendWindowAssumption
<1>1. /\ TypeOK /\ IndexesAgree /\ SendTimesCover /\ sendOrder \in Seq(Nat)
      /\ seq_no \in Nat /\ base_seq_no \in Nat /\ seqnums_sent \subseteq Nat
  BY DEF Inv, TypeOK
<1>2. CASE sendOrder = <<>>
  <2>1. Front = 0
    BY <1>2 DEF Front
  <2>2. Outstanding = {}
    BY <1>2 DEF Outstanding
  <2>3. base_seq_no = seq_no
    BY <1>1, <2>2 DEF IndexesAgree
  <2>4. 0 < base_seq_no \/ sendWindow = 0
    BY <1>1, <2>3 DEF SendTimesCover, Draining
  <2> QED
    BY <1>1, <2>1, <2>2, <2>4 DEF TouchedKeys, SendTimesCover
<1>3. CASE sendOrder # <<>>
  <2>1. Front \in Outstanding /\ Front \in Nat
    <3>1. Front = sendOrder[1] /\ 1 \in 1 .. Len(sendOrder)
      BY <1>1, <1>3 DEF Front
    <3> QED
      BY <1>1, <3>1 DEF Outstanding
  <2> QED
    BY <1>1, <2>1 DEF TouchedKeys, SendTimesCover
<1> QED
  BY <1>2, <1>3

\* receive_ack without an acknowledgement it accepts: something was read or
\* not, and front() was looked up.
LEMMA TouchPreserves ==
  ASSUME Inv, Draining, UNCHANGED clientVars,
         UNCHANGED <<faults, pkts, seq_no, base_seq_no, acks, data_sent, sendOrder,
                     remain_size, lastPacket>>,
         ackNet' \subseteq ackNet,
         seqnums_sent' = TouchedKeys,
         sPc' \in {"drainNew", "drain", "timers"}
  PROVE  Inv'
<1> USE Segments
<1>1. /\ Outstanding' = Outstanding
      /\ IndexesAgree' /\ ClientInStep' /\ NetworkIsHonest' /\ CrossedOffIsHeld'
  BY WindowAside, SendOrderNoRepeats
<1>2. /\ seqnums_sent' \subseteq Nat
      /\ Outstanding \subseteq seqnums_sent'
      /\ \A n \in seqnums_sent' \ Outstanding : n < base_seq_no \/ sendWindow = 0
  BY TouchingIsHarmless
<1>3. TypeOK /\ FeederInStep /\ SendTimesCover /\ sPc \in {"drainNew", "drain"}
  BY DEF Inv, Draining
<1>4. FeederInStep'
  BY <1>3 DEF FeederInStep, FinSeqno
<1>5. SendTimesCover'
  BY <1>1, <1>2, <1>3 DEF SendTimesCover
<1>6. TypeOK'
  <2>1. ackNet' \subseteq Nat
    BY <1>3 DEF TypeOK
  <2> QED
    BY <1>2, <1>3, <2>1 DEF TypeOK, clientVars
<1> QED
  BY <1>1, <1>4, <1>5, <1>6 DEF Inv

\* What reading a datagram leaves in flight was in flight.
LEMMA ReadingOnlyTakes ==
  ASSUME NEW net, NEW m, NEW left \in AfterReading(net, m)
  PROVE  left \subseteq net
BY DEF AfterReading

LEMMA ReceiveErrorPreserves ==
  Inv /\ ReceiveError /\ UNCHANGED clientVars => Inv'
<1> SUFFICES ASSUME Inv, ReceiveError, UNCHANGED clientVars PROVE Inv'
  OBVIOUS
<1>1. sPc' \in {"drainNew", "drain", "timers"}
  BY DEF ReceiveError, AfterRefusal, Draining
<1> QED
  BY <1>1, TouchPreserves DEF ReceiveError, netVars

LEMMA CrossOffPreserves ==
  ASSUME Inv, UNCHANGED clientVars, Draining, NEW a \in ackNet,
         ackNet' \subseteq ackNet, CrossOff(a), sPc' = sPc,
         UNCHANGED <<faults, pkts, seq_no, remain_size, lastPacket>>
  PROVE  Inv'
<1> USE Segments, SendWindowAssumption
<1>1. /\ TypeOK /\ FeederInStep /\ IndexesAgree /\ SendTimesCover
      /\ ClientInStep /\ NetworkIsHonest /\ CrossedOffIsHeld
      /\ seq_no \in Nat /\ base_seq_no \in Nat /\ sendOrder \in Seq(Nat)
      /\ acks \subseteq Nat
  BY DEF Inv, TypeOK
<1>2. PICK base \in base_seq_no .. seq_no :
        /\ base_seq_no .. base - 1 \subseteq acks \cup {a}
        /\ base \notin acks \cup {a}
        /\ base_seq_no' = base
        /\ acks' = (acks \cup {a}) \ (base_seq_no .. base - 1)
  BY DEF CrossOff
<1>3. PICK i \in 1 .. Len(sendOrder) :
        /\ sendOrder[i] = a
        /\ sendOrder' = SubSeq(sendOrder, 1, i - 1)
                           \o SubSeq(sendOrder, i + 1, Len(sendOrder))
  BY DEF CrossOff
<1>4. /\ seqnums_sent' = TouchedKeys \ {a}
      /\ data_sent' = [n \in DOMAIN data_sent \ {a} |-> data_sent[n]]
  BY DEF CrossOff
<1>5. /\ sendOrder' \in Seq(Nat)
      /\ NoRepeats(sendOrder')
      /\ Elements(sendOrder') = Elements(sendOrder) \ {a}
  <2>1. sendOrder \in Seq(Nat) /\ NoRepeats(sendOrder)
    BY SendOrderNoRepeats
  <2>2. /\ sendOrder' \in Seq(Nat)
        /\ NoRepeats(sendOrder')
        /\ Elements(sendOrder') = Elements(sendOrder) \ {sendOrder[i]}
    <3>1. sendOrder' = Erased(sendOrder, i)
      BY <1>3 DEF Erased
    <3> QED
      BY <2>1, <3>1, Erase
  <2> QED
    BY <1>3, <2>2
<1>6. /\ Outstanding' = Outstanding \ {a} /\ a \in Outstanding
      /\ a \in Nat /\ base_seq_no <= a /\ a < seq_no
      /\ base \in Nat /\ base_seq_no <= base /\ base <= seq_no
  <2>1. Outstanding' = Outstanding \ {a}
    BY <1>5 DEF Outstanding, Elements
  <2>2. a \in Outstanding
    BY <1>3 DEF Outstanding
  <2> QED
    BY <1>1, <1>2, <2>1, <2>2 DEF IndexesAgree
<1>7. IndexesAgree'
  <2>1. \A k, j \in 1 .. Len(sendOrder') : sendOrder'[k] = sendOrder'[j] => k = j
    BY <1>5 DEF NoRepeats
  <2>2. \A n \in base_seq_no .. base - 1 : n \notin Outstanding'
    BY <1>1, <1>2, <1>6 DEF IndexesAgree
  <2>3. Outstanding' \subseteq base .. seq_no - 1
    <3> SUFFICES ASSUME NEW n \in Outstanding' PROVE n \in base .. seq_no - 1
      OBVIOUS
    <3>1. n \in base_seq_no .. seq_no - 1
      BY <1>1, <1>6 DEF IndexesAgree
    <3> QED
      BY <1>1, <1>6, <2>2, <3>1
  <2>4. base < seq_no => base \in Outstanding'
    BY <1>1, <1>2, <1>6 DEF IndexesAgree
  <2>5. acks' = (base .. seq_no - 1) \ Outstanding'
    <3>1. ASSUME NEW n \in acks' PROVE n \in (base .. seq_no - 1) \ Outstanding'
      BY <1>1, <1>2, <1>6, <3>1 DEF IndexesAgree
    <3>2. ASSUME NEW n \in base .. seq_no - 1, n \notin Outstanding'
          PROVE  n \in acks'
      BY <1>1, <1>2, <1>6, <3>2 DEF IndexesAgree
    <3> QED
      BY <3>1, <3>2
  <2>6. DOMAIN data_sent' = Outstanding'
    BY <1>1, <1>4, <1>6 DEF IndexesAgree
  <2>7. \A n \in Outstanding' : data_sent'[n] = DataPacket(n, Segment(n))
    BY <1>1, <1>4, <1>6 DEF IndexesAgree
  <2>8. base <= seq_no /\ seq_no <= base + sendWindow /\ seq_no <= FinSeqno + 1
    BY <1>1, <1>6 DEF IndexesAgree
  <2> QED
    BY <1>2, <2>1, <2>3, <2>4, <2>5, <2>6, <2>7, <2>8 DEF IndexesAgree
<1>8. /\ seqnums_sent' \subseteq Nat
      /\ SendTimesCover'
  <2>1. /\ TouchedKeys \subseteq Nat
        /\ Outstanding \subseteq TouchedKeys
        /\ \A n \in TouchedKeys \ Outstanding : n < base_seq_no \/ sendWindow = 0
    BY TouchingIsHarmless
  <2>2. Outstanding' \subseteq seqnums_sent'
    BY <1>4, <1>6, <2>1
  <2>3. \A n \in seqnums_sent' \ Outstanding' : n < base_seq_no' \/ sendWindow = 0
    BY <1>1, <1>2, <1>4, <1>6, <2>1
  <2>4. /\ seq_no' = seq_no /\ sPc' = sPc /\ sPc \in {"drainNew", "drain"}
        /\ seq_no > 0 \/ sendWindow = 0
    BY <1>1 DEF Draining, SendTimesCover
  <2> QED
    BY <1>4, <2>1, <2>2, <2>3, <2>4 DEF SendTimesCover
<1>9. ClientInStep' /\ \A n : Holds(n)' = Holds(n)
  BY <1>1, ClientAside DEF TypeOK
<1>10. NetworkIsHonest'
  BY <1>1, <1>9 DEF NetworkIsHonest
<1>11. CrossedOffIsHeld'
  <2>1. Holds(a)
    BY <1>1 DEF NetworkIsHonest
  <2> QED
    BY <1>1, <1>6, <1>9, <2>1 DEF CrossedOffIsHeld
<1>12. FeederInStep'
  BY <1>1 DEF FeederInStep, FinSeqno
<1>13. TypeOK'
  <2>1. /\ DOMAIN data_sent' \subseteq Nat
        /\ data_sent' \in [DOMAIN data_sent' -> Packet]
    BY <1>1, <1>4 DEF TypeOK
  <2>2. /\ ackNet' \subseteq Nat /\ base_seq_no' \in Nat /\ acks' \subseteq Nat
    BY <1>1, <1>2, <1>6 DEF TypeOK
  <2> QED
    BY <1>1, <1>5, <1>8, <2>1, <2>2 DEF TypeOK, clientVars
<1> QED
  BY <1>7, <1>8, <1>9, <1>10, <1>11, <1>12, <1>13 DEF Inv

LEMMA ReceiveAckPreserves ==
  ASSUME Inv, NEW a \in ackNet, NEW intact, ReceiveAck(a, intact),
         UNCHANGED clientVars
  PROVE  Inv'
<1>1. Draining /\ ackNet' \subseteq ackNet
      /\ UNCHANGED <<faults, pkts, seq_no, remain_size, lastPacket>>
  BY ReadingOnlyTakes DEF ReceiveAck
<1>2. CASE intact /\ InSendWindow(a) /\ a \in TouchedKeys
  <2>1. CrossOff(a) /\ sPc' = sPc
    BY <1>2 DEF ReceiveAck
  <2> QED
    BY <1>1, <2>1, CrossOffPreserves
<1>3. CASE ~(intact /\ InSendWindow(a) /\ a \in TouchedKeys)
  <2>1. /\ seqnums_sent' = TouchedKeys
        /\ UNCHANGED <<base_seq_no, acks, data_sent, sendOrder>>
    BY <1>3 DEF ReceiveAck
  <2>2. sPc' \in {"drainNew", "drain", "timers"}
    BY <1>1 DEF ReceiveAck, AfterRefusal, Draining
  <2> QED
    BY <1>1, <2>1, <2>2, TouchPreserves
<1> QED
  BY <1>2, <1>3

LEMMA UpdateTimersPreserves ==
  ASSUME Inv, NEW k \in 0 .. Len(sendOrder), NEW sent \in SUBSET (1 .. k),
         UpdateTimers(k, sent), UNCHANGED clientVars
  PROVE  Inv'
<1> USE Segments
<1>1. /\ TypeOK /\ FeederInStep /\ SendTimesCover
      /\ UNCHANGED <<faults, ackNet, seq_no, base_seq_no, seqnums_sent,
                     data_sent, acks, remain_size, lastPacket>>
      /\ sPc' \in {"loop", "failed"} /\ sPc # "failed"
  BY DEF Inv, UpdateTimers, Draining
<1>2. /\ sendOrder' \in Seq(Nat) /\ NoRepeats(sendOrder')
      /\ Elements(sendOrder') = Elements(sendOrder)
  <2>1. sendOrder' = Rotated(sendOrder, k)
    BY DEF UpdateTimers, Rotate, Rotated
  <2> QED
    BY <2>1, SendOrderNoRepeats, MoveToBack
<1>3. \A p \in pkts' : p \in pkts \/ \E n \in Outstanding : p = data_sent[n]
  <2>1. pkts' = pkts \cup {data_sent[sendOrder[i]] : i \in sent}
    BY DEF UpdateTimers, Transmit
  <2>2. \A i \in sent : sendOrder[i] \in Outstanding
    BY <1>1 DEF Outstanding, TypeOK
  <2> QED
    BY <2>1, <2>2
<1>4. /\ Outstanding' = Outstanding /\ pkts' \subseteq Packet
      /\ IndexesAgree' /\ ClientInStep' /\ NetworkIsHonest' /\ CrossedOffIsHeld'
  BY <1>1, <1>2, <1>3, WindowAside
<1>5. FeederInStep'
  BY <1>1 DEF FeederInStep, FinSeqno
<1>6. SendTimesCover'
  BY <1>1, <1>4 DEF SendTimesCover
<1>7. TypeOK'
  BY <1>1, <1>2, <1>4 DEF TypeOK, clientVars
<1> QED
  BY <1>4, <1>5, <1>6, <1>7 DEF Inv

-----------------------------------------------------------------------------
(* The step of the client. *)

\* A client step that takes packets from the network, forgets nothing it holds
\* and acknowledges at most m, which it holds, keeps the rest of the invariant.
LEMMA ServerAside ==
  ASSUME Inv, UNCHANGED serverVars, UNCHANGED faults, pkts' \subseteq pkts,
         NEW m \in Nat, m < seq_no, Holds(m)',
         ackNet' \subseteq ackNet \cup {m},
         \A n \in Nat : Holds(n) => Holds(n)'
  PROVE  /\ FeederInStep' /\ IndexesAgree' /\ SendTimesCover'
         /\ NetworkIsHonest' /\ CrossedOffIsHeld'
         /\ pkts' \subseteq Packet /\ ackNet' \subseteq Nat
<1>1. /\ TypeOK /\ FeederInStep /\ IndexesAgree /\ SendTimesCover
      /\ NetworkIsHonest /\ CrossedOffIsHeld
  BY DEF Inv
<1>2. UNCHANGED <<sPc, seq_no, base_seq_no, sendOrder, seqnums_sent, data_sent,
                  acks, remain_size, lastPacket>>
  BY DEF serverVars
<1>3. FeederInStep'
  BY <1>1, <1>2 DEF FeederInStep, FinSeqno
<1>4. Outstanding' = Outstanding
  BY <1>2 DEF Outstanding
<1>5. IndexesAgree'
  BY <1>1, <1>2, <1>4 DEF IndexesAgree, FinSeqno
<1>6. SendTimesCover'
  BY <1>1, <1>2, <1>4 DEF SendTimesCover, FinSeqno
<1>7. pkts' \subseteq Packet /\ ackNet' \subseteq Nat
  BY <1>1 DEF TypeOK
<1>8. NetworkIsHonest'
  <2>1. \A p \in pkts' : p.seqno < seq_no' /\ p = DataPacket(p.seqno, Segment(p.seqno))
    BY <1>1, <1>2 DEF NetworkIsHonest
  <2>2. \A a \in ackNet' : a < seq_no' /\ Holds(a)'
    BY <1>1, <1>2, <1>7 DEF NetworkIsHonest, TypeOK
  <2> QED
    BY <2>1, <2>2 DEF NetworkIsHonest
<1>9. CrossedOffIsHeld'
  <2>1. \A n \in 0 .. seq_no - 1 : n \in Nat
    BY <1>1 DEF TypeOK
  <2> QED
    BY <1>1, <1>2, <1>4, <2>1 DEF CrossedOffIsHeld
<1> QED
  BY <1>3, <1>5, <1>6, <1>7, <1>8, <1>9

\* The sink after handleWindow fed the segments up to base: the file up to base.
LEMMA FeedingExtends ==
  ASSUME NEW n \in 0 .. FinSeqno, NEW base \in n .. FinSeqno, NEW buffer,
         \A m \in n .. base - 1 : buffer[m] = Segment(m)
  PROVE  SubSeq(File, 1, n) \o [i \in 1 .. base - n |-> buffer[n + i - 1]]
           = SubSeq(File, 1, base)
<1> DEFINE written == SubSeq(File, 1, n)
           fed == [i \in 1 .. base - n |-> buffer[n + i - 1]]
           file == SubSeq(File, 1, base)
<1>1. /\ FinSeqno \in Nat /\ Len(File) = FinSeqno /\ File \in Seq(Data)
      /\ n \in Nat /\ base \in Nat /\ n <= base /\ base <= FinSeqno
  BY Segments, FileAssumption DEF FinSeqno
<1>2. /\ written \in Seq(Data) /\ Len(written) = n
      /\ \A j \in 1 .. n : written[j] = File[j]
  <2>1. /\ written \in Seq(Data) /\ Len(written) = n - 1 + 1
        /\ \A j \in 1 .. n - 1 + 1 : written[j] = File[1 + j - 1]
    BY <1>1, Piece
  <2> QED
    BY <1>1, <2>1
<1>3. /\ file \in Seq(Data) /\ Len(file) = base
      /\ \A j \in 1 .. base : file[j] = File[j]
  <2>1. /\ file \in Seq(Data) /\ Len(file) = base - 1 + 1
        /\ \A j \in 1 .. base - 1 + 1 : file[j] = File[1 + j - 1]
    BY <1>1, Piece
  <2> QED
    BY <1>1, <2>1
<1>4. /\ fed \in Seq(Data) /\ Len(fed) = base - n
      /\ \A j \in 1 .. base - n : fed[j] = File[n + j]
  <2>1. \A i \in 1 .. base - n : /\ buffer[n + i - 1] = File[n + i]
                                /\ buffer[n + i - 1] \in Data
    <3> SUFFICES ASSUME NEW i \in 1 .. base - n
                 PROVE  /\ buffer[n + i - 1] = File[n + i]
                        /\ buffer[n + i - 1] \in Data
      OBVIOUS
    <3>1. /\ n + i - 1 \in n .. base - 1 /\ n + i - 1 \in Nat
          /\ n + i - 1 < FinSeqno /\ (n + i - 1) + 1 = n + i
      BY <1>1
    <3> QED
      BY <3>1, Segments
  <2>2. base - n \in Nat
    BY <1>1
  <2>3. fed \in [1 .. base - n -> Data]
    BY <2>1
  <2>4. fed \in Seq(Data) /\ Len(fed) = base - n
    BY <2>2, <2>3
  <2>5. \A j \in 1 .. base - n : fed[j] = File[n + j]
    BY <2>1
  <2> QED
    BY <2>4, <2>5
<1> HIDE DEF written, fed, file
<1> DEFINE whole == written \o fed
<1>5. /\ whole \in Seq(Data)
      /\ Len(whole) = Len(written) + Len(fed)
      /\ \A j \in 1 .. Len(written) : whole[j] = written[j]
      /\ \A j \in 1 .. Len(fed) : whole[Len(written) + j] = fed[j]
  <2>1. written \in Seq(Data) /\ fed \in Seq(Data)
    BY <1>2, <1>4
  <2> QED
    BY <2>1, EndToEnd
<1> HIDE DEF whole
<1>6. Len(whole) = base
  BY <1>1, <1>2, <1>4, <1>5
<1>7. ASSUME NEW j \in 1 .. base
      PROVE  whole[j] = file[j]
  <2>1. CASE j \in 1 .. n
    BY <1>2, <1>3, <1>5, <2>1
  <2>2. CASE j - n \in 1 .. base - n
    <3>1. n + (j - n) = j
      BY <1>1
    <3>2. whole[n + (j - n)] = File[n + (j - n)]
      BY <1>2, <1>4, <1>5, <2>2
    <3> QED
      BY <1>3, <3>1, <3>2
  <2>3. j \in 1 .. n \/ j - n \in 1 .. base - n
    BY <1>1
  <2> QED
    BY <2>1, <2>2, <2>3
<1>8. whole = file
  BY <1>3, <1>5, <1>6, <1>7, SeqEqual
<1> QED
  BY <1>8 DEF written, fed, file, whole

\* AcceptData keeps the client's part of the invariant and what it holds, and
\* adds the packet to it.
LEMMA AcceptDataKeeps ==
  ASSUME Inv, NEW n \in Nat, n < seq_no, n < FinSeqno, InRecvWindow(n),
         HandleWindow(Buffered(n, Segment(n))), seq_no' = seq_no,
         UNCHANGED <<end, last_ack_no>>, cDone' = LoopEnds'
  PROVE  /\ ClientInStep'
         /\ Holds(n)' /\ \A m \in Nat : Holds(m) => Holds(m)'
         /\ base_ack_no' \in Nat /\ DOMAIN data_received' \subseteq Nat
         /\ data_received' \in [DOMAIN data_received' -> Data]
         /\ delivered' \in Seq(Data)
<1> DEFINE buffer == Buffered(n, Segment(n))
<1>1. /\ TypeOK /\ ClientInStep /\ base_ack_no \in Nat /\ seq_no \in Nat
      /\ FinSeqno \in Nat /\ base_ack_no <= FinSeqno /\ base_ack_no <= seq_no
      /\ base_ack_no <= n /\ n < base_ack_no + recvWindow /\ recvWindow \in Nat
      /\ DOMAIN data_received \subseteq Nat
      /\ delivered = SubSeq(File, 1, base_ack_no)
  BY Segments, RecvWindowAssumption DEF Inv, TypeOK, ClientInStep, InRecvWindow
<1>2. DOMAIN buffer = DOMAIN data_received \cup {n}
  BY DEF Buffered
<1>3. \A m \in DOMAIN buffer :
        /\ m \in Nat /\ base_ack_no <= m /\ m < base_ack_no + recvWindow
        /\ m < FinSeqno /\ m < seq_no
        /\ buffer[m] = Segment(m) /\ buffer[m] \in Data
  <2> SUFFICES ASSUME NEW m \in DOMAIN buffer
               PROVE  /\ m \in Nat /\ base_ack_no <= m
                      /\ m < base_ack_no + recvWindow
                      /\ m < FinSeqno /\ m < seq_no
                      /\ buffer[m] = Segment(m) /\ buffer[m] \in Data
    OBVIOUS
  <2>1. buffer[m] = IF m \in DOMAIN data_received
                    THEN data_received[m] ELSE Segment(n)
    BY <1>2 DEF Buffered
  <2>2. CASE m \in DOMAIN data_received
    BY <1>1, <2>1, <2>2, Segments DEF ClientInStep
  <2>3. CASE m \notin DOMAIN data_received
    <3>1. m = n
      BY <1>2, <2>3
    <3> QED
      BY <1>1, <2>1, <2>3, <3>1, Segments
  <2> QED
    BY <2>2, <2>3
<1>4. PICK base \in base_ack_no .. FinSeqno :
        /\ base_ack_no .. base - 1 \subseteq DOMAIN buffer
        /\ base \notin DOMAIN buffer
        /\ delivered' = delivered \o [i \in 1 .. base - base_ack_no |->
                                      buffer[base_ack_no + i - 1]]
        /\ base_ack_no' = base
        /\ data_received' = [m \in DOMAIN buffer \ (base_ack_no .. base - 1) |->
                               buffer[m]]
  BY DEF HandleWindow, FeedNextData
<1> HIDE DEF buffer
<1>5. base \in Nat /\ base_ack_no <= base /\ base <= FinSeqno
  BY <1>1, <1>4
<1>6. base <= seq_no
  <2>1. CASE base = base_ack_no
    BY <1>1, <2>1
  <2>2. CASE base # base_ack_no
    <3>1. base - 1 \in base_ack_no .. base - 1
      BY <1>1, <1>5, <2>2
    <3> QED
      BY <1>1, <1>3, <1>4, <1>5, <3>1
  <2> QED
    BY <2>1, <2>2
<1>7. delivered' = SubSeq(File, 1, base)
  <2>1. \A m \in base_ack_no .. base - 1 : buffer[m] = Segment(m)
    BY <1>3, <1>4
  <2>2. base_ack_no \in 0 .. FinSeqno /\ base \in base_ack_no .. FinSeqno
    BY <1>1, <1>4
  <2> QED
    BY <1>1, <1>4, <2>1, <2>2, FeedingExtends
<1>8. \A m \in DOMAIN data_received' :
        /\ m \in Nat /\ base < m /\ m < base + recvWindow
        /\ m < FinSeqno /\ m < seq_no
        /\ data_received'[m] = Segment(m) /\ data_received'[m] \in Data
  <2> SUFFICES ASSUME NEW m \in DOMAIN buffer, m \notin base_ack_no .. base - 1
               PROVE  /\ m \in Nat /\ base < m /\ m < base + recvWindow
                      /\ m < FinSeqno /\ m < seq_no
                      /\ data_received'[m] = Segment(m) /\ data_received'[m] \in Data
    BY <1>4
  <2>1. data_received'[m] = buffer[m]
    BY <1>4
  <2>2. m # base
    BY <1>4
  <2> QED
    BY <1>1, <1>3, <1>5, <2>1, <2>2
<1>9. ClientInStep'
  <2>1. FinSeqno' = FinSeqno /\ \A m : Segment(m)' = Segment(m)
    BY DEF FinSeqno, Segment
  <2>2. IF end' THEN last_ack_no' = FinSeqno /\ FinSeqno < seq_no
               ELSE last_ack_no' = NoNumber
    BY <1>1 DEF ClientInStep
  <2> QED
    BY <1>4, <1>5, <1>6, <1>7, <1>8, <2>1, <2>2 DEF ClientInStep
<1>10. \A m \in Nat : m < base_ack_no \/ m \in DOMAIN buffer =>
                      m < base \/ m \in DOMAIN data_received'
  <2> SUFFICES ASSUME NEW m \in Nat, m < base_ack_no \/ m \in DOMAIN buffer,
                      m >= base
               PROVE  m \in DOMAIN data_received'
    BY <1>5
  <2>1. m \in DOMAIN buffer /\ m \notin base_ack_no .. base - 1
    BY <1>1, <1>5
  <2> QED
    BY <1>4, <2>1
<1>11. Holds(n)' /\ \A m \in Nat : Holds(m) => Holds(m)'
  <2>1. \A m \in Nat : m < base_ack_no \/ m \in DOMAIN buffer => Holds(m)'
    BY <1>4, <1>10 DEF Holds
  <2>2. \A m \in Nat : m = FinSeqno /\ end => Holds(m)'
    BY DEF Holds, FinSeqno
  <2> QED
    BY <1>2, <2>1, <2>2 DEF Holds
<1>12. delivered' \in Seq(Data)
  <2>1. File \in Seq(Data) /\ Len(File) = FinSeqno
    BY FileAssumption DEF FinSeqno
  <2>2. 1 \in 1 .. Len(File) + 1 /\ base \in 0 .. Len(File) /\ 1 <= base + 1
    BY <1>1, <1>5, <2>1
  <2> QED
    BY <1>7, <2>1, <2>2, Piece
<1>13. data_received' \in [DOMAIN data_received' -> Data]
  BY <1>4, <1>8
<1> QED
  BY <1>4, <1>5, <1>8, <1>9, <1>11, <1>12, <1>13

LEMMA ReceivePacketPreserves ==
  ASSUME Inv, NEW packet \in pkts, NEW intact, ReceivePacket(packet, intact),
         UNCHANGED serverVars
  PROVE  Inv'
<1> USE Segments
<1> DEFINE n == packet.seqno
<1>1. /\ TypeOK /\ IndexesAgree /\ ClientInStep /\ NetworkIsHonest /\ CrossedOffIsHeld
      /\ seq_no \in Nat /\ base_ack_no \in Nat /\ seq_no <= FinSeqno + 1
  BY DEF Inv, TypeOK, IndexesAgree
<1>2. /\ n \in Nat /\ n < seq_no /\ packet = DataPacket(n, Segment(n))
      /\ packet.data = Segment(n) /\ (IsEmpty(packet) <=> n >= FinSeqno)
  <2>1. n \in Nat /\ n < seq_no /\ packet = DataPacket(n, Segment(n))
    BY <1>1 DEF TypeOK, Packet, NetworkIsHonest
  <2> QED
    BY <2>1
<1> HIDE DEF n
<1>3. /\ pkts' \subseteq pkts /\ UNCHANGED faults /\ seq_no' = seq_no
      /\ cDone' = LoopEnds'
  BY ReadingOnlyTakes DEF ReceivePacket, serverVars
<1>4. \/ Ignore
      \/ ReAck(packet) /\ InReAckRange(n)
      \/ AcceptFin(packet) /\ IsEmpty(packet)
      \/ AcceptData(packet) /\ ~IsEmpty(packet) /\ InRecvWindow(n)
  BY DEF ReceivePacket, n
\* It is enough that the client's part holds and the acknowledgement is true.
<1>5. ASSUME ClientInStep', \A m \in Nat : Holds(m) => Holds(m)',
             ackNet' = ackNet \/ (ackNet' \subseteq ackNet \cup {n} /\ Holds(n)'),
             base_ack_no' \in Nat, DOMAIN data_received' \subseteq Nat,
             data_received' \in [DOMAIN data_received' -> Data],
             delivered' \in Seq(Data), end' \in BOOLEAN,
             last_ack_no' \in Nat \cup {NoNumber}
      PROVE  Inv'
  <2>1. /\ FeederInStep' /\ IndexesAgree' /\ SendTimesCover'
        /\ NetworkIsHonest' /\ CrossedOffIsHeld'
        /\ pkts' \subseteq Packet /\ ackNet' \subseteq Nat
    <3>1. CASE ackNet' \subseteq ackNet \cup {n} /\ Holds(n)'
      BY <1>2, <1>3, <1>5, <3>1, ServerAside
    <3>2. CASE ackNet' = ackNet /\ ackNet # {}
      <4>1. PICK m \in ackNet : TRUE
        BY <3>2
      <4>2. m \in Nat /\ m < seq_no /\ Holds(m)'
        BY <1>1, <1>5, <4>1 DEF NetworkIsHonest, TypeOK
      <4> QED
        BY <1>3, <1>5, <3>2, <4>2, ServerAside
    <3>3. CASE ackNet' = ackNet /\ ackNet = {}
      <4>1. UNCHANGED <<sPc, seq_no, base_seq_no, sendOrder, seqnums_sent,
                        data_sent, acks, remain_size, lastPacket>>
        BY DEF serverVars
      <4>2. TypeOK /\ FeederInStep /\ IndexesAgree /\ SendTimesCover
            /\ NetworkIsHonest /\ CrossedOffIsHeld
        BY DEF Inv
      <4>3. Outstanding' = Outstanding
        BY <4>1 DEF Outstanding
      <4>4. FeederInStep' /\ IndexesAgree' /\ SendTimesCover'
        BY <4>1, <4>2, <4>3 DEF FeederInStep, IndexesAgree, SendTimesCover, FinSeqno
      <4>5. NetworkIsHonest'
        BY <1>3, <3>3, <4>2 DEF NetworkIsHonest
      <4>6. CrossedOffIsHeld'
        <5>1. \A m \in 0 .. seq_no - 1 : m \in Nat
          BY <1>1
        <5> QED
          BY <1>3, <1>5, <4>2, <4>3, <5>1 DEF CrossedOffIsHeld
      <4>7. pkts' \subseteq Packet /\ ackNet' \subseteq Nat
        BY <1>3, <3>3, <4>2 DEF TypeOK
      <4> QED
        BY <4>4, <4>5, <4>6, <4>7
    <3> QED
      BY <1>5, <3>1, <3>2, <3>3
  <2>2. cDone' \in BOOLEAN
    BY <1>3, <1>5 DEF LoopEnds
  <2>3. TypeOK'
    BY <1>1, <1>3, <1>5, <2>1, <2>2 DEF TypeOK, serverVars
  <2> QED
    BY <1>5, <2>1, <2>3 DEF Inv
<1>6. ASSUME UNCHANGED <<base_ack_no, data_received, end, last_ack_no, delivered>>
      PROVE  /\ ClientInStep' /\ \A m : Holds(m)' = Holds(m)
             /\ base_ack_no' \in Nat /\ DOMAIN data_received' \subseteq Nat
             /\ data_received' \in [DOMAIN data_received' -> Data]
             /\ delivered' \in Seq(Data) /\ end' \in BOOLEAN
             /\ last_ack_no' \in Nat \cup {NoNumber}
  <2>1. \A m : Holds(m)' = Holds(m)
    BY <1>6 DEF Holds, FinSeqno
  <2>2. ClientInStep'
    BY <1>1, <1>3, <1>6 DEF ClientInStep, FinSeqno, Segment
  <2> QED
    BY <1>1, <1>6, <2>1, <2>2 DEF TypeOK
<1>7. CASE Ignore
  <2>1. /\ ackNet' = ackNet
        /\ UNCHANGED <<base_ack_no, data_received, end, last_ack_no, delivered>>
    BY <1>7 DEF Ignore
  <2> QED
    BY <1>5, <1>6, <2>1
<1>8. CASE ReAck(packet) /\ InReAckRange(n)
  <2>1. /\ ackNet' = ackNet \/ ackNet' = ackNet \cup {n}
        /\ UNCHANGED <<base_ack_no, data_received, end, last_ack_no, delivered>>
    BY <1>8 DEF ReAck, SendAck, n
  <2>2. Holds(n)
    BY <1>8 DEF InReAckRange, Holds
  <2> QED
    BY <1>5, <1>6, <2>1, <2>2
<1>9. CASE AcceptFin(packet) /\ IsEmpty(packet)
  <2>1. /\ ackNet' = ackNet \/ ackNet' = ackNet \cup {n}
        /\ end' = TRUE /\ last_ack_no' = n
        /\ UNCHANGED <<base_ack_no, data_received, delivered>>
    BY <1>9 DEF AcceptFin, SendAck, n
  <2>2. n = FinSeqno
    BY <1>1, <1>2, <1>9
  <2>3. ClientInStep'
    BY <1>1, <1>2, <1>3, <2>1, <2>2 DEF ClientInStep, FinSeqno, Segment
  <2>4. Holds(n)' /\ \A m \in Nat : Holds(m) => Holds(m)'
    BY <2>1, <2>2 DEF Holds, FinSeqno
  <2> QED
    BY <1>1, <1>2, <1>5, <2>1, <2>3, <2>4 DEF TypeOK
<1>10. CASE AcceptData(packet) /\ ~IsEmpty(packet) /\ InRecvWindow(n)
  <2>1. /\ ackNet' = ackNet \/ ackNet' = ackNet \cup {n}
        /\ HandleWindow(Buffered(n, Segment(n)))
        /\ UNCHANGED <<end, last_ack_no>>
    BY <1>2, <1>10 DEF AcceptData, SendAck, n
  <2>2. n < FinSeqno
    BY <1>2, <1>10
  <2>3. /\ ClientInStep'
        /\ Holds(n)' /\ \A m \in Nat : Holds(m) => Holds(m)'
        /\ base_ack_no' \in Nat /\ DOMAIN data_received' \subseteq Nat
        /\ data_received' \in [DOMAIN data_received' -> Data]
        /\ delivered' \in Seq(Data)
    BY <1>2, <1>3, <1>10, <2>1, <2>2, AcceptDataKeeps
  <2> QED
    BY <1>1, <1>5, <2>1, <2>3 DEF TypeOK
<1> QED
  BY <1>4, <1>7, <1>8, <1>9, <1>10

-----------------------------------------------------------------------------
(* The theorems. *)

\* Inv is inductive.
LEMMA NextPreserves == Inv /\ [Next]_vars => Inv'
<1> SUFFICES ASSUME Inv, [Next]_vars PROVE Inv'
  OBVIOUS
<1>1. CASE ServerStep
  <2>1. CASE SendNext
    BY <1>1, <2>1, SendNextPreserves DEF ServerStep
  <2>2. CASE SendFails
    BY <1>1, <2>2, SendFailsPreserves DEF ServerStep
  <2>3. CASE AwaitAcks
    BY <1>1, <2>3, AwaitAcksPreserves DEF ServerStep
  <2>4. CASE Finish
    BY <1>1, <2>4, FinishPreserves DEF ServerStep
  <2>5. CASE \E a \in ackNet, intact \in Intact : ReceiveAck(a, intact)
    BY <1>1, <2>5, ReceiveAckPreserves DEF ServerStep
  <2>6. CASE ReceiveError
    BY <1>1, <2>6, ReceiveErrorPreserves DEF ServerStep
  <2>7. CASE LeaveDrain
    BY <1>1, <2>7, UpdateTimersPreserves DEF ServerStep, LeaveDrain
  <2> QED
    BY <1>1, <2>1, <2>2, <2>3, <2>4, <2>5, <2>6, <2>7 DEF ServerStep, ServerNext
<1>2. CASE ClientStep
  BY <1>2, ReceivePacketPreserves DEF ClientStep, ClientNext
<1>3. CASE UNCHANGED vars
  <2>1. UNCHANGED <<serverVars, clientVars, netVars, sPc, seq_no, base_seq_no,
                    sendOrder, seqnums_sent, data_sent, acks, remain_size,
                    lastPacket, base_ack_no, data_received, last_ack_no, end,
                    cDone, delivered, faults, pkts, ackNet>>
    BY <1>3 DEF vars, serverVars, clientVars, netVars
  <2> QED
    BY <2>1 DEF Inv, TypeOK, FeederInStep, IndexesAgree, SendTimesCover,
                ClientInStep, NetworkIsHonest, CrossedOffIsHeld, Holds,
                Outstanding, LoopEnds, FinSeqno, Segment
<1> QED
  BY <1>1, <1>2, <1>3 DEF Next

\* Every reachable state satisfies the invariant.
THEOREM Invariance == Spec => []Inv
<1>1. Init => Inv
  BY InitEstablishes
<1>2. Inv /\ [Next]_vars => Inv'
  BY NextPreserves
<1> QED
  BY <1>1, <1>2, PTL DEF Spec

\* The variables keep their types.
THEOREM TypeCorrect == Spec => []TypeOK
<1>1. Inv => TypeOK
  BY DEF Inv
<1> QED
  BY <1>1, Invariance, PTL

\* A packet the server sent and forgot, through receive_ack, is one the client
\* wrote or keeps, whatever the network lost, repeated, reordered or damaged.
THEOREM NothingForgottenEarly == Spec => []CrossedOffIsHeld
<1>1. Inv => CrossedOffIsHeld
  BY DEF Inv
<1> QED
  BY <1>1, Invariance, PTL

\* updateTimers and receive_ack never dereference an iterator to nothing.
THEOREM LookupsAreSafe == Spec => []LookupsSucceed
<1>1. Inv => LookupsSucceed
  <2> SUFFICES ASSUME Inv PROVE LookupsSucceed
    OBVIOUS
  <2>1. IndexesAgree /\ SendTimesCover /\ base_seq_no \in Nat /\ seqnums_sent \subseteq Nat
    BY DEF Inv, TypeOK
  <2>2. \A n \in Outstanding : n \in seqnums_sent /\ n \in DOMAIN data_sent
    BY <2>1 DEF IndexesAgree, SendTimesCover
  <2>3. \A n \in seqnums_sent : InSendWindow(n) => n \in Outstanding
    BY <2>1 DEF SendTimesCover, InSendWindow
  <2> QED
    BY <2>2, <2>3 DEF LookupsSucceed
<1> QED
  BY <1>1, Invariance, PTL

\* With a send window no larger than the receive window, what the server has
\* in flight never lags more than a window behind the client.
LEMMA InvAnswers ==
  ASSUME seq_no <= base_seq_no + recvWindow, Inv
  PROVE  ResendIsAnswered
<1> SUFFICES ASSUME NEW n \in Outstanding
             PROVE  InReAckRange(n) \/ InRecvWindow(n)
  BY DEF ResendIsAnswered
<1>1. /\ base_seq_no \in Nat /\ seq_no \in Nat /\ base_ack_no \in Nat
      /\ IndexesAgree /\ ClientInStep /\ CrossedOffIsHeld
  BY DEF Inv, TypeOK
<1>2. /\ n \in Nat /\ base_seq_no <= n /\ n < seq_no /\ base_ack_no <= seq_no
  BY <1>1 DEF IndexesAgree, ClientInStep
<1>3. base_seq_no <= base_ack_no \/ n < base_ack_no + recvWindow
  <2> SUFFICES ASSUME base_ack_no < base_seq_no
               PROVE  FALSE
    BY <1>1
  <2>1. base_ack_no \in 0 .. seq_no - 1 /\ base_ack_no \notin Outstanding
    BY <1>1, <1>2 DEF IndexesAgree
  <2>2. Holds(base_ack_no)
    BY <1>1, <2>1 DEF CrossedOffIsHeld
  <2>3. base_ack_no = FinSeqno /\ end
    BY <1>1, <2>2 DEF Holds, ClientInStep
  <2>4. base_seq_no <= FinSeqno
    BY <1>1, <1>2, Segments DEF IndexesAgree
  <2> QED
    BY <1>1, <2>3, <2>4, Segments
<1> QED
  BY <1>1, <1>2, <1>3, RecvWindowAssumption DEF InReAckRange, InRecvWindow, MinPack

\* With a send window no larger than the receive window the client answers
\* every packet the server may still resend, so no lost acknowledgement is
\* lost for good.
THEOREM EveryResendAnswered ==
  ASSUME sendWindow <= recvWindow
  PROVE  Spec => []ResendIsAnswered
<1>1. Inv => ResendIsAnswered
  <2> SUFFICES ASSUME Inv PROVE ResendIsAnswered
    OBVIOUS
  <2>1. seq_no <= base_seq_no + sendWindow /\ seq_no \in Nat /\ base_seq_no \in Nat
    BY DEF Inv, TypeOK, IndexesAgree
  <2>2. seq_no <= base_seq_no + recvWindow
    BY <2>1, SendWindowAssumption, RecvWindowAssumption
  <2> QED
    BY <2>2, InvAnswers
<1> QED
  BY <1>1, Invariance, PTL

-----------------------------------------------------------------------------
(* Selective repeat implements ReliableTransfer. *)

\* Success is reported only after the client stopped.
DoneAfterClient == sPc = "done" => cDone

\* When the server has nothing left to wait for, the client holds everything,
\* and a client that holds everything has written everything.
LEMMA DoneIsLast == Inv => DoneAfterClient
<1> SUFFICES ASSUME Inv, sPc = "done" PROVE cDone
  BY DEF DoneAfterClient
<1>1. /\ ClientInStep /\ CrossedOffIsHeld /\ base_ack_no \in Nat
      /\ seq_no = FinSeqno + 1 /\ sendOrder = <<>>
  BY DEF Inv, TypeOK, SendTimesCover
<1>2. \A n \in 0 .. FinSeqno : Holds(n)
  <2>1. Outstanding = {}
    BY <1>1 DEF Outstanding
  <2> QED
    BY <1>1, <2>1, Segments DEF CrossedOffIsHeld
<1>3. end /\ last_ack_no = FinSeqno
  <2>1. Holds(FinSeqno) /\ FinSeqno \in Nat
    BY <1>2, Segments
  <2> QED
    BY <1>1, <2>1 DEF Holds, ClientInStep
<1>4. base_ack_no = FinSeqno
  <2>1. base_ack_no \in 0 .. FinSeqno
    BY <1>1, Segments DEF ClientInStep
  <2> QED
    BY <1>1, <1>2, <2>1 DEF Holds, ClientInStep
<1> QED
  BY <1>1, <1>3, <1>4 DEF ClientInStep, LoopEnds

\* The first state maps to the first state.
LEMMA InitRefines == Init => RT!Init
<1> SUFFICES ASSUME Init PROVE RT!Init
  OBVIOUS
<1>1. delivered = <<>> /\ cDone = FALSE /\ sPc = "loop"
  BY DEF Init, ServerInit, ClientInit, SinkInit
<1> QED
  BY <1>1 DEF RT!Init

\* A step of the client appends the next segments and stops with the last.
LEMMA ClientRefines ==
  ASSUME Inv, Inv', NEW packet \in pkts, NEW intact, ReceivePacket(packet, intact),
         sPc' = sPc
  PROVE  RT!ClientWrites
<1>1. /\ cDone = FALSE /\ cDone' = LoopEnds'
  BY DEF ReceivePacket, Inv, TypeOK
<1>2. base_ack_no' >= base_ack_no
  <2>1. base_ack_no \in Nat
    BY DEF Inv, TypeOK
  <2>2. base_ack_no' = base_ack_no \/ base_ack_no' \in base_ack_no .. FinSeqno
    BY DEF ReceivePacket, Ignore, ReAck, AcceptFin, AcceptData, HandleWindow
  <2> QED
    BY <2>1, <2>2, Segments
<1>3. /\ base_ack_no \in Nat /\ base_ack_no' \in Nat
      /\ base_ack_no' <= FinSeqno /\ base_ack_no <= FinSeqno
      /\ delivered = SubSeq(File, 1, base_ack_no)
      /\ delivered' = SubSeq(File, 1, base_ack_no')
  BY DEF Inv, TypeOK, ClientInStep, FinSeqno
<1>4. Len(delivered) = base_ack_no /\ Len(File) = FinSeqno
  <2>1. File \in Seq(Data) /\ Len(File) = FinSeqno
    BY FileAssumption DEF FinSeqno
  <2>2. 1 \in 1 .. Len(File) + 1 /\ base_ack_no \in 0 .. Len(File)
        /\ 1 <= base_ack_no + 1
    BY <1>3, <2>1
  <2>3. Len(SubSeq(File, 1, base_ack_no)) = base_ack_no - 1 + 1
    BY <2>1, <2>2, Piece
  <2> QED
    BY <1>3, <2>1, <2>3
<1>5. base_ack_no' \in Len(delivered) .. Len(File)
  BY <1>2, <1>3, <1>4, Segments
<1>6. cDone' \in {FALSE, base_ack_no' = Len(File)}
  <2>1. cDone' => base_ack_no' = FinSeqno
    BY <1>1 DEF Inv, ClientInStep, LoopEnds, FinSeqno
  <2>2. cDone' \in BOOLEAN
    BY DEF Inv, TypeOK
  <2> QED
    BY <1>4, <2>1, <2>2
<1> QED
  BY <1>1, <1>3, <1>5, <1>6 DEF RT!ClientWrites

\* Every step maps to a step of ReliableTransfer or to a stutter.
LEMMA NextRefines ==
  ASSUME Inv, Inv', DoneAfterClient', [Next]_vars
  PROVE  [RT!Next]_<<delivered, cDone, sPc = "done">>
<1>1. CASE ServerStep
  <2>1. UNCHANGED <<delivered, cDone>> /\ sPc # "done"
    BY <1>1 DEF ServerStep, clientVars, ServerNext, SendNext, SendPacket, SendFails,
                GiveUp, AwaitAcks, Finish, ReceiveAck, ReceiveError, LeaveDrain, UpdateTimers, Draining
  <2>2. CASE sPc' = "done"
    <3>1. cDone
      BY <2>1, <2>2 DEF DoneAfterClient
    <3> QED
      BY <2>1, <2>2, <3>1 DEF RT!Next, RT!ServerFinishes
  <2>3. CASE sPc' # "done"
    BY <2>1, <2>3
  <2> QED
    BY <2>2, <2>3
<1>2. CASE ClientStep
  <2>1. PICK packet \in pkts, intact \in Intact : ReceivePacket(packet, intact)
    BY <1>2 DEF ClientStep, ClientNext
  <2>2. sPc' = sPc
    BY <1>2 DEF ClientStep, serverVars
  <2> QED
    BY <2>1, <2>2, ClientRefines DEF RT!Next
<1>3. CASE UNCHANGED vars
  BY <1>3 DEF vars, clientVars, serverVars
<1> QED
  BY <1>1, <1>2, <1>3 DEF Next

\* The client writes the segments in order, each once, stops only with the
\* whole file, and the server reports success only after that.
THEOREM Refinement == Spec => ImplementsReliableTransfer
<1>1. Init => RT!Init
  BY InitRefines
<1>2. Inv /\ Inv' /\ DoneAfterClient' /\ [Next]_vars
        => [RT!Next]_<<delivered, cDone, sPc = "done">>
  BY NextRefines
<1>3. Inv => DoneAfterClient
  BY DoneIsLast
<1> QED
  BY <1>1, <1>2, <1>3, Invariance, PTL DEF Spec, ImplementsReliableTransfer, RT!Spec
=============================================================================
