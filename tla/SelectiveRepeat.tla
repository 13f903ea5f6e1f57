-------------------------- MODULE SelectiveRepeat --------------------------
(***************************************************************************)
(* One transfer with the selective repeat technique: a server child, its   *)
(* client and the datagrams between them.                                  *)
(***************************************************************************)
EXTENDS SRServer, SRClient

vars == <<serverVars, clientVars, netVars>>

Init == ServerInit /\ ClientInit /\ NetInit

ServerStep == ServerNext /\ UNCHANGED clientVars
ClientStep == ClientNext /\ UNCHANGED serverVars

Next == ServerStep \/ ClientStep

Spec == Init /\ [][Next]_vars

Numbers == 0 .. FinSeqno

\* The client reads packet n, and its acknowledgement, if there is one, is not
\* lost.
Answer(n) ==
  /\ ReceivePacket(DataPacket(n, Segment(n)), TRUE)
  /\ InReAckRange(n) \/ InRecvWindow(n) => n \in ackNet'

\* The server keeps running, and it drains the socket faster than datagrams
\* arrive; the clock passes and rand() does not drop the same packet for ever;
\* what is sent again and again arrives intact now and then.
Fairness ==
  /\ WF_vars(ServerStep)
  /\ WF_vars(LeaveDrain /\ UNCHANGED clientVars)
  /\ \A n \in Numbers :
       /\ SF_vars(Resend(n) /\ UNCHANGED clientVars)
       /\ SF_vars(Answer(n) /\ UNCHANGED serverVars)
       /\ SF_vars(ReceiveAck(n, TRUE) /\ UNCHANGED clientVars)

FairSpec == Spec /\ Fairness

-----------------------------------------------------------------------------
TypeOK ==
  /\ faults \in FaultProfiles
  /\ pkts \subseteq Packet
  /\ ackNet \subseteq Nat
  /\ sPc \in {"loop", "drainNew", "drain", "timers", "done", "failed"}
  /\ remain_size \in Nat /\ lastPacket \in BOOLEAN
  /\ seq_no \in Nat /\ base_seq_no \in Nat
  /\ sendOrder \in Seq(Nat)
  /\ seqnums_sent \subseteq Nat
  /\ DOMAIN data_sent \subseteq Nat
  /\ data_sent \in [DOMAIN data_sent -> Packet]
  /\ acks \subseteq Nat
  /\ base_ack_no \in Nat
  /\ DOMAIN data_received \subseteq Nat
  /\ data_received \in [DOMAIN data_received -> Data]
  /\ last_ack_no \in Nat \cup {NoNumber}
  /\ end \in BOOLEAN /\ cDone \in BOOLEAN
  /\ delivered \in Seq(Data)

\* The client has what packet n carried: written, kept for later, or the end.
Holds(n) ==
  \/ n < base_ack_no
  \/ n \in DOMAIN data_received
  \/ n = FinSeqno /\ end

\* A number the server sent and no longer waits for is one the client holds.
\* The server forgets the packet then, so nothing could bring it back.
CrossedOffIsHeld ==
  \A n \in 0 .. seq_no - 1 : n \notin Outstanding => Holds(n)

\* Every lookup updateTimers and receive_ack dereference without testing
\* finds its key: a number in sendOrder has a send time and a packet, and a
\* number an acknowledgement could match in seqnums_sent is in sendOrder.
LookupsSucceed ==
  /\ \A n \in Outstanding : n \in seqnums_sent /\ n \in DOMAIN data_sent
  /\ \A n \in seqnums_sent : InSendWindow(n) => n \in Outstanding

\* Whatever the server may still resend, the client would answer: it is in
\* the receive window or among the numbers acknowledged once more.
ResendIsAnswered ==
  \A n \in Outstanding : InReAckRange(n) \/ InRecvWindow(n)

-----------------------------------------------------------------------------
(* The parts of the inductive invariant. *)

\* The feeder stands at the segment that packet seq_no will carry.
FeederInStep ==
  sPc # "failed" =>
    IF seq_no <= FinSeqno
    THEN remain_size = FinSeqno - seq_no /\ lastPacket = FALSE
    ELSE seq_no = FinSeqno + 1 /\ remain_size = 0 /\ lastPacket = TRUE

\* Everything the server keeps about a packet agrees: sendOrder lists the
\* numbers not acknowledged, each once, base_seq_no is the lowest of them,
\* acks has the others from there on.
IndexesAgree ==
  /\ base_seq_no <= seq_no /\ seq_no <= base_seq_no + sendWindow
  /\ seq_no <= FinSeqno + 1
  /\ \A i, j \in 1 .. Len(sendOrder) : sendOrder[i] = sendOrder[j] => i = j
  /\ Outstanding \subseteq base_seq_no .. seq_no - 1
  /\ base_seq_no < seq_no => base_seq_no \in Outstanding
  /\ acks = (base_seq_no .. seq_no - 1) \ Outstanding
  /\ DOMAIN data_sent = Outstanding
  /\ \A n \in Outstanding : data_sent[n] = DataPacket(n, Segment(n))

\* seqnums_sent has every number in sendOrder and, since front() of an empty
\* list was used as a key, maybe one that was acknowledged before.
SendTimesCover ==
  /\ Outstanding \subseteq seqnums_sent
  /\ \A n \in seqnums_sent \ Outstanding : n < base_seq_no \/ sendWindow = 0
  /\ sPc \in {"drainNew", "drain", "timers"} => seq_no > 0 \/ sendWindow = 0
  /\ sPc = "done" => seq_no = FinSeqno + 1 /\ sendOrder = <<>>

\* The client wrote the first base_ack_no segments and keeps only segments
\* with a gap before them, each under its own number.
ClientInStep ==
  /\ base_ack_no <= FinSeqno /\ base_ack_no <= seq_no
  /\ delivered = SubSeq(File, 1, base_ack_no)
  /\ \A n \in DOMAIN data_received :
       /\ base_ack_no < n /\ n < base_ack_no + recvWindow
       /\ n < FinSeqno /\ n < seq_no
       /\ data_received[n] = Segment(n)
  /\ IF end THEN last_ack_no = FinSeqno /\ FinSeqno < seq_no
            ELSE last_ack_no = NoNumber
  /\ cDone = LoopEnds

\* What is in flight was sent: packets with their own segment, and
\* acknowledgements for what the client holds.
NetworkIsHonest ==
  /\ \A p \in pkts : p.seqno < seq_no /\ p = DataPacket(p.seqno, Segment(p.seqno))
  /\ \A a \in ackNet : a < seq_no /\ Holds(a)

Inv ==
  /\ TypeOK
  /\ FeederInStep
  /\ IndexesAgree
  /\ SendTimesCover
  /\ ClientInStep
  /\ NetworkIsHonest
  /\ CrossedOffIsHeld

-----------------------------------------------------------------------------
RT == INSTANCE ReliableTransfer
        WITH clientDone <- cDone, serverDone <- (sPc = "done")

\* The transfer is reliable: in order, each segment once, nobody reports
\* success early.
ImplementsReliableTransfer == RT!Spec

\* When no socket call fails, the client gets the whole file and stops.
ClientFinishes == ~SocketError => <>cDone

\* When no acknowledgement is lost, everything gets acknowledged for good.
AllAcknowledged ==
  "ackLoss" \notin faults => <>[](~HasNext /\ sendOrder = <<>>)

\* When no acknowledgement is lost, send_message returns and the child
\* reports "Finished operation".
ServerFinishes == "ackLoss" \notin faults => <>(sPc = "done")
=============================================================================
