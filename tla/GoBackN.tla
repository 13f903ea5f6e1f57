------------------------------ MODULE GoBackN ------------------------------
(***************************************************************************)
(* One transfer with go-back-N: a server child, its client and the         *)
(* datagrams between them.                                                 *)
(***************************************************************************)
EXTENDS GBNServer, GBNClient

vars == <<serverVars, clientVars, netVars>>

Init == ServerInit /\ ClientInit /\ NetInit

ServerStep == ServerNext /\ UNCHANGED clientVars
ClientStep == ClientNext /\ UNCHANGED serverVars

Next == ServerStep \/ ClientStep

Spec == Init /\ [][Next]_vars

Numbers == 0 .. FinSeqno

\* The client reads packet n, and its acknowledgement, if there is one, is not
\* lost.
Answer(n) ==
  /\ ReceivePacket(DataPacket(n, Segment(n)), TRUE)
  /\ n = base_ack_no => n \in ackNet'

\* The server keeps running, and it drains the socket faster than datagrams
\* arrive; the clock passes and rand() lets the whole window through now and
\* then; what is sent again and again arrives intact now and then.
Fairness ==
  /\ WF_vars(ServerStep)
  /\ WF_vars(LeaveDrain /\ UNCHANGED clientVars)
  /\ SF_vars(ResendAll /\ UNCHANGED clientVars)
  /\ \A n \in Numbers :
       /\ SF_vars(Answer(n) /\ UNCHANGED serverVars)
       /\ SF_vars(ReceiveAck(n, TRUE) /\ UNCHANGED clientVars)

FairSpec == Spec /\ Fairness

-----------------------------------------------------------------------------
TypeOK ==
  /\ faults \in FaultProfiles
  /\ pkts \subseteq Packet
  /\ ackNet \subseteq Nat
  /\ sPc \in {"loop", "drainNew", "drain", "timers", "done", "failed"}
  /\ remain_size \in Nat /\ lastPacket \in BOOLEAN
  /\ seq_no \in Nat /\ base_seq_no \in Nat
  /\ unacked_packet \in Seq(Packet)
  /\ base_ack_no \in Nat
  /\ cDone \in BOOLEAN
  /\ delivered \in Seq(Data)

\* The server's window is the packets from base_seq_no to seq_no - 1 with
\* their own segments, never more than sendWindow of them, and everything
\* below it was accepted by the client: what a cumulative acknowledgement
\* erases is never needed again.
WindowIsUnacknowledged ==
  /\ Len(unacked_packet) = seq_no - base_seq_no
  /\ Len(unacked_packet) <= sendWindow
  /\ \A i \in DOMAIN unacked_packet :
       unacked_packet[i] =
         DataPacket(base_seq_no + i - 1, Segment(base_seq_no + i - 1))
  /\ base_seq_no <= base_ack_no /\ base_ack_no <= seq_no

\* An acknowledgement that receive_ack accepts, old, repeated or delayed as it
\* may be, erases no more packets than unacked_packet has.
PopsWhatWasSent ==
  \A a \in ackNet : InSendWindow(a) => a - base_seq_no < Len(unacked_packet)

-----------------------------------------------------------------------------
(* The inductive invariant: WindowIsUnacknowledged, and what it takes to    *)
(* keep it.                                                                *)

\* The feeder is where seq_no says; the server is done only after the empty
\* packet, and everything before it, was acknowledged.
FeederInStep ==
  /\ seq_no <= FinSeqno + 1
  /\ sPc # "failed" => FeederAt(seq_no)
  /\ sPc = "done" => seq_no = FinSeqno + 1 /\ base_seq_no = seq_no

\* Every packet in flight was sent and carries its own segment, every
\* acknowledgement is for a packet the client accepted.
NetworkIsHonest ==
  /\ \A p \in pkts : p = DataPacket(p.seqno, Segment(p.seqno)) /\ p.seqno < seq_no
  /\ \A a \in ackNet : a < base_ack_no

\* What the client wrote and whether it stopped follow from base_ack_no.
ClientInStep ==
  /\ base_ack_no <= FinSeqno + 1
  /\ cDone <=> base_ack_no = FinSeqno + 1
  /\ delivered = SubSeq(File, 1, IF cDone THEN FinSeqno ELSE base_ack_no)

\* The whole invariant: the feeder, what is in flight, the window and what the
\* client wrote all agree on seq_no, base_seq_no and base_ack_no.
Inv ==
  /\ TypeOK /\ WindowIsUnacknowledged
  /\ FeederInStep /\ NetworkIsHonest /\ ClientInStep

-----------------------------------------------------------------------------
RT == INSTANCE ReliableTransfer
        WITH clientDone <- cDone, serverDone <- (sPc = "done")

\* The transfer is reliable: in order, each segment once, nobody reports
\* success early.
ImplementsReliableTransfer == RT!Spec

\* No acknowledgement is lost or damaged: both ends finish, whatever happens
\* to the packets.
BothFinish == faults \subseteq {"duplication"} => <>(cDone /\ sPc = "done")

\* The client gets the whole file and stops.
ClientFinishes == <>cDone
=============================================================================
