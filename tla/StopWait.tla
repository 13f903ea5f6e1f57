------------------------------ MODULE StopWait ------------------------------
(***************************************************************************)
(* One transfer with stop and wait: a server child, its client and the     *)
(* datagrams between them.                                                 *)
(***************************************************************************)
EXTENDS SWServer, SWClient

vars == <<serverVars, clientVars, netVars>>

Init == ServerInit /\ ClientInit /\ NetInit

ServerStep == ServerNext /\ UNCHANGED clientVars
ClientStep == ClientNext /\ UNCHANGED serverVars

Next == ServerStep \/ ClientStep

Spec == Init /\ [][Next]_vars

Numbers == 0 .. FinSeqno

\* The client reads packet n, and the acknowledgement it answers with, if
\* any, is not lost.
Answer(n) ==
  /\ ReceivePacket(DataPacket(n, Segment(n)), TRUE)
  /\ last_pack' # NoAck => last_pack' \in ackNet'

\* The server keeps running; rand() does not drop the same packet for ever,
\* and a packet or an acknowledgement sent again and again arrives intact
\* now and then.
Fairness ==
  /\ WF_vars(ServerStep)
  /\ SF_vars(Retransmit({packet}) /\ UNCHANGED clientVars)
  /\ \A n \in Numbers :
       /\ SF_vars(Answer(n) /\ UNCHANGED serverVars)
       /\ SF_vars(ReceiveAck(n, TRUE) /\ UNCHANGED clientVars)

FairSpec == Spec /\ Fairness

-----------------------------------------------------------------------------
TypeOK ==
  /\ faults \in FaultProfiles
  /\ pkts \subseteq Packet
  /\ ackNet \subseteq Nat
  /\ sPc \in {"feed", "wait", "rewait", "done", "failed"}
  /\ remain_size \in Nat /\ lastPacket \in BOOLEAN
  /\ seq_no \in Nat
  /\ packet \in Packet
  /\ ackNo \in Nat
  /\ last_pack \in Nat \cup {NoAck}
  /\ cDone \in BOOLEAN
  /\ delivered \in Seq(Data)

\* The two ends never drift apart: the client waits for the packet the server
\* is sending or, when its acknowledgement is not back yet, for the next one;
\* the server never moves on from a packet the client does not have, however
\* late an old acknowledgement or a repeated one turns up.
InLockStep ==
  /\ seq_no <= ackNo /\ ackNo <= seq_no + 1
  /\ sPc \in {"feed", "done"} => ackNo = seq_no
  /\ \A a \in ackNet : a < ackNo

-----------------------------------------------------------------------------
(* The inductive invariant: InLockStep, and what it takes to keep it. *)

\* Segments taken from the feeder so far.
Handed == IF Waiting THEN seq_no + 1 ELSE seq_no

\* The feeder is where seq_no says, and what is sent again is its segment.
FeederInStep ==
  /\ seq_no <= FinSeqno + 1
  /\ sPc # "failed" => FeederAt(Handed)
  /\ Waiting => seq_no <= FinSeqno /\ packet = DataPacket(seq_no, Segment(seq_no))
  /\ sPc = "done" => seq_no = FinSeqno + 1

\* Every packet in flight carries its own segment, and none is ahead of the
\* server.
PacketsInStep ==
  /\ \A p \in pkts :
       /\ p = DataPacket(p.seqno, Segment(p.seqno))
       /\ p.seqno <= seq_no /\ p.seqno <= FinSeqno
  /\ sPc \in {"feed", "done"} => \A p \in pkts : p.seqno < seq_no

\* What the client wrote and whether it stopped follow from ackNo.
ClientInStep ==
  /\ ackNo <= FinSeqno + 1
  /\ last_pack = ackNo - 1
  /\ cDone <=> ackNo = FinSeqno + 1
  /\ delivered = SubSeq(File, 1, IF cDone THEN FinSeqno ELSE ackNo)

\* The whole invariant: the feeder, what is in flight, the packet kept for
\* sending again and what the client wrote all agree on the two numbers.
Inv == TypeOK /\ InLockStep /\ FeederInStep /\ PacketsInStep /\ ClientInStep

-----------------------------------------------------------------------------
RT == INSTANCE ReliableTransfer
        WITH clientDone <- cDone, serverDone <- (sPc = "done")

\* The transfer is reliable: in order, each segment once, nobody reports
\* success early.
ImplementsReliableTransfer == RT!Spec

\* No socket call fails: the client gets the whole file and stops, whatever
\* is lost, duplicated or damaged on the way.
ClientFinishes == ~SocketError => <>cDone

\* Nothing is lost or damaged on the way back: send_message returns.
ServerFinishes == faults \subseteq {"duplication"} => <>(sPc = "done")
=============================================================================
