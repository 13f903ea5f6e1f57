------------------------------ MODULE SWServer ------------------------------
(***************************************************************************)
(* StopWaitServer: the server worker of stop and wait.  send_message sends *)
(* a packet and waits in recvfrom for its acknowledgement; sPc is where:   *)
(*   "feed"    at the head of the loop                                     *)
(*   "wait"    waiting in send_message, after the first transmission       *)
(*   "rewait"  waiting in resend_packet, after a retransmission            *)
(*   "done"    send_message returned with everything acknowledged          *)
(*   "failed"  send_message returned early                                 *)
(* The waits end after one millisecond, a clock the model has not: a       *)
(* timeout may come before any acknowledgement.                            *)
(***************************************************************************)
EXTENDS DataFeeder, Udp

VARIABLES
  sPc,
  seq_no,  \* number of the packet being sent
  packet   \* the packet to send again

serverVars == <<sPc, seq_no, packet, remain_size, lastPacket>>

ServerInit ==
  /\ FeederInit
  /\ sPc = "feed"
  /\ seq_no = 0
  /\ packet = DataPacket(0, Empty)

SendNext ==
  /\ sPc = "feed" /\ HasNext
  /\ GetNextDataSegment
  /\ packet' = DataPacket(seq_no, NextSegment)
  /\ \/ /\ \E sent \in SUBSET {packet'} : Transmit(sent)
        /\ sPc' = "wait"
     \/ SocketError /\ sPc' = "failed" /\ UNCHANGED pkts
  /\ UNCHANGED <<faults, ackNet, seq_no>>

Finish ==
  /\ sPc = "feed" /\ ~HasNext
  /\ sPc' = "done"
  /\ UNCHANGED <<netVars, seq_no, packet, remain_size, lastPacket>>

Waiting == sPc \in {"wait", "rewait"}

\* A timeout, or inside resend_packet any other failure of recvfrom, leads
\* to the next turn of the loop of resend_packet.
Retransmit(sent) ==
  /\ Waiting
  /\ Transmit(sent)
  /\ sPc' = "rewait"
  /\ UNCHANGED <<faults, ackNet, seq_no, packet, remain_size, lastPacket>>

\* The first wait gives up when recvfrom fails, both when sendto does.
GiveUp ==
  /\ Waiting /\ SocketError
  /\ sPc' = "failed"
  /\ UNCHANGED <<netVars, seq_no, packet, remain_size, lastPacket>>

AnyAck(a) == TRUE
AckOfNext(a) == a = seq_no + 1
IsAwaited(a) == a = seq_no

\* Whatever is not the awaited acknowledgement is read and waited past.
ReceiveAck(a, intact) ==
  /\ Waiting
  /\ a \in ackNet
  /\ ackNet' \in AfterReading(ackNet, a)
  /\ IF intact /\ IsAwaited(a)
     THEN seq_no' = seq_no + 1 /\ sPc' = "feed"
     ELSE UNCHANGED <<seq_no, sPc>>
  /\ UNCHANGED <<faults, pkts, packet, remain_size, lastPacket>>

ServerNext ==
  \/ SendNext \/ Finish \/ GiveUp
  \/ \E sent \in SUBSET {packet} : Retransmit(sent)
  \/ \E a \in ackNet, intact \in Intact : ReceiveAck(a, intact)
=============================================================================
