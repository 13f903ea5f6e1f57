----------------------------- MODULE GBNServer -----------------------------
(***************************************************************************)
(* GoBackServer: the server worker of go-back-N.  send_message is the same *)
(* loop as in SelectiveRepeatServer, with one timer for the window; sPc is *)
(* the place in it:                                                        *)
(*   "loop"      at the head of one of the two while loops                 *)
(*   "drainNew"  draining acknowledgements after a new packet was sent     *)
(*   "drain"     draining while waiting, where a refused one ends the loop *)
(*   "timers"    about to call updateTimer, after a refused one            *)
(*   "done"      send_message returned with nothing left to acknowledge    *)
(*   "failed"    send_message returned because sendto failed               *)
(* hasData may not see what is still in flight, and the clock of the one   *)
(* millisecond timer is not modelled: it may have run out at any call.     *)
(***************************************************************************)
EXTENDS DataFeeder, Udp

CONSTANT sendWindow  \* server.in, line 2

ASSUME SendWindowAssumption == sendWindow \in Nat

VARIABLES
  sPc,
  seq_no,         \* next sequence number
  base_seq_no,    \* lowest number not acknowledged
  unacked_packet  \* the packets from base_seq_no on, in order

serverVars ==
  <<sPc, seq_no, base_seq_no, unacked_packet, remain_size, lastPacket>>

ServerInit ==
  /\ FeederInit
  /\ sPc = "loop"
  /\ seq_no = 0
  /\ base_seq_no = 0
  /\ unacked_packet = <<>>

WindowOneOver == base_seq_no + sendWindow >= seq_no
WindowOpen == base_seq_no + sendWindow > seq_no

SendNext ==
  /\ sPc = "loop" /\ HasNext /\ WindowOpen
  /\ GetNextDataSegment
  /\ LET packet == DataPacket(seq_no, NextSegment) IN
       /\ \E sent \in SUBSET {packet} : Transmit(sent)
       /\ unacked_packet' = Append(unacked_packet, packet)
  /\ seq_no' = seq_no + 1
  /\ sPc' = "drainNew"
  /\ UNCHANGED <<faults, ackNet, base_seq_no>>

\* sendto failed: the segment was taken from the feeder, the worker gives up.
SendFails ==
  /\ sPc = "loop" /\ HasNext /\ WindowOpen
  /\ SocketError
  /\ GetNextDataSegment
  /\ sPc' = "failed"
  /\ UNCHANGED <<netVars, seq_no, base_seq_no, unacked_packet>>

\* Window full, or nothing left to send and not all of it acknowledged.
AwaitAcks ==
  /\ sPc = "loop"
  /\ IF HasNext THEN ~WindowOpen ELSE unacked_packet # <<>>
  /\ sPc' = "drain"
  /\ UNCHANGED <<netVars, seq_no, base_seq_no, unacked_packet, remain_size,
                 lastPacket>>

Finish ==
  /\ sPc = "loop" /\ ~HasNext /\ unacked_packet = <<>>
  /\ sPc' = "done"
  /\ UNCHANGED <<netVars, seq_no, base_seq_no, unacked_packet, remain_size,
                 lastPacket>>

-----------------------------------------------------------------------------
(* receive_ack, only called when hasData holds. *)

Draining == sPc \in {"drainNew", "drain"}

\* Only the first drain goes on after receive_ack returned false.
AfterRefusal == IF sPc = "drain" THEN "timers" ELSE sPc

OneByOne(n) == n = base_seq_no
InSendWindow(n) == n >= base_seq_no /\ n < base_seq_no + sendWindow

\* unacked_packet.erase(unacked_packet.begin()) once for each number from
\* base_seq_no to a.  Erasing from an empty vector would be undefined; no
\* acknowledgement is for a packet that was not sent (PopsWhatWasSent).
PopOneTooMany(a) ==
  /\ base_seq_no' = a + 1
  /\ unacked_packet' =
       SubSeq(unacked_packet, a - base_seq_no + 3, Len(unacked_packet))
PopThrough(a) ==
  /\ base_seq_no' = a + 1
  /\ unacked_packet' =
       SubSeq(unacked_packet, a - base_seq_no + 2, Len(unacked_packet))

ReceiveAck(a, intact) ==
  /\ Draining
  /\ a \in ackNet
  /\ ackNet' \in AfterReading(ackNet, a)
  /\ IF intact /\ InSendWindow(a)
     THEN PopThrough(a) /\ UNCHANGED sPc
     ELSE sPc' = AfterRefusal /\ UNCHANGED <<base_seq_no, unacked_packet>>
  /\ UNCHANGED <<faults, pkts, seq_no, remain_size, lastPacket>>

\* recvfrom failed with something else than a timeout.
ReceiveError ==
  /\ Draining /\ SocketError
  /\ sPc' = AfterRefusal
  /\ UNCHANGED <<netVars, seq_no, base_seq_no, unacked_packet, remain_size,
                 lastPacket>>

-----------------------------------------------------------------------------
(* updateTimer: nothing, or the timer ran out and every packet is sent     *)
(* again or dropped, up to one for which sendto fails.  After a new packet *)
(* send_message does not look at the result.                               *)

AfterTimer(ok) == IF ok \/ sPc = "drainNew" THEN "loop" ELSE "failed"

UpdateTimer(k, sent) ==
  /\ Draining \/ sPc = "timers"
  /\ Transmit({unacked_packet[i] : i \in sent})
  /\ \/ k \in {0, Len(unacked_packet)} /\ sPc' = AfterTimer(TRUE)
     \/ SocketError /\ k < Len(unacked_packet) /\ sPc' = AfterTimer(FALSE)
  /\ UNCHANGED <<faults, ackNet, seq_no, base_seq_no, unacked_packet,
                 remain_size, lastPacket>>

LeaveDrain ==
  \E k \in 0 .. Len(unacked_packet) :
    \E sent \in SUBSET (1 .. k) : UpdateTimer(k, sent)

\* One call of updateTimer that sends every packet again.
ResendAll == UpdateTimer(Len(unacked_packet), DOMAIN unacked_packet)

ServerNext ==
  \/ SendNext \/ SendFails \/ AwaitAcks \/ Finish
  \/ \E a \in ackNet, intact \in Intact : ReceiveAck(a, intact)
  \/ ReceiveError
  \/ LeaveDrain
=============================================================================
