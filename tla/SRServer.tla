------------------------------ MODULE SRServer ------------------------------
(***************************************************************************)
(* SelectiveRepeatServer: the server worker of the selective repeat        *)
(* technique.  send_message is a loop whose iterations send one packet, or *)
(* wait because the window is full, then drain the socket, then resend     *)
(* what timed out; sPc is the place in that loop:                          *)
(*   "loop"      at the head of one of the two while loops                 *)
(*   "drainNew"  draining acknowledgements after a new packet was sent     *)
(*   "drain"     draining while waiting, where a refused one ends the loop *)
(*   "timers"    about to call updateTimers, after a refused one           *)
(*   "done"      send_message returned with nothing left to acknowledge    *)
(*   "failed"    send_message returned because sendto failed               *)
(* hasData is true when a datagram has arrived, so draining may stop       *)
(* whenever what is in flight has not arrived yet.  The one millisecond    *)
(* timer is read on a clock the model has not: any packet may have timed   *)
(* out, but never before one that was sent earlier.                        *)
(***************************************************************************)
EXTENDS DataFeeder, Udp

CONSTANT sendWindow  \* server.in, line 2

ASSUME SendWindowAssumption == sendWindow \in Nat

VARIABLES
  sPc,
  seq_no,        \* next sequence number
  base_seq_no,   \* lowest number not acknowledged
  sendOrder,     \* numbers to be acknowledged, the one sent longest ago first
  seqnums_sent,  \* numbers that have a send time
  data_sent,     \* packets kept for resending, by number
  acks           \* acknowledged numbers above base_seq_no

serverVars ==
  <<sPc, seq_no, base_seq_no, sendOrder, seqnums_sent, data_sent, acks,
    remain_size, lastPacket>>

ServerInit ==
  /\ FeederInit
  /\ sPc = "loop"
  /\ seq_no = 0
  /\ base_seq_no = 0
  /\ sendOrder = <<>>
  /\ seqnums_sent = {}
  /\ data_sent = [n \in {} |-> DataPacket(0, Empty)]
  /\ acks = {}

Outstanding == {sendOrder[i] : i \in 1 .. Len(sendOrder)}

WindowOneOver == base_seq_no + sendWindow >= seq_no
WindowOpen == base_seq_no + sendWindow > seq_no

-----------------------------------------------------------------------------
(* The head of the loops. *)

\* Take a segment, send it (or drop it) and file it under every index.
SendPacket ==
  /\ GetNextDataSegment
  /\ LET packet == DataPacket(seq_no, NextSegment) IN
       /\ \E sent \in SUBSET {packet} : Transmit(sent)
       /\ data_sent' = [n \in DOMAIN data_sent \cup {seq_no} |->
                          IF n = seq_no THEN packet ELSE data_sent[n]]
  /\ seqnums_sent' = seqnums_sent \cup {seq_no}
  /\ sendOrder' = Append(sendOrder, seq_no)
  /\ seq_no' = seq_no + 1
  /\ sPc' = "drainNew"
  /\ UNCHANGED <<faults, ackNet, base_seq_no, acks>>

\* sendto failed: the segment was taken from the feeder, the worker gives up.
GiveUp ==
  /\ SocketError
  /\ GetNextDataSegment
  /\ sPc' = "failed"
  /\ UNCHANGED <<netVars, seq_no, base_seq_no, sendOrder, seqnums_sent,
                 data_sent, acks>>

SendNext == sPc = "loop" /\ HasNext /\ WindowOpen /\ SendPacket
SendFails == sPc = "loop" /\ HasNext /\ WindowOpen /\ GiveUp

\* Window full, or nothing left to send and not all of it acknowledged.
AwaitAcks ==
  /\ sPc = "loop"
  /\ IF HasNext THEN ~WindowOpen ELSE seqnums_sent # {}
  /\ sPc' = "drain"
  /\ UNCHANGED <<netVars, seq_no, base_seq_no, sendOrder, seqnums_sent,
                 data_sent, acks, remain_size, lastPacket>>

Finish ==
  /\ sPc = "loop" /\ ~HasNext /\ seqnums_sent = {}
  /\ sPc' = "done"
  /\ UNCHANGED <<netVars, seq_no, base_seq_no, sendOrder, seqnums_sent,
                 data_sent, acks, remain_size, lastPacket>>

-----------------------------------------------------------------------------
(* receive_ack.  It is only called when hasData holds, so recvfrom does    *)
(* not time out.                                                           *)

Draining == sPc \in {"drainNew", "drain"}

\* sendOrder.front().  The front of an empty std::list is its header node,
\* where libstdc++ keeps the size of the list: 0.
Front == IF sendOrder = <<>> THEN 0 ELSE Head(sendOrder)

\* The keys of seqnums_sent once seqnums_sent[sendOrder.front()] was
\* evaluated: operator[] adds a missing key.
TouchedKeys == seqnums_sent \cup {Front}

\* Only the first drain goes on after receive_ack returned false.
AfterRefusal == IF sPc = "drain" THEN "timers" ELSE sPc

InSendWindow(n) == n >= base_seq_no /\ n < base_seq_no + sendWindow

\* Cross a off, slide the window over what is acknowledged, drop every trace
\* of a.  seqnums_sent.erase(it) comes before three reads of it->first; the
\* freed node still holds the number.
CrossOff(a) ==
  /\ \E base \in base_seq_no .. seq_no :
       /\ base_seq_no .. base - 1 \subseteq acks \cup {a}
       /\ base \notin acks \cup {a}
       /\ base_seq_no' = base
       /\ acks' = (acks \cup {a}) \ (base_seq_no .. base - 1)
  /\ seqnums_sent' = TouchedKeys \ {a}
  /\ data_sent' = [n \in DOMAIN data_sent \ {a} |-> data_sent[n]]
  /\ \E i \in 1 .. Len(sendOrder) :
       /\ sendOrder[i] = a
       /\ sendOrder' = SubSeq(sendOrder, 1, i - 1)
                         \o SubSeq(sendOrder, i + 1, Len(sendOrder))

ReceiveAck(a, intact) ==
  /\ Draining
  /\ a \in ackNet
  /\ ackNet' \in AfterReading(ackNet, a)
  /\ IF intact /\ InSendWindow(a) /\ a \in TouchedKeys
     THEN CrossOff(a)
     ELSE /\ seqnums_sent' = TouchedKeys
          /\ UNCHANGED <<base_seq_no, acks, data_sent, sendOrder>>
  /\ sPc' = IF intact /\ InSendWindow(a) THEN sPc ELSE AfterRefusal
  /\ UNCHANGED <<faults, pkts, seq_no, remain_size, lastPacket>>

\* recvfrom failed with something else than a timeout.
ReceiveError ==
  /\ Draining /\ SocketError
  /\ seqnums_sent' = TouchedKeys
  /\ sPc' = AfterRefusal
  /\ UNCHANGED <<netVars, seq_no, base_seq_no, sendOrder, data_sent, acks,
                 remain_size, lastPacket>>

-----------------------------------------------------------------------------
(* updateTimers: the first k numbers of sendOrder have timed out; resend   *)
(* or drop each and move it to the back.  When sendto fails for the next   *)
(* one, the worker gives up.                                               *)

RotateForgetting(k) == SubSeq(sendOrder, k + 1, Len(sendOrder))
Rotate(k) ==
  SubSeq(sendOrder, k + 1, Len(sendOrder)) \o SubSeq(sendOrder, 1, k)

UpdateTimers(k, sent) ==
  /\ Draining \/ sPc = "timers"
  /\ Transmit({data_sent[sendOrder[i]] : i \in sent})
  /\ sendOrder' = Rotate(k)
  /\ \/ sPc' = "loop"
     \/ SocketError /\ k < Len(sendOrder) /\ sPc' = "failed"
  /\ UNCHANGED <<faults, ackNet, seq_no, base_seq_no, seqnums_sent,
                 data_sent, acks, remain_size, lastPacket>>

\* One call of updateTimers that resends the packet numbered n.
Resend(n) ==
  \E k \in 1 .. Len(sendOrder) : \E sent \in SUBSET (1 .. k) :
    /\ \E i \in sent : sendOrder[i] = n
    /\ UpdateTimers(k, sent)

\* The call of updateTimers that ends an iteration.
LeaveDrain ==
  \E k \in 0 .. Len(sendOrder) : \E sent \in SUBSET (1 .. k) : UpdateTimers(k, sent)

ServerNext ==
  \/ SendNext \/ SendFails \/ AwaitAcks \/ Finish
  \/ \E a \in ackNet, intact \in Intact : ReceiveAck(a, intact)
  \/ ReceiveError
  \/ LeaveDrain
=============================================================================
