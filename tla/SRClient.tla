------------------------------ MODULE SRClient ------------------------------
(***************************************************************************)
(* SelectiveRepeatClient: the client worker of the selective repeat        *)
(* technique.  recv_message blocks in recvfrom with no timeout and handles *)
(* one packet per iteration.                                               *)
(***************************************************************************)
EXTENDS DataSink, Udp

CONSTANT recvWindow  \* client.in, line 5

ASSUME RecvWindowAssumption == recvWindow \in Nat

VARIABLES
  base_ack_no,    \* next number to hand to the sink
  data_received,  \* segments that wait for an earlier one, by number
  last_ack_no,    \* number of the empty packet, once received
  end,            \* the empty packet was received
  cDone           \* recv_message returned

clientVars ==
  <<base_ack_no, data_received, last_ack_no, end, cDone, delivered>>

NoNumber == -1  \* last_ack_no = 0xFFFFFFFF

ClientInit ==
  /\ SinkInit
  /\ base_ack_no = 0
  /\ data_received = [n \in {} |-> Empty]
  /\ last_ack_no = NoNumber
  /\ end = FALSE
  /\ cDone = FALSE

\* Numbers already handed to the sink that are acknowledged once more.
MinPackOneHigh ==
  IF base_ack_no > recvWindow THEN base_ack_no - recvWindow + 1 ELSE 0
MinPack == IF base_ack_no > recvWindow THEN base_ack_no - recvWindow ELSE 0

NotBelowMinPack(n) == n >= MinPack
NeverReAck(n) == FALSE
InReAckRange(n) == n < base_ack_no /\ n >= MinPack

InRecvWindow(n) == ~(n < base_ack_no) /\ ~(n >= base_ack_no + recvWindow)

\* handleWindow, for the buffer as it is with the new segment: feed the
\* segments that follow on from base_ack_no and forget them.
HandleWindow(buffer) ==
  \E base \in base_ack_no .. FinSeqno :
    /\ base_ack_no .. base - 1 \subseteq DOMAIN buffer
    /\ base \notin DOMAIN buffer
    /\ FeedNextData([i \in 1 .. base - base_ack_no |->
                       buffer[base_ack_no + i - 1]])
    /\ base_ack_no' = base
    /\ data_received' = [n \in DOMAIN buffer \ (base_ack_no .. base - 1) |->
                           buffer[n]]

\* insert keeps the segment a number already has.
Buffered(n, core_data) ==
  [m \in DOMAIN data_received \cup {n} |->
     IF m \in DOMAIN data_received THEN data_received[m] ELSE core_data]

AcceptData(packet) ==
  /\ SendAck(packet.seqno)
  /\ HandleWindow(Buffered(packet.seqno, packet.data))
  /\ UNCHANGED <<end, last_ack_no>>

AcceptFin(packet) ==
  /\ SendAck(packet.seqno)
  /\ end' = TRUE
  /\ last_ack_no' = packet.seqno
  /\ UNCHANGED <<base_ack_no, data_received, delivered>>

Ignore ==
  UNCHANGED <<ackNet, base_ack_no, data_received, end, last_ack_no, delivered>>

ReAck(packet) ==
  /\ SendAck(packet.seqno)
  /\ UNCHANGED <<base_ack_no, data_received, end, last_ack_no, delivered>>

\* The condition of the loop of recv_message, negated.
EndsAtEmptyPacket == end
LoopEnds == end /\ base_ack_no = last_ack_no

ReceivePacket(packet, intact) ==
  /\ ~cDone
  /\ packet \in pkts
  /\ pkts' \in AfterReading(pkts, packet)
  /\ CASE ~intact -> Ignore
       [] intact /\ InReAckRange(packet.seqno) -> ReAck(packet)
       [] intact /\ InRecvWindow(packet.seqno) ->
            IF IsEmpty(packet) THEN AcceptFin(packet) ELSE AcceptData(packet)
       [] OTHER -> Ignore
  /\ cDone' = LoopEnds'
  /\ UNCHANGED faults

ClientNext ==
  \E packet \in pkts, intact \in Intact : ReceivePacket(packet, intact)
=============================================================================
