----------------------------- MODULE GBNClient -----------------------------
(***************************************************************************)
(* GoBackClient: the client worker of go-back-N.  It blocks in recvfrom    *)
(* with no timeout and answers a packet only when it is the next one.      *)
(***************************************************************************)
EXTENDS DataSink, Udp

VARIABLES
  base_ack_no,  \* number of the packet it waits for
  cDone         \* end: recv_message returned

clientVars == <<base_ack_no, cDone, delivered>>

ClientInit == SinkInit /\ base_ack_no = 0 /\ cDone = FALSE

NotBeforeNext(packet) == packet.seqno >= base_ack_no
IsNext(packet) == packet.seqno = base_ack_no

Accept(packet) ==
  /\ base_ack_no' = base_ack_no + 1
  /\ SendAck(packet.seqno)
  /\ IF IsEmpty(packet)
     THEN cDone' = TRUE /\ UNCHANGED delivered
     ELSE FeedNextData(<<packet.data>>) /\ UNCHANGED cDone

ReceivePacket(packet, intact) ==
  /\ ~cDone
  /\ packet \in pkts
  /\ pkts' \in AfterReading(pkts, packet)
  /\ IF intact /\ IsNext(packet)
     THEN Accept(packet)
     ELSE UNCHANGED <<clientVars, ackNet>>
  /\ UNCHANGED faults

ClientNext ==
  \E packet \in pkts, intact \in Intact : ReceivePacket(packet, intact)
=============================================================================
