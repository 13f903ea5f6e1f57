------------------------------ MODULE CCClient ------------------------------
(***************************************************************************)
(* SelectiveRepeatCCClient: the selective repeat client, which also limits *)
(* how many segments it keeps, and would acknowledge one it does not keep. *)
(***************************************************************************)
EXTENDS SRClient, FiniteSets

HasRoom == Cardinality(DOMAIN data_received) < recvWindow

CCAcceptData(packet) ==
  /\ SendAck(packet.seqno)
  /\ HandleWindow(IF HasRoom THEN Buffered(packet.seqno, packet.data)
                             ELSE data_received)
  /\ UNCHANGED <<end, last_ack_no>>

CCReceivePacket(packet, intact) ==
  /\ ~cDone
  /\ packet \in pkts
  /\ pkts' \in AfterReading(pkts, packet)
  /\ CASE ~intact -> Ignore
       [] intact /\ InReAckRange(packet.seqno) -> ReAck(packet)
       [] intact /\ InRecvWindow(packet.seqno) ->
            IF IsEmpty(packet) THEN AcceptFin(packet) ELSE CCAcceptData(packet)
       [] OTHER -> Ignore
  /\ cDone' = LoopEnds'
  /\ UNCHANGED faults

CCClientNext ==
  \E packet \in pkts, intact \in Intact : CCReceivePacket(packet, intact)
=============================================================================
