------------------------------ MODULE SWClient ------------------------------
(***************************************************************************)
(* StopWaitClient: the client worker of stop and wait.  It blocks in       *)
(* recvfrom with no timeout and answers every packet once it answered one. *)
(***************************************************************************)
EXTENDS DataSink, Udp

VARIABLES
  ackNo,      \* number of the packet it waits for
  last_pack,  \* the last acknowledgement sent, NoAck before the first
  cDone       \* end: recv_message returned

clientVars == <<ackNo, last_pack, cDone, delivered>>

NoAck == -1  \* ~sentOne

ClientInit == SinkInit /\ ackNo = 0 /\ last_pack = NoAck /\ cDone = FALSE

AcceptsAll(p) == TRUE
IsExpected(p) == p.seqno = ackNo

Accept(p) ==
  /\ last_pack' = ackNo
  /\ ackNo' = ackNo + 1
  /\ SendAck(ackNo)
  /\ IF IsEmpty(p)
     THEN cDone' = TRUE /\ UNCHANGED delivered
     ELSE FeedNextData(<<p.data>>) /\ UNCHANGED cDone

\* The last acknowledgement once more, for the packet it was for may be here
\* again because that acknowledgement was lost.
RepeatsNothing == UNCHANGED ackNet
RepeatLastAck ==
  IF last_pack = NoAck THEN UNCHANGED ackNet ELSE SendAck(last_pack)

Refuse == RepeatLastAck /\ UNCHANGED clientVars

ReceivePacket(p, intact) ==
  /\ ~cDone
  /\ p \in pkts
  /\ pkts' \in AfterReading(pkts, p)
  /\ IF intact /\ IsExpected(p) THEN Accept(p) ELSE Refuse
  /\ UNCHANGED faults

ClientNext == \E p \in pkts, intact \in Intact : ReceivePacket(p, intact)
=============================================================================
