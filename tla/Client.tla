------------------------------- MODULE Client -------------------------------
(***************************************************************************)
(* Client::start, for every run of the program: bind the port, send the    *)
(* request until something arrives, then let the worker take over.  cPc is *)
(* where a client is:                                                      *)
(*   "off"      not started                                                *)
(*   "request"  about to send the request                                  *)
(*   "wait"     in recv, peeking, for up to 20 s                           *)
(*   "receive"  in recv_message of the worker, with no timeout             *)
(*   "done"     recv_message returned: "Finished Reception !"              *)
(*   "gaveup"   no answer to any transmission of the request               *)
(*   "failed"   the port is in use, or a socket call failed                *)
(*   "killed"                                                              *)
(***************************************************************************)
EXTENDS RequestNet

VARIABLES
  cPc,
  ntry,       \* transmissions of the request
  ackNo,      \* number of the packet the worker waits for
  last_pack,  \* the last acknowledgement sent, NoAck before the first
  delivered   \* segments written to the client's file

clientVars == <<cPc, ntry, ackNo, last_pack, delivered>>

NoAck == -1

ClientInit ==
  /\ cPc = [c \in Clients |-> "off"]
  /\ ntry = [c \in Clients |-> 0]
  /\ ackNo = [c \in Clients |-> 0]
  /\ last_pack = [c \in Clients |-> NoAck]
  /\ delivered = [c \in Clients |-> <<>>]

Bound(c) == cPc[c] \in {"request", "wait", "receive"}

PortFree(c) == ~\E b \in Clients \ {c} : Address(b) = Address(c) /\ Bound(b)

MoveTo(c, pc) == cPc' = [cPc EXCEPT ![c] = pc]

\* socket and bind.
Start(c) ==
  /\ cPc[c] = "off" /\ c \in deployment.run
  /\ \/ PortFree(c) /\ MoveTo(c, "request")
     \/ (~PortFree(c) \/ SocketError) /\ MoveTo(c, "failed")
  /\ UNCHANGED <<ntry, ackNo, last_pack, delivered, sessionNetVars>>

\* The request is sent, and arrives or is lost.
SendRequest(c) ==
  /\ cPc[c] = "request"
  /\ ntry' = [ntry EXCEPT ![c] = @ + 1]
  /\ \/ requests' = [requests EXCEPT ![c] = @ + 1]
     \/ "requestLoss" \in deployment.faults /\ UNCHANGED requests
  /\ MoveTo(c, "wait")
  /\ UNCHANGED <<ackNo, last_pack, delivered>>
  /\ UNCHANGED <<deployment, sockets, pkts, acks>>

SendRequestFails(c) ==
  /\ cPc[c] = "request" /\ SocketError
  /\ MoveTo(c, "failed")
  /\ UNCHANGED <<ntry, ackNo, last_pack, delivered, sessionNetVars>>

MayRetryOneMore(c) == ntry[c] <= RETRIES
MayRetry(c) == ntry[c] < RETRIES

\* 20 s without an answer, or recv fails.
ResponseTimeout(c) ==
  /\ cPc[c] = "wait"
  /\ MoveTo(c, IF MayRetry(c) THEN "request" ELSE "gaveup")
  /\ UNCHANGED <<ntry, ackNo, last_pack, delivered, sessionNetVars>>

InFlightTo(c) == {p \in pkts : p.to = Address(c)}

\* recv with MSG_PEEK sees a packet, from whatever child, and leaves it to
\* the worker.
SeesAnswer(c) ==
  /\ cPc[c] = "wait"
  /\ InFlightTo(c) # {}
  /\ MoveTo(c, "receive")
  /\ UNCHANGED <<ntry, ackNo, last_pack, delivered, sessionNetVars>>

ExpectsOrEarlier(c, p) == p.seqno <= ackNo[c]
Expects(c, p) == p.seqno = ackNo[c]

Accept(c, p) ==
  /\ SendAck(p.from, ackNo[c])
  /\ last_pack' = [last_pack EXCEPT ![c] = ackNo[c]]
  /\ ackNo' = [ackNo EXCEPT ![c] = @ + 1]
  /\ delivered' = [delivered EXCEPT ![c] = @ \o p.data]
  /\ IF p.data = <<>> THEN MoveTo(c, "done") ELSE UNCHANGED cPc

RepeatsNothing(c, p) == UNCHANGED acks

\* The last acknowledgement once more, whoever that one was for.
RepeatLastAck(c, p) ==
  IF last_pack[c] = NoAck THEN UNCHANGED acks ELSE SendAck(p.from, last_pack[c])

Refuse(c, p) ==
  /\ RepeatLastAck(c, p)
  /\ UNCHANGED <<cPc, ackNo, last_pack, delivered>>

\* The worker reads a packet from any source.
ReceivePacket(c, p) ==
  /\ cPc[c] = "receive"
  /\ p \in InFlightTo(c)
  /\ pkts' = pkts \ {p}
  /\ IF Expects(c, p) THEN Accept(c, p) ELSE Refuse(c, p)
  /\ UNCHANGED <<ntry, deployment, requests, sockets>>

Kill(c) ==
  /\ "kill" \in deployment.faults
  /\ Bound(c)
  /\ MoveTo(c, "killed")
  /\ UNCHANGED <<ntry, ackNo, last_pack, delivered, sessionNetVars>>

ClientNext == \E c \in Clients :
  \/ Start(c) \/ SendRequest(c) \/ SendRequestFails(c)
  \/ ResponseTimeout(c) \/ SeesAnswer(c) \/ Kill(c)
  \/ \E p \in pkts : ReceivePacket(c, p)
=============================================================================
