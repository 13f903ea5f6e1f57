-------------------------------- MODULE Udp --------------------------------
(***************************************************************************)
(* The datagram service between one server child and its client, as        *)
(* utils/socketUtils.cpp uses it.  Each direction is the set of datagrams  *)
(* that may still be delivered, in any order; an identical datagram        *)
(* already in flight stands for both copies.                               *)
(*                                                                         *)
(* A data packet may always be lost: the workers themselves drop it with   *)
(* probability loss_prob before sendto.  What else goes wrong is the       *)
(* fault profile of the network, fixed for a behaviour:                    *)
(*   ackLoss      an acknowledgement may be lost                           *)
(*   duplication  a datagram may be delivered more than once               *)
(*   corruption   a datagram may arrive with a checksum that fails         *)
(*   socketError  sendto or recvfrom may fail                              *)
(* A loss in flight is decided when the datagram is sent; a datagram that  *)
(* was not lost may still take arbitrarily long.                           *)
(***************************************************************************)
EXTENDS Packets

CONSTANT FaultProfiles  \* the fault profiles a behaviour may run under

FaultKinds == {"ackLoss", "duplication", "corruption", "socketError"}

ASSUME FaultAssumption == FaultProfiles \subseteq SUBSET FaultKinds

VARIABLES
  faults,  \* the profile of this behaviour
  pkts,    \* data packets in flight, server to client
  ackNet   \* acknowledgements in flight, client to server

netVars == <<faults, pkts, ackNet>>

NetInit == faults \in FaultProfiles /\ pkts = {} /\ ackNet = {}

SocketError == "socketError" \in faults

\* send_packet succeeded for every packet of sent; the worker goes on in the
\* same way for a packet it dropped instead.
Transmit(sent) == pkts' = pkts \cup sent

\* What is left in flight after m is read: m is gone, unless it was
\* duplicated.
AfterReading(net, m) ==
  {net \ {m}} \cup (IF "duplication" \in faults THEN {net} ELSE {})

\* create_ack_packet(ackno) and send_ack_packet, whose result no client looks
\* at.
SendAck(ackno) ==
  \/ ackNet' = ackNet \cup {ackno}
  \/ "ackLoss" \in faults /\ UNCHANGED ackNet

\* The possible results of verifyChecksum on a datagram that was read.
Intact == IF "corruption" \in faults THEN BOOLEAN ELSE {TRUE}
=============================================================================
