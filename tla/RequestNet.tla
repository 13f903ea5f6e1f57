----------------------------- MODULE RequestNet -----------------------------
(***************************************************************************)
(* What the server, its children and all clients share: the datagrams      *)
(* between them and the deployment, which is fixed for a behaviour: who is *)
(* run, at which address (host and port) each client binds and which file  *)
(* it asks for.  Two clients at one address cannot run at the same time.   *)
(*                                                                         *)
(* The workers are stop and wait.  Their packets and acknowledgements      *)
(* are told apart only by the socket they go to and come from: a child has *)
(* a socket of its own, and answers go to the sender of the packet.        *)
(*                                                                         *)
(* A data packet may always be lost, by the child itself.  The profile     *)
(* says what else goes wrong:                                              *)
(*   requestLoss  a request may be lost                                    *)
(*   ackLoss      an acknowledgement may be lost                           *)
(*   socketError  a call of socket, sendto, recvfrom or fork may fail      *)
(*   interrupt    SIGINT may end the server, with any of its children      *)
(*   kill         a client may be killed                                   *)
(* A packet nobody reads any more stays in the set: reading is never       *)
(* forced, so that covers its loss too.                                    *)
(***************************************************************************)
EXTENDS Integers, Sequences

CONSTANTS
  Data,            \* contents of the segments
  Clients,         \* runs of the client program
  Files,           \* the server's directory: segments of each file, by name
  Deployments,     \* records: addr and wants by client, run, faults
  RETRIES          \* transmissions of a request (3 in definitions.h)

ASSUME FilesAssumption == \A f \in DOMAIN Files : Files[f] \in Seq(Data)
ASSUME DeploymentAssumption == \A d \in Deployments : d.run \subseteq Clients
ASSUME RetriesAssumption == RETRIES \in Nat \ {0}

VARIABLES
  deployment,
  requests,  \* for each client, copies of its request in flight
  sockets,   \* children whose socket is open
  pkts,      \* data packets in flight: from a child, to an address
  acks       \* acknowledgements in flight, to a child

sessionNetVars == <<deployment, requests, sockets, pkts, acks>>

SessionNetInit ==
  /\ deployment \in Deployments
  /\ requests = [c \in Clients |-> 0]
  /\ sockets = {} /\ pkts = {} /\ acks = {}

SocketError == "socketError" \in deployment.faults

Address(c) == deployment.addr[c]
FileName(c) == deployment.wants[c]

\* close of these children's sockets; what was still on its way to them is
\* dropped.
Close(ks) ==
  /\ sockets' = sockets \ ks
  /\ acks' = {a \in acks : a.to \notin ks}

\* An acknowledgement for child k, dropped when its socket is closed.
SendAck(k, ackno) ==
  \/ acks' = acks \cup {[to |-> j, ackno |-> ackno] : j \in sockets \cap {k}}
  \/ "ackLoss" \in deployment.faults /\ UNCHANGED acks
=============================================================================
