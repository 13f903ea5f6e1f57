------------------------------- MODULE Server -------------------------------
(***************************************************************************)
(* Server::start: a listener that forks one child for each request it      *)
(* reads, and the children, numbered as they are forked.  A child knows    *)
(* the address and the file of its request, nothing of other requests of   *)
(* the same client.  pc is where a child is:                               *)
(*   "sending"  in send_message: packet seqno is not acknowledged          *)
(*   "done"     send_message returned with everything acknowledged         *)
(*   "failed"   it ended early, a socket call failed                       *)
(*   "invalid"  it ended, there is no such file                            *)
(*   "closed"   it ended, interrupted                                      *)
(***************************************************************************)
EXTENDS RequestNet

VARIABLES
  listening,
  children

listenerVars == <<listening, children>>

ListenerInit == listening = TRUE /\ children = <<>>

Child(c, pc) == [client |-> c, seqno |-> 0, pc |-> pc]

\* How a new child starts: it opens a socket, then the file.
ChildStarts(c) ==
  {IF FileName(c) \in DOMAIN Files THEN "sending" ELSE "invalid"}
    \cup (IF SocketError THEN {"failed"} ELSE {})

\* A request is read and served by a new child; when fork fails it is lost.
ReceiveRequest(c) ==
  /\ listening
  /\ requests[c] > 0
  /\ requests' = [requests EXCEPT ![c] = @ - 1]
  /\ \/ \E pc \in ChildStarts(c) :
          /\ children' = Append(children, Child(c, pc))
          /\ sockets' = sockets \cup
                          {k \in {Len(children')} : pc = "sending"}
     \/ SocketError /\ UNCHANGED <<children, sockets>>
  /\ UNCHANGED <<deployment, pkts, acks, listening>>

\* receive_packet exits when recvfrom fails; the children live on.
ListenerFails ==
  /\ listening /\ SocketError
  /\ listening' = FALSE
  /\ UNCHANGED <<sessionNetVars, children>>

Sending(k) == children[k].pc = "sending"

\* my_handler, which the children inherit: those in ks got the signal too.
Interrupt(ks) ==
  /\ "interrupt" \in deployment.faults
  /\ listening
  /\ \A k \in ks : Sending(k)
  /\ listening' = FALSE
  /\ children' = [k \in DOMAIN children |->
                    IF k \in ks THEN [children[k] EXCEPT !.pc = "closed"]
                                ELSE children[k]]
  /\ Close(ks)
  /\ UNCHANGED <<deployment, requests, pkts>>

-----------------------------------------------------------------------------
\* The child's worker.

FileOf(k) == Files[FileName(children[k].client)]
FinOf(k) == Len(FileOf(k))

\* The packet the child sends; data is the segments it holds, none in the
\* last one.
PacketOf(k) ==
  LET n == children[k].seqno
  IN  [from  |-> k,
       to    |-> Address(children[k].client),
       seqno |-> n,
       data  |-> IF n < FinOf(k) THEN <<FileOf(k)[n + 1]>> ELSE <<>>]

\* The packet awaiting its acknowledgement is sent, for the first time or
\* after a timeout.
Transmit(k) ==
  /\ Sending(k)
  /\ pkts' = pkts \cup {PacketOf(k)}
  /\ UNCHANGED <<deployment, requests, sockets, acks, listenerVars>>

GiveUp(k) ==
  /\ Sending(k) /\ SocketError
  /\ children' = [children EXCEPT ![k].pc = "failed"]
  /\ Close({k})
  /\ UNCHANGED <<deployment, requests, pkts, listening>>

AwaitsAny(k, ackno) == TRUE
Awaits(k, ackno) == ackno = children[k].seqno

\* Any acknowledgement that reaches the child's socket is read, whichever
\* client it is from.
ReceiveAck(k, ackno) ==
  /\ Sending(k)
  /\ [to |-> k, ackno |-> ackno] \in acks
  /\ IF Awaits(k, ackno) /\ children[k].seqno = FinOf(k)
     THEN children' = [children EXCEPT ![k].pc = "done"] /\ Close({k})
     ELSE /\ acks' = acks \ {[to |-> k, ackno |-> ackno]}
          /\ children' = [children EXCEPT ![k].seqno =
                                   IF Awaits(k, ackno) THEN @ + 1 ELSE @]
          /\ UNCHANGED sockets
  /\ UNCHANGED <<deployment, requests, pkts, listening>>

ServerNext ==
  \/ \E c \in Clients : ReceiveRequest(c)
  \/ ListenerFails
  \/ \E ks \in SUBSET DOMAIN children : Interrupt(ks)
  \/ \E k \in DOMAIN children :
       Transmit(k) \/ GiveUp(k) \/ \E a \in acks : ReceiveAck(k, a.ackno)
=============================================================================
