------------------------------ MODULE Session ------------------------------
(***************************************************************************)
(* The whole program: one server and runs of the client, started by their  *)
(* users at any time, with every request, answer and retransmission        *)
(* between them.                                                           *)
(***************************************************************************)
EXTENDS Server, Client

CONSTANTS
  MaxChildren,  \* requests of all clients together
  MaxSeqno      \* number of the last packet of the longest file

vars == <<sessionNetVars, listenerVars, clientVars>>

Init == SessionNetInit /\ ListenerInit /\ ClientInit

ServerStep == ServerNext /\ UNCHANGED clientVars
ClientStep == ClientNext /\ UNCHANGED listenerVars

Next == ServerStep \/ ClientStep

Spec == Init /\ [][Next]_vars

\* A client reads packet n of child k, and its answer, if any, arrives.
Answer(k, n) == \E c \in Clients : \E p \in pkts :
  /\ p.from = k /\ p.seqno = n
  /\ ReceivePacket(c, p)
  /\ last_pack'[c] # NoAck /\ k \in sockets =>
       [to |-> k, ackno |-> last_pack'[c]] \in acks'


RunAt(c) == {b \in deployment.run : Address(b) = Address(c)}

\* No other client is run at the address of c.
Alone(c) == RunAt(c) \subseteq {c}

ChildrenOf(c) == {k \in DOMAIN children : children[k].client = c}

\* Every process keeps running.  rand() does not drop the same packet for
\* ever, and a packet or an acknowledgement sent again and again arrives now
\* and then.
Fairness ==
  /\ \A c \in Clients :
       /\ WF_vars(SendRequest(c) /\ UNCHANGED listenerVars)
       /\ WF_vars((ResponseTimeout(c) \/ SeesAnswer(c)) /\ UNCHANGED listenerVars)
       /\ WF_vars(ReceiveRequest(c) /\ UNCHANGED clientVars)
  /\ \A k \in 1 .. MaxChildren :
       /\ WF_vars(k \in DOMAIN children /\ Transmit(k) /\ UNCHANGED clientVars)
       /\ \A n \in 0 .. MaxSeqno :
            /\ SF_vars(Answer(k, n) /\ UNCHANGED listenerVars)
            /\ SF_vars(/\ k \in DOMAIN children /\ ReceiveAck(k, n)
                       /\ UNCHANGED clientVars)

FairSpec == Spec /\ Fairness

-----------------------------------------------------------------------------
TypeOK ==
  /\ deployment \in Deployments
  /\ listening \in BOOLEAN
  /\ children \in Seq([client : Clients, seqno : Nat,
                       pc : {"sending", "done", "failed", "invalid", "closed"}])
  /\ sockets = {k \in DOMAIN children : Sending(k)}
  /\ requests \in [Clients -> 0 .. RETRIES]
  /\ \A p \in pkts : p.from \in DOMAIN children
  /\ \A a \in acks : a.to \in sockets
  /\ cPc \in [Clients -> {"off", "request", "wait", "receive",
                          "done", "gaveup", "failed", "killed"}]
  /\ ntry \in [Clients -> 0 .. RETRIES]
  /\ ackNo \in [Clients -> Nat]
  /\ last_pack \in [Clients -> Nat \cup {NoAck}]
  /\ delivered \in [Clients -> Seq(Data)]

\* However many children serve an address, and whichever of them got the
\* client to where it is, none has moved past a packet that no client at the
\* address has accepted: acknowledgements meant for one child never carry
\* another one over a segment.
NoChildAhead == \A k \in DOMAIN children :
  \E c \in RunAt(children[k].client) :
    IF children[k].pc = "done" THEN cPc[c] = "done"
                               ELSE children[k].seqno <= ackNo[c]

\* A client that says it has finished has the file it asked for.
FileIsWhole == \A c \in Clients :
  cPc[c] = "done" => delivered[c] = Files[FileName(c)]

-----------------------------------------------------------------------------
(* The inductive invariant, for deployments in which the clients run at one *)
(* address ask for one file: NoChildAhead, and what it takes to keep it.    *)

SameFile == \A d \in Deployments : \A b, c \in d.run :
  d.addr[b] = d.addr[c] => d.wants[b] = d.wants[c]

\* Only clients that are run send requests, no more than they count.
RequestsAreCounted == \A c \in Clients :
  /\ cPc[c] # "off" \/ requests[c] > 0 => c \in deployment.run
  /\ requests[c] <= ntry[c]
  /\ cPc[c] = "off" => ntry[c] = 0
  /\ cPc[c] = "request" => ntry[c] < RETRIES

\* The number n is one of a packet of the file of client c.
IsNumberOf(c, n) == FileName(c) \in DOMAIN Files /\ n \in 0 .. Len(Files[FileName(c)])

ChildrenServeRuns == \A k \in DOMAIN children :
  /\ children[k].client \in deployment.run
  /\ Sending(k) => IsNumberOf(children[k].client, children[k].seqno)

\* Packet p is for client b, and carries its segment of the file of b.
CarriesFileOf(b, p) ==
  /\ p.to = Address(b)
  /\ IsNumberOf(b, p.seqno)
  /\ p.data = IF p.seqno < Len(Files[FileName(b)])
               THEN <<Files[FileName(b)][p.seqno + 1]>> ELSE <<>>

\* A packet in flight carries its own segment of the file asked for by the
\* client it is for, and so by every client that may read it.
PacketsAreOfTheFile == \A p \in pkts : CarriesFileOf(children[p.from].client, p)

\* An acknowledgement for a child is for a packet that some client at the
\* address it serves has accepted.
AcksAreOfAccepted == \A a \in acks :
  /\ a.ackno \in Nat
  /\ \E c \in RunAt(children[a.to].client) : a.ackno < ackNo[c]

\* What a client wrote and whether it finished follow from ackNo.
ClientsInStep == \A c \in Clients :
  /\ last_pack[c] = ackNo[c] - 1
  /\ IF FileName(c) \in DOMAIN Files
     THEN LET file == Files[FileName(c)] IN
          /\ ackNo[c] <= Len(file) + 1
          /\ cPc[c] = "done" <=> ackNo[c] = Len(file) + 1
          /\ delivered[c] = SubSeq(file, 1, IF cPc[c] = "done" THEN Len(file) ELSE ackNo[c])
     ELSE ackNo[c] = 0 /\ cPc[c] # "done" /\ delivered[c] = <<>>

\* The whole invariant: every process is where the packets it has sent and
\* accepted say, for all that children and clients know of each other.
Inv ==
  /\ TypeOK /\ RequestsAreCounted /\ ChildrenServeRuns /\ PacketsAreOfTheFile
  /\ AcksAreOfAccepted /\ ClientsInStep /\ NoChildAhead

-----------------------------------------------------------------------------
RT(c, f) == INSTANCE ReliableTransfer WITH
  File       <- Files[f],
  delivered  <- delivered[c],
  clientDone <- cPc[c] = "done",
  serverDone <- Alone(c) /\ \E k \in ChildrenOf(c) : children[k].pc = "done"

\* For every client the program is a reliable transfer of the file it asked
\* for: with several children sending to it because it repeated its request,
\* and with children that an earlier run of the client at its address, for
\* the same file, left behind.
ImplementsReliableTransfers ==
  /\ \A c \in Clients, f \in DOMAIN Files : RT(c, f)!Init
  /\ [][\A c \in Clients, f \in DOMAIN Files :
           FileName(c) = f => RT(c, f)!Step]_vars

\* A client alone at its address comes to an end: with the file, or, because
\* there is no such file or nothing answers, after RETRIES requests.
ClientEnds == \A c \in Clients :
  (cPc[c] = "request" /\ Alone(c) /\ deployment.faults \subseteq {"requestLoss", "ackLoss"})
    ~> cPc[c] \in {"done", "gaveup"}
=============================================================================
