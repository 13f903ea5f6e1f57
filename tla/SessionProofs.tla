--------------------------- MODULE SessionProofs ---------------------------
(***************************************************************************)
(* The whole program transfers files reliably, for any set of files and    *)
(* clients and every fault: with as many children per client as it sends   *)
(* requests, and with those that an earlier run at its address left        *)
(* behind.  All of it rests on SameFile: nothing in a packet or an         *)
(* acknowledgement says which file it is of, or which child it is for, so  *)
(* that clients which ask for different files at one address receive a     *)
(* mixture (FileIsWhole fails).                                            *)
(*                                                                         *)
(* The argument: acknowledgements may reach a child from any client that   *)
(* uses its address, for any packet; but the number of each is below that  *)
(* client's ackNo, which never decreases.                                  *)
(***************************************************************************)
EXTENDS Session, SequenceLemmas

Children == [client : Clients, seqno : Nat,
             pc : {"sending", "done", "failed", "invalid", "closed"}]

\* What the proofs below need of one child.
LEMMA ChildTypes ==
  ASSUME TypeOK, NEW k \in DOMAIN children
  PROVE  /\ children \in Seq(Children)
         /\ DOMAIN children = 1 .. Len(children) /\ Len(children) \in Nat
         /\ children[k] \in Children
         /\ children[k].client \in Clients /\ children[k].seqno \in Nat
<1>1. children \in Seq(Children)
  BY DEF TypeOK, Children
<1>2. DOMAIN children = 1 .. Len(children) /\ Len(children) \in Nat
  BY <1>1
<1>3. children[k] \in Children
  BY <1>1, <1>2
<1> QED
  BY <1>1, <1>2, <1>3 DEF Children

\* The files are sequences of segments.
LEMMA FileTypes ==
  ASSUME NEW f \in DOMAIN Files
  PROVE  Files[f] \in Seq(Data) /\ Len(Files[f]) \in Nat
BY FilesAssumption

LEMMA RunsAreClients == deployment \in Deployments => deployment.run \subseteq Clients
BY DeploymentAssumption

\* The clients that read what is sent to one of them are at its address and
\* want the same file.
LEMMA Readers ==
  ASSUME SameFile, deployment \in Deployments,
         NEW b \in deployment.run, NEW c \in deployment.run, Address(b) = Address(c)
  PROVE  /\ b \in Clients /\ c \in Clients
         /\ FileName(b) = FileName(c) /\ RunAt(b) = RunAt(c) /\ c \in RunAt(b)
BY RunsAreClients DEF SameFile, RunAt, Address, FileName

\* The deployment never changes, and with it the address and the file of
\* every client.
LEMMA SameDeployment ==
  ASSUME deployment' = deployment
  PROVE  /\ \A c : Address(c)' = Address(c) /\ FileName(c)' = FileName(c)
                   /\ RunAt(c)' = RunAt(c)
         /\ \A c, n : IsNumberOf(c, n)' <=> IsNumberOf(c, n)
BY DEF Address, FileName, RunAt, IsNumberOf

\* How every step treats what the others rely on: children keep their client,
\* no ackNo decreases and a client that is done stays so.
GoesOn ==
  /\ deployment' = deployment
  /\ \A k \in DOMAIN children :
       k \in DOMAIN children' /\ children'[k].client = children[k].client
  /\ \A c \in Clients : /\ ackNo[c] <= ackNo'[c]
                        /\ cPc[c] = "done" => cPc'[c] = "done"

LEMMA ServerGoesOn ==
  ASSUME TypeOK, deployment' = deployment, UNCHANGED clientVars,
         \A k \in DOMAIN children :
           k \in DOMAIN children' /\ children'[k].client = children[k].client
  PROVE  GoesOn
BY DEF TypeOK, clientVars, GoesOn

LEMMA ClientGoesOn ==
  ASSUME TypeOK, deployment' = deployment, UNCHANGED listenerVars,
         \A c \in Clients : /\ ackNo[c] <= ackNo'[c]
                            /\ cPc[c] = "done" => cPc'[c] = "done"
  PROVE  GoesOn
BY DEF TypeOK, listenerVars, GoesOn

\* Packets in flight stay what they are.
LEMMA PacketsKept ==
  ASSUME TypeOK, PacketsAreOfTheFile, GoesOn,
         \A p \in pkts' \ pkts :
           p.from \in DOMAIN children /\ CarriesFileOf(children[p.from].client, p)
  PROVE  PacketsAreOfTheFile' /\ \A p \in pkts' : p.from \in DOMAIN children'
<1> SUFFICES ASSUME NEW p \in pkts'
             PROVE  /\ p.from \in DOMAIN children'
                    /\ CarriesFileOf(children[p.from].client, p)'
  BY DEF PacketsAreOfTheFile
<1>1. p.from \in DOMAIN children /\ CarriesFileOf(children[p.from].client, p)
  BY DEF TypeOK, PacketsAreOfTheFile
<1>2. /\ p.from \in DOMAIN children'
      /\ children'[p.from].client = children[p.from].client
      /\ deployment' = deployment
  BY <1>1 DEF GoesOn
<1> QED
  BY <1>1, <1>2 DEF CarriesFileOf, IsNumberOf, Address, FileName

\* Acknowledgements in flight stay behind the client that sent them.
LEMMA AcksKept ==
  ASSUME TypeOK, AcksAreOfAccepted, GoesOn, ackNo' \in [Clients -> Nat],
         \A a \in acks' \ acks :
           /\ a.to \in DOMAIN children /\ a.ackno \in Nat
           /\ \E c \in RunAt(children[a.to].client) : a.ackno < ackNo'[c]
  PROVE  AcksAreOfAccepted'
<1> SUFFICES ASSUME NEW a \in acks'
             PROVE  /\ a.ackno \in Nat
                    /\ \E c \in RunAt(children[a.to].client)' : a.ackno < ackNo'[c]
  BY DEF AcksAreOfAccepted
<1>1. /\ a.to \in DOMAIN children /\ a.ackno \in Nat
      /\ \E c \in RunAt(children[a.to].client) : a.ackno < ackNo'[c]
  <2>1. CASE a \in acks
    <3>1. a.to \in DOMAIN children
      BY <2>1 DEF TypeOK
    <3>2. PICK c \in RunAt(children[a.to].client) : a.ackno < ackNo[c] /\ a.ackno \in Nat
      BY <2>1 DEF AcksAreOfAccepted
    <3>3. c \in Clients
      BY RunsAreClients DEF RunAt, TypeOK
    <3>4. ackNo[c] \in Nat /\ ackNo'[c] \in Nat /\ ackNo[c] <= ackNo'[c]
      BY <3>3 DEF TypeOK, GoesOn
    <3> QED
      BY <3>1, <3>2, <3>4
  <2> QED
    BY <2>1
<1>2. children'[a.to].client = children[a.to].client /\ deployment' = deployment
  BY <1>1 DEF GoesOn
<1> QED
  BY <1>1, <1>2 DEF RunAt, Address

\* A child that is where it was is still not ahead.
LEMMA NotAheadKept ==
  ASSUME TypeOK, NoChildAhead, GoesOn, ackNo' \in [Clients -> Nat],
         NEW k \in DOMAIN children, children'[k].seqno = children[k].seqno,
         children'[k].pc = "done" <=> children[k].pc = "done"
  PROVE  (\E c \in RunAt(children[k].client) :
            IF children[k].pc = "done" THEN cPc[c] = "done"
                                       ELSE children[k].seqno <= ackNo[c])'
<1>1. PICK c \in RunAt(children[k].client) :
        IF children[k].pc = "done" THEN cPc[c] = "done"
                                   ELSE children[k].seqno <= ackNo[c]
  BY DEF NoChildAhead
<1>2. c \in Clients /\ children[k].seqno \in Nat
  BY ChildTypes, RunsAreClients DEF RunAt, TypeOK
<1>3. /\ ackNo[c] \in Nat /\ ackNo'[c] \in Nat /\ ackNo[c] <= ackNo'[c]
      /\ cPc[c] = "done" => cPc'[c] = "done"
  BY <1>2 DEF TypeOK, GoesOn
<1>4. c \in {b \in deployment'.run :
               deployment'.addr[b] = deployment'.addr[children'[k].client]}
  BY DEF GoesOn, RunAt, Address
<1>5. IF children'[k].pc = "done" THEN cPc'[c] = "done"
                                  ELSE children'[k].seqno <= ackNo'[c]
  BY <1>1, <1>2, <1>3
<1> QED
  BY <1>4, <1>5 DEF RunAt, Address

-----------------------------------------------------------------------------
(* Every step of the server preserves the invariant. *)

\* The clients do not notice, and requests become fewer.
LEMMA ServerLeavesClients ==
  ASSUME Inv, UNCHANGED clientVars, deployment' = deployment,
         requests' \in [Clients -> 0 .. RETRIES],
         \A c \in Clients : requests'[c] <= requests[c]
  PROVE  RequestsAreCounted' /\ ClientsInStep'
<1>1. RequestsAreCounted'
  BY DEF Inv, TypeOK, RequestsAreCounted, clientVars
<1>2. ClientsInStep'
  BY DEF Inv, ClientsInStep, clientVars, FileName
<1> QED
  BY <1>1, <1>2

LEMMA ReceiveRequestPreserves ==
  ASSUME Inv, NEW c \in Clients, ReceiveRequest(c), UNCHANGED clientVars
  PROVE  Inv'
<1>1. /\ TypeOK /\ requests[c] \in Nat /\ requests[c] > 0
      /\ requests' = [requests EXCEPT ![c] = requests[c] - 1]
      /\ UNCHANGED <<deployment, pkts, acks, listening>>
  BY DEF Inv, TypeOK, ReceiveRequest
<1>2. /\ requests' \in [Clients -> 0 .. RETRIES]
      /\ \A b \in Clients : requests'[b] <= requests[b]
  BY <1>1, RetriesAssumption DEF TypeOK
<1>3. RequestsAreCounted' /\ ClientsInStep'
  BY <1>1, <1>2, ServerLeavesClients
<1>4. CASE UNCHANGED <<children, sockets>>
  <2>1. GoesOn
    BY <1>1, <1>4, ServerGoesOn
  <2>2. TypeOK' /\ ChildrenServeRuns' /\ PacketsAreOfTheFile' /\ AcksAreOfAccepted'
        /\ NoChildAhead'
    BY <1>1, <1>2, <1>4 DEF Inv, TypeOK, ChildrenServeRuns, PacketsAreOfTheFile,
       AcksAreOfAccepted, NoChildAhead, clientVars, Sending, IsNumberOf, FileName,
       Address, CarriesFileOf, RunAt
  <2> QED
    BY <1>3, <2>2 DEF Inv
<1>5. CASE \E pc \in ChildStarts(c) :
             /\ children' = Append(children, Child(c, pc))
             /\ sockets' = sockets \cup {k \in {Len(children')} : pc = "sending"}
  <2>1. PICK pc \in ChildStarts(c) :
          /\ children' = Append(children, Child(c, pc))
          /\ sockets' = sockets \cup {k \in {Len(children')} : pc = "sending"}
    BY <1>5
  <2> DEFINE n == Len(children)
  <2>2. children \in Seq(Children) /\ n \in Nat /\ DOMAIN children = 1 .. n
    BY <1>1 DEF TypeOK, Children
  <2>3. /\ pc \in {"sending", "invalid", "failed"} /\ Child(c, pc) \in Children
        /\ Child(c, pc).client = c /\ Child(c, pc).seqno = 0 /\ Child(c, pc).pc = pc
        /\ pc = "sending" => FileName(c) \in DOMAIN Files
    BY DEF ChildStarts, Child, Children
  <2>4. /\ children' \in Seq(Children) /\ Len(children') = n + 1
        /\ DOMAIN children' = 1 .. n + 1
        /\ \A k \in DOMAIN children : k \in DOMAIN children' /\ children'[k] = children[k]
        /\ children'[n + 1] = Child(c, pc)
        /\ \A k \in DOMAIN children' : k \in DOMAIN children \/ k = n + 1
    <3>1. children' \in Seq(Children) /\ Len(children') = n + 1
      BY <2>1, <2>2, <2>3
    <3>2. DOMAIN children' = 1 .. n + 1
      BY <3>1, <2>2
    <3>3. \A k \in 1 .. n : children'[k] = children[k]
      BY <2>1, <2>2
    <3>4. children'[n + 1] = Child(c, pc)
      BY <2>1, <2>2
    <3> QED
      BY <2>2, <3>1, <3>2, <3>3, <3>4
  <2> HIDE DEF n
  <2>5. GoesOn
    BY <1>1, <2>4, ServerGoesOn
  <2>6. sockets' = {k \in DOMAIN children' : Sending(k)'}
    <3>1. sockets = {k \in DOMAIN children : children[k].pc = "sending"}
      BY <1>1 DEF TypeOK, Sending
    <3>2. \A k \in DOMAIN children' :
            children'[k].pc = "sending" <=> k \in sockets \/ (k = n + 1 /\ pc = "sending")
      <4>1. n + 1 \notin DOMAIN children
        BY <2>2
      <4> QED
        BY <2>3, <2>4, <3>1, <4>1
    <3>3. sockets' \subseteq DOMAIN children'
      BY <2>1, <2>2, <2>4, <3>1
    <3>4. sockets' = sockets \cup {k \in {n + 1} : pc = "sending"}
      BY <2>1, <2>4
    <3> QED
      BY <3>2, <3>3, <3>4 DEF Sending
  <2>7. TypeOK'
    <3>1. \A a \in acks' : a.to \in sockets'
      BY <1>1, <2>1 DEF TypeOK
    <3>2. \A p \in pkts' : p.from \in DOMAIN children'
      BY <1>1, <2>4 DEF TypeOK
    <3> QED
      BY <1>1, <1>2, <2>4, <2>6, <3>1, <3>2 DEF TypeOK, Children, clientVars
  <2>8. PacketsAreOfTheFile' /\ AcksAreOfAccepted'
    BY <1>1, <2>5, <2>7, PacketsKept, AcksKept DEF Inv, TypeOK
  <2>9. c \in deployment.run
    BY <1>1 DEF Inv, RequestsAreCounted
  <2>10. ChildrenServeRuns'
    <3> SUFFICES ASSUME NEW k \in DOMAIN children'
                 PROVE  /\ children'[k].client \in deployment'.run
                        /\ Sending(k)' => IsNumberOf(children[k].client, children[k].seqno)'
      BY DEF ChildrenServeRuns
    <3>1. CASE k \in DOMAIN children
      BY <1>1, <2>4, <3>1 DEF Inv, ChildrenServeRuns, Sending, IsNumberOf, FileName
    <3>2. CASE k = n + 1
      <4>1. FileName(c) \in DOMAIN Files => 0 \in 0 .. Len(Files[FileName(c)])
        BY FileTypes
      <4> QED
        BY <1>1, <2>3, <2>4, <2>9, <3>2, <4>1 DEF Sending, IsNumberOf, FileName
    <3> QED
      BY <2>4, <3>1, <3>2
  <2>11. NoChildAhead'
    <3> SUFFICES ASSUME NEW k \in DOMAIN children'
                 PROVE  (\E b \in RunAt(children[k].client) :
                           IF children[k].pc = "done"
                           THEN cPc[b] = "done" ELSE children[k].seqno <= ackNo[b])'
      BY DEF NoChildAhead
    <3>1. CASE k \in DOMAIN children
      BY <1>1, <2>4, <2>5, <2>7, <3>1, NotAheadKept DEF Inv, TypeOK
    <3>2. CASE k = n + 1
      <4>1. c \in RunAt(children[k].client)'
        BY <1>1, <2>3, <2>4, <2>9, <3>2 DEF RunAt, Address
      <4>2. children'[k].pc # "done" /\ children'[k].seqno <= ackNo'[c]
        BY <2>3, <2>4, <2>7, <3>2 DEF TypeOK
      <4> QED
        BY <4>1, <4>2
    <3> QED
      BY <2>4, <3>1, <3>2
  <2> QED
    BY <1>3, <2>7, <2>8, <2>10, <2>11 DEF Inv
<1> QED
  BY <1>4, <1>5 DEF ReceiveRequest

\* Children move: what is to be shown is that those which do not just end are
\* at a packet of their file, and not ahead.
LEMMA ChildrenMove ==
  ASSUME Inv, UNCHANGED clientVars, UNCHANGED <<deployment, requests, pkts>>,
         listening' \in BOOLEAN,
         children' \in Seq(Children), DOMAIN children' = DOMAIN children,
         \A k \in DOMAIN children : children'[k].client = children[k].client,
         sockets' = {k \in DOMAIN children : children'[k].pc = "sending"},
         acks' \subseteq acks, \A a \in acks' : a.to \in sockets',
         \A k \in DOMAIN children :
           \/ /\ children'[k].seqno = children[k].seqno
              /\ children'[k].pc = "done" <=> children[k].pc = "done"
              /\ children'[k].pc = "sending" => children[k].pc = "sending"
           \/ /\ children'[k].pc = "sending" =>
                   IsNumberOf(children[k].client, children'[k].seqno)
              /\ \E c \in RunAt(children[k].client) :
                   IF children'[k].pc = "done" THEN cPc[c] = "done"
                                               ELSE children'[k].seqno <= ackNo[c]
  PROVE  Inv'
<1>1. TypeOK /\ TypeOK'
  <2>1. sockets' = {k \in DOMAIN children' : Sending(k)'}
    BY DEF Sending
  <2> QED
    BY <2>1 DEF Inv, TypeOK, Children, clientVars
<1>2. GoesOn
  BY <1>1, ServerGoesOn
<1>3. RequestsAreCounted' /\ ClientsInStep'
  <2>1. /\ requests' \in [Clients -> 0 .. RETRIES]
        /\ \A c \in Clients : requests'[c] <= requests[c]
    BY <1>1, RetriesAssumption DEF TypeOK
  <2> QED
    BY <2>1, ServerLeavesClients
<1>4. PacketsAreOfTheFile' /\ AcksAreOfAccepted'
  BY <1>1, <1>2, PacketsKept, AcksKept DEF Inv, TypeOK
<1>5. ChildrenServeRuns'
  <2> SUFFICES ASSUME NEW k \in DOMAIN children
               PROVE  /\ children'[k].client \in deployment.run
                      /\ children'[k].pc = "sending" =>
                           IsNumberOf(children[k].client, children'[k].seqno)
    BY DEF ChildrenServeRuns, Sending, IsNumberOf, FileName
  <2> QED
    BY DEF Inv, ChildrenServeRuns, Sending
<1>6. NoChildAhead'
  <2> SUFFICES ASSUME NEW k \in DOMAIN children
               PROVE  (\E c \in RunAt(children[k].client) :
                         IF children[k].pc = "done"
                         THEN cPc[c] = "done" ELSE children[k].seqno <= ackNo[c])'
    BY DEF NoChildAhead
  <2>1. CASE /\ children'[k].seqno = children[k].seqno
             /\ children'[k].pc = "done" <=> children[k].pc = "done"
    BY <1>1, <1>2, <2>1, NotAheadKept DEF Inv, TypeOK
  <2>2. CASE \E c \in RunAt(children[k].client) :
               IF children'[k].pc = "done" THEN cPc[c] = "done"
                                           ELSE children'[k].seqno <= ackNo[c]
    BY <2>2 DEF RunAt, Address, clientVars
  <2> QED
    BY <2>1, <2>2
<1> QED
  BY <1>1, <1>3, <1>4, <1>5, <1>6 DEF Inv

LEMMA ListenerFailsPreserves ==
  ASSUME Inv, ListenerFails, UNCHANGED clientVars
  PROVE  Inv'
<1>1. /\ sockets' = {k \in DOMAIN children : children'[k].pc = "sending"}
      /\ children' \in Seq(Children)
  BY DEF ListenerFails, sessionNetVars, Inv, TypeOK, Sending, Children
<1>2. \A a \in acks' : a.to \in sockets'
  BY DEF ListenerFails, sessionNetVars, Inv, TypeOK
<1> QED
  BY <1>1, <1>2, ChildrenMove DEF ListenerFails, sessionNetVars

LEMMA InterruptPreserves ==
  ASSUME Inv, NEW ks \in SUBSET DOMAIN children, Interrupt(ks), UNCHANGED clientVars
  PROVE  Inv'
<1>1. /\ listening' = FALSE /\ UNCHANGED <<deployment, requests, pkts>>
      /\ \A k \in ks : Sending(k)
      /\ children' = [k \in DOMAIN children |->
                        IF k \in ks THEN [children[k] EXCEPT !.pc = "closed"]
                                    ELSE children[k]]
      /\ sockets' = sockets \ ks /\ acks' = {a \in acks : a.to \notin ks}
  BY DEF Interrupt, Close
<1>2. /\ children \in Seq(Children) /\ Len(children) \in Nat
      /\ DOMAIN children = 1 .. Len(children)
      /\ sockets = {k \in DOMAIN children : children[k].pc = "sending"}
      /\ \A a \in acks : a.to \in sockets
  <2>1. children \in Seq(Children)
    BY DEF Inv, TypeOK, Children
  <2> QED
    BY <2>1 DEF Inv, TypeOK, Sending
<1>3. \A k \in DOMAIN children :
        /\ children[k] \in Children /\ children'[k] \in Children
        /\ children'[k].client = children[k].client
        /\ children'[k].seqno = children[k].seqno
        /\ children'[k].pc = IF k \in ks THEN "closed" ELSE children[k].pc
  <2> SUFFICES ASSUME NEW k \in DOMAIN children
               PROVE  /\ children[k] \in Children /\ children'[k] \in Children
                      /\ children'[k].client = children[k].client
                      /\ children'[k].seqno = children[k].seqno
                      /\ children'[k].pc = IF k \in ks THEN "closed" ELSE children[k].pc
    OBVIOUS
  <2>1. children[k] \in Children
    BY <1>2
  <2> QED
    BY <1>1, <2>1 DEF Children
<1>4. children' \in Seq(Children) /\ DOMAIN children' = DOMAIN children
  <2>1. children' \in [1 .. Len(children) -> Children]
    BY <1>1, <1>2, <1>3
  <2> QED
    BY <1>2, <2>1, SeqDef
<1>5. sockets' = {k \in DOMAIN children : children'[k].pc = "sending"}
  BY <1>1, <1>2, <1>3
<1>6. acks' \subseteq acks /\ \A a \in acks' : a.to \in sockets'
  BY <1>1, <1>2
<1>7. \A k \in DOMAIN children :
        /\ children'[k].pc = "done" <=> children[k].pc = "done"
        /\ children'[k].pc = "sending" => children[k].pc = "sending"
  BY <1>1, <1>3 DEF Sending
<1> QED
  BY <1>1, <1>3, <1>4, <1>5, <1>6, <1>7, ChildrenMove

LEMMA TransmitPreserves ==
  ASSUME Inv, NEW k \in DOMAIN children, Transmit(k), UNCHANGED clientVars
  PROVE  Inv'
<1>1. /\ Sending(k) /\ pkts' = pkts \cup {PacketOf(k)}
      /\ UNCHANGED <<deployment, requests, sockets, acks, listening, children>>
  BY DEF Transmit, listenerVars
<1>2. PacketOf(k).from = k /\ CarriesFileOf(children[k].client, PacketOf(k))
  <2>1. IsNumberOf(children[k].client, children[k].seqno)
    BY <1>1 DEF Inv, ChildrenServeRuns
  <2> QED
    BY <2>1 DEF PacketOf, CarriesFileOf, FinOf, FileOf
<1>3. GoesOn
  BY <1>1, ServerGoesOn DEF Inv
<1>4. PacketsAreOfTheFile' /\ \A p \in pkts' : p.from \in DOMAIN children'
  BY <1>1, <1>2, <1>3, PacketsKept DEF Inv
<1>5. TypeOK'
  BY <1>1, <1>4 DEF Inv, TypeOK, Sending, clientVars
<1>6. AcksAreOfAccepted'
  BY <1>1, <1>3, <1>5, AcksKept DEF Inv, TypeOK
<1>7. RequestsAreCounted' /\ ClientsInStep' /\ ChildrenServeRuns' /\ NoChildAhead'
  BY <1>1 DEF Inv, RequestsAreCounted, ClientsInStep, ChildrenServeRuns, NoChildAhead,
     clientVars, Sending, IsNumberOf, FileName, Address, RunAt
<1> QED
  BY <1>4, <1>5, <1>6, <1>7 DEF Inv

\* A child goes on to packet n, or ends, and nothing is asked of the others.
LEMMA ChildMoves ==
  ASSUME Inv, NEW k \in DOMAIN children, NEW n \in Nat,
         NEW pc \in {"sending", "done", "failed"}, Sending(k),
         UNCHANGED clientVars, UNCHANGED <<deployment, requests, pkts, listening>>,
         children' = [children EXCEPT ![k] = [client |-> children[k].client,
                                              seqno  |-> n, pc |-> pc]],
         sockets' = IF pc = "sending" THEN sockets ELSE sockets \ {k},
         acks' \subseteq acks, \A a \in acks' : a.to \in sockets',
         \/ n = children[k].seqno /\ pc # "done"
         \/ /\ pc = "sending" => IsNumberOf(children[k].client, n)
            /\ \E c \in RunAt(children[k].client) :
                 IF pc = "done" THEN cPc[c] = "done" ELSE n <= ackNo[c]
  PROVE  Inv'
<1>1. /\ children \in Seq(Children) /\ Len(children) \in Nat
      /\ DOMAIN children = 1 .. Len(children) /\ children[k].client \in Clients
      /\ sockets = {j \in DOMAIN children : children[j].pc = "sending"}
      /\ TypeOK
  <2>1. sockets = {j \in DOMAIN children : children[j].pc = "sending"}
    BY DEF Inv, TypeOK, Sending
  <2> QED
    BY <2>1, ChildTypes DEF Inv
<1>2. /\ children' \in Seq(Children) /\ DOMAIN children' = DOMAIN children
      /\ children'[k] = [client |-> children[k].client, seqno |-> n, pc |-> pc]
      /\ \A j \in DOMAIN children \ {k} : children'[j] = children[j]
  <2> DEFINE e == [client |-> children[k].client, seqno |-> n, pc |-> pc]
  <2>1. e \in Children
    BY <1>1 DEF Children
  <2> HIDE DEF e
  <2>2. children' = [children EXCEPT ![k] = e]
    BY DEF e
  <2>3. children' \in Seq(Children) /\ DOMAIN children' = DOMAIN children
    BY <1>1, <2>1, <2>2
  <2> QED
    BY <1>1, <2>2, <2>3 DEF e
<1>3. \A j \in DOMAIN children : children'[j].client = children[j].client
  BY <1>2
<1>4. sockets' = {j \in DOMAIN children : children'[j].pc = "sending"}
  BY <1>1, <1>2 DEF Sending
<1>5. ASSUME NEW j \in DOMAIN children
      PROVE  \/ /\ children'[j].seqno = children[j].seqno
                /\ children'[j].pc = "done" <=> children[j].pc = "done"
                /\ children'[j].pc = "sending" => children[j].pc = "sending"
             \/ /\ children'[j].pc = "sending" =>
                     IsNumberOf(children[j].client, children'[j].seqno)
                /\ \E c \in RunAt(children[j].client) :
                     IF children'[j].pc = "done" THEN cPc[c] = "done"
                                                 ELSE children'[j].seqno <= ackNo[c]
  <2>1. CASE j # k
    BY <1>2, <2>1
  <2>2. CASE j = k
    BY <1>2, <2>2 DEF Sending
  <2> QED
    BY <2>1, <2>2
<1>6. listening' \in BOOLEAN
  BY <1>1 DEF TypeOK
<1> QED
  BY <1>2, <1>3, <1>4, <1>5, <1>6, ChildrenMove

LEMMA GiveUpPreserves ==
  ASSUME Inv, NEW k \in DOMAIN children, GiveUp(k), UNCHANGED clientVars
  PROVE  Inv'
<1>1. /\ Sending(k) /\ UNCHANGED <<deployment, requests, pkts, listening>>
      /\ children' = [children EXCEPT ![k].pc = "failed"]
      /\ sockets' = sockets \ {k} /\ acks' = {a \in acks : a.to \notin {k}}
  BY DEF GiveUp, Close
<1>2. children[k] \in Children /\ children[k].seqno \in Nat /\ TypeOK
  BY ChildTypes DEF Inv
<1>3. children' = [children EXCEPT ![k] = [client |-> children[k].client,
                                           seqno |-> children[k].seqno,
                                           pc |-> "failed"]]
  <2>1. [children[k] EXCEPT !.pc = "failed"] =
          [client |-> children[k].client, seqno |-> children[k].seqno, pc |-> "failed"]
    BY <1>2 DEF Children
  <2> QED
    BY <1>1, <2>1
<1>4. acks' \subseteq acks /\ \A a \in acks' : a.to \in sockets'
  BY <1>1, <1>2 DEF TypeOK
<1> QED
  BY <1>1, <1>2, <1>3, <1>4, ChildMoves

\* The acknowledgement a child waits for was sent by a client at its address
\* that has accepted the packet, whichever child that packet was from.
LEMMA ReceiveAckPreserves ==
  ASSUME SameFile, Inv, NEW k \in DOMAIN children, NEW a \in acks,
         ReceiveAck(k, a.ackno), UNCHANGED clientVars
  PROVE  Inv'
<1> DEFINE n == children[k].seqno
           b == children[k].client
           ack == [to |-> k, ackno |-> a.ackno]
<1>1. /\ Sending(k) /\ UNCHANGED <<deployment, requests, pkts, listening>>
      /\ ack \in acks
      /\ IF a.ackno = n /\ n = FinOf(k)
         THEN children' = [children EXCEPT ![k].pc = "done"] /\ Close({k})
         ELSE /\ acks' = acks \ {ack}
              /\ children' = [children EXCEPT ![k].seqno =
                                IF a.ackno = n THEN @ + 1 ELSE @]
              /\ UNCHANGED sockets
  BY DEF ReceiveAck, Awaits
<1>2. /\ TypeOK /\ children[k] \in Children /\ n \in Nat /\ b \in Clients
      /\ IsNumberOf(b, n) /\ b \in deployment.run
      /\ FinOf(k) = Len(Files[FileName(b)]) /\ FinOf(k) \in Nat
  <2>1. IsNumberOf(b, n) /\ b \in deployment.run
    BY <1>1 DEF Inv, ChildrenServeRuns
  <2> QED
    BY <2>1, ChildTypes, FileTypes DEF Inv, IsNumberOf, FinOf, FileOf
<1>3. PICK c \in RunAt(b) : a.ackno < ackNo[c] /\ a.ackno \in Nat
  <2>1. (\E c \in RunAt(children[ack.to].client) : ack.ackno < ackNo[c]) /\ ack.ackno \in Nat
    BY <1>1 DEF Inv, AcksAreOfAccepted
  <2> QED
    BY <2>1
<1>4. c \in Clients /\ FileName(c) = FileName(b) /\ ackNo[c] \in Nat
  <2>1. c \in deployment.run /\ Address(c) = Address(b) /\ deployment \in Deployments
    BY <1>2, <1>3 DEF RunAt, TypeOK
  <2> QED
    BY <1>2, <2>1, Readers DEF TypeOK
<1> HIDE DEF n, b, ack
<1>5. CASE a.ackno = n /\ n = FinOf(k)
  <2>1. children' = [children EXCEPT ![k] = [client |-> children[k].client,
                                             seqno |-> n, pc |-> "done"]]
    <3>1. [children[k] EXCEPT !.pc = "done"] =
            [client |-> children[k].client, seqno |-> n, pc |-> "done"]
      BY <1>2 DEF Children, n
    <3> QED
      BY <1>1, <1>5, <3>1
  <2>2. cPc[c] = "done"
    <3>1. /\ ackNo[c] <= Len(Files[FileName(c)]) + 1
          /\ cPc[c] = "done" <=> ackNo[c] = Len(Files[FileName(c)]) + 1
      BY <1>2, <1>4 DEF Inv, ClientsInStep, IsNumberOf
    <3> QED
      BY <1>2, <1>3, <1>4, <1>5, <3>1
  <2>3. /\ sockets' = sockets \ {k} /\ acks' \subseteq acks
        /\ \A x \in acks' : x.to \in sockets'
    BY <1>1, <1>2, <1>5 DEF Close, TypeOK
  <2> QED
    BY <1>1, <1>2, <1>3, <2>1, <2>2, <2>3, ChildMoves DEF b
<1>6. CASE a.ackno = n /\ n # FinOf(k)
  <2>1. children' = [children EXCEPT ![k] = [client |-> children[k].client,
                                             seqno |-> n + 1, pc |-> "sending"]]
    <3>1. [children[k] EXCEPT !.seqno = n + 1] =
            [client |-> children[k].client, seqno |-> n + 1, pc |-> "sending"]
      BY <1>1, <1>2 DEF Children, n, Sending
    <3> QED
      BY <1>1, <1>6, <3>1 DEF n
  <2>2. n + 1 <= ackNo[c] /\ IsNumberOf(b, n + 1) /\ n + 1 \in Nat
    BY <1>2, <1>3, <1>4, <1>6 DEF IsNumberOf
  <2>3. acks' \subseteq acks /\ sockets' = sockets /\ \A x \in acks' : x.to \in sockets'
    BY <1>1, <1>2, <1>6 DEF TypeOK
  <2> QED
    BY <1>1, <1>3, <2>1, <2>2, <2>3, ChildMoves DEF b
<1>7. CASE a.ackno # n
  <2>1. children' = [children EXCEPT ![k] = [client |-> children[k].client,
                                             seqno |-> n, pc |-> "sending"]]
    <3>1. [children[k] EXCEPT !.seqno = n] =
            [client |-> children[k].client, seqno |-> n, pc |-> "sending"]
      BY <1>1, <1>2 DEF Children, n, Sending
    <3> QED
      BY <1>1, <1>7, <3>1 DEF n
  <2>2. acks' \subseteq acks /\ sockets' = sockets /\ \A x \in acks' : x.to \in sockets'
    BY <1>1, <1>2, <1>7 DEF TypeOK
  <2> QED
    BY <1>1, <1>2, <2>1, <2>2, ChildMoves DEF n
<1> QED
  BY <1>5, <1>6, <1>7

-----------------------------------------------------------------------------
(* Every step of a client preserves the invariant. *)

\* A client moves without reading a packet: only what counts its requests is
\* to be shown.
LEMMA ClientMoves ==
  ASSUME Inv, NEW c \in Clients,
         NEW pc \in {"request", "wait", "receive", "gaveup", "failed", "killed"},
         MoveTo(c, pc), cPc[c] # "done", UNCHANGED <<ackNo, last_pack, delivered>>,
         UNCHANGED listenerVars, UNCHANGED <<deployment, sockets, pkts, acks>>,
         c \in deployment.run,
         requests' \in [Clients -> 0 .. RETRIES], ntry' \in [Clients -> 0 .. RETRIES],
         requests'[c] <= ntry'[c], pc = "request" => ntry'[c] < RETRIES,
         \A b \in Clients \ {c} : requests'[b] = requests[b] /\ ntry'[b] = ntry[b]
  PROVE  Inv'
<1>1. TypeOK /\ \A b \in Clients : cPc'[b] = IF b = c THEN pc ELSE cPc[b]
  BY DEF Inv, TypeOK, MoveTo
<1>2. TypeOK'
  <2>1. cPc' \in [Clients -> {"off", "request", "wait", "receive",
                              "done", "gaveup", "failed", "killed"}]
    BY <1>1 DEF TypeOK, MoveTo
  <2> QED
    BY <1>1, <2>1 DEF TypeOK, listenerVars, Sending
<1>3. GoesOn
  <2>1. \A b \in Clients : ackNo[b] <= ackNo'[b] /\ (cPc[b] = "done" => cPc'[b] = "done")
    BY <1>1 DEF TypeOK
  <2> QED
    BY <1>1, <2>1, ClientGoesOn
<1>4. RequestsAreCounted'
  <2> SUFFICES ASSUME NEW b \in Clients
               PROVE  /\ cPc'[b] # "off" \/ requests'[b] > 0 => b \in deployment'.run
                      /\ requests'[b] <= ntry'[b]
                      /\ cPc'[b] = "off" => ntry'[b] = 0
                      /\ cPc'[b] = "request" => ntry'[b] < RETRIES
    BY DEF RequestsAreCounted
  <2>1. CASE b = c
    BY <1>1, <2>1
  <2>2. CASE b # c
    BY <1>1, <2>2 DEF Inv, RequestsAreCounted
  <2> QED
    BY <2>1, <2>2
<1>5. ChildrenServeRuns'
  BY DEF Inv, ChildrenServeRuns, listenerVars, Sending, IsNumberOf, FileName
<1>6. PacketsAreOfTheFile' /\ AcksAreOfAccepted'
  BY <1>1, <1>2, <1>3, PacketsKept, AcksKept DEF Inv, TypeOK
<1>7. ClientsInStep'
  <2>1. \A b \in Clients : cPc'[b] = "done" <=> cPc[b] = "done"
    BY <1>1
  <2>2. \A b \in Clients : FileName(b)' = FileName(b)
    BY DEF FileName
  <2> QED
    BY <2>1, <2>2 DEF Inv, ClientsInStep
<1>8. NoChildAhead'
  BY <1>1, <1>2, <1>3, NotAheadKept DEF Inv, TypeOK, NoChildAhead, listenerVars
<1> QED
  BY <1>2, <1>4, <1>5, <1>6, <1>7, <1>8 DEF Inv

\* Most moves leave the request alone.
LEMMA ClientOnlyMoves ==
  ASSUME Inv, NEW c \in Clients,
         NEW pc \in {"request", "wait", "receive", "gaveup", "failed", "killed"},
         MoveTo(c, pc), cPc[c] # "done", c \in deployment.run,
         pc = "request" => ntry[c] < RETRIES,
         UNCHANGED <<ntry, ackNo, last_pack, delivered, sessionNetVars>>,
         UNCHANGED listenerVars
  PROVE  Inv'
<1>1. requests[c] <= ntry[c]
  BY DEF Inv, RequestsAreCounted
<1> QED
  BY <1>1, ClientMoves DEF sessionNetVars, Inv, TypeOK

LEMMA StartPreserves ==
  ASSUME Inv, NEW c \in Clients, Start(c), UNCHANGED listenerVars
  PROVE  Inv'
<1>1. ntry[c] < RETRIES
  BY RetriesAssumption DEF Start, Inv, RequestsAreCounted
<1> QED
  BY <1>1, ClientOnlyMoves DEF Start

\* A client that is bound is one that is run, and is not done.
LEMMA BoundIsRun ==
  ASSUME Inv, NEW c \in Clients, Bound(c)
  PROVE  c \in deployment.run /\ cPc[c] # "done"
BY DEF Inv, RequestsAreCounted, Bound

LEMMA SendRequestPreserves ==
  ASSUME Inv, NEW c \in Clients, SendRequest(c), UNCHANGED listenerVars
  PROVE  Inv'
<1>1. /\ c \in deployment.run /\ cPc[c] # "done" /\ ntry[c] < RETRIES
      /\ requests[c] <= ntry[c] /\ ntry[c] \in Nat /\ requests[c] \in Nat /\ TypeOK
  BY BoundIsRun DEF SendRequest, Bound, Inv, RequestsAreCounted, TypeOK
<1>2. /\ ntry' = [ntry EXCEPT ![c] = ntry[c] + 1]
      /\ \/ requests' = [requests EXCEPT ![c] = requests[c] + 1]
         \/ requests' = requests
  BY DEF SendRequest
<1>3. /\ ntry' \in [Clients -> 0 .. RETRIES] /\ ntry'[c] = ntry[c] + 1
      /\ \A b \in Clients \ {c} : ntry'[b] = ntry[b]
  BY <1>1, <1>2, RetriesAssumption DEF TypeOK
<1>4. /\ requests' \in [Clients -> 0 .. RETRIES] /\ requests'[c] <= requests[c] + 1
      /\ \A b \in Clients \ {c} : requests'[b] = requests[b]
  <2>1. CASE requests' = requests
    BY <1>1, <2>1 DEF TypeOK
  <2>2. CASE requests' = [requests EXCEPT ![c] = requests[c] + 1]
    BY <1>1, <2>2, RetriesAssumption DEF TypeOK
  <2> QED
    BY <1>2, <2>1, <2>2
<1>5. requests'[c] <= ntry'[c]
  BY <1>1, <1>3, <1>4
<1> QED
  BY <1>1, <1>3, <1>4, <1>5, ClientMoves DEF SendRequest

LEMMA SendRequestFailsPreserves ==
  ASSUME Inv, NEW c \in Clients, SendRequestFails(c), UNCHANGED listenerVars
  PROVE  Inv'
BY BoundIsRun, ClientOnlyMoves DEF SendRequestFails, Bound

LEMMA ResponseTimeoutPreserves ==
  ASSUME Inv, NEW c \in Clients, ResponseTimeout(c), UNCHANGED listenerVars
  PROVE  Inv'
BY BoundIsRun, ClientOnlyMoves DEF ResponseTimeout, Bound, MayRetry

LEMMA SeesAnswerPreserves ==
  ASSUME Inv, NEW c \in Clients, SeesAnswer(c), UNCHANGED listenerVars
  PROVE  Inv'
BY BoundIsRun, ClientOnlyMoves DEF SeesAnswer, Bound

LEMMA KillPreserves ==
  ASSUME Inv, NEW c \in Clients, Kill(c), UNCHANGED listenerVars
  PROVE  Inv'
BY BoundIsRun, ClientOnlyMoves DEF Kill

\* A packet a client reads is one of its own file, for the client the child
\* serves.
LEMMA PacketRead ==
  ASSUME SameFile, Inv, NEW c \in Clients, NEW p \in pkts, ReceivePacket(c, p)
  PROVE  /\ p.from \in DOMAIN children
         /\ c \in deployment.run /\ c \in RunAt(children[p.from].client)
         /\ cPc[c] = "receive" /\ FileName(c) \in DOMAIN Files
         /\ p.seqno \in 0 .. Len(Files[FileName(c)])
         /\ p.data = IF p.seqno < Len(Files[FileName(c)])
                     THEN <<Files[FileName(c)][p.seqno + 1]>> ELSE <<>>
<1> DEFINE b == children[p.from].client
<1>1. p.from \in DOMAIN children /\ TypeOK /\ CarriesFileOf(b, p)
  BY DEF Inv, TypeOK, PacketsAreOfTheFile
<1>2. cPc[c] = "receive" /\ p.to = Address(c) /\ p.to = Address(b)
  BY <1>1 DEF ReceivePacket, InFlightTo, CarriesFileOf
<1>3. c \in deployment.run /\ b \in deployment.run
  BY <1>1, <1>2 DEF Inv, RequestsAreCounted, ChildrenServeRuns
<1>4. FileName(b) = FileName(c) /\ c \in RunAt(b)
  BY <1>1, <1>2, <1>3, Readers DEF TypeOK
<1> QED
  BY <1>1, <1>2, <1>3, <1>4 DEF CarriesFileOf, IsNumberOf

\* What the client sends is behind it, when it is not behind already.
LEMMA SendAckSends ==
  ASSUME TypeOK, NEW k \in DOMAIN children, NEW n \in Nat, SendAck(k, n)
  PROVE  /\ \A a \in acks' \ acks : a.to = k /\ a.ackno = n
         /\ \A a \in acks' : a.to \in sockets
BY DEF SendAck, TypeOK

\* A client reads a packet and its ackNo does not decrease.  What it answers is
\* below its ackNo, and what it wrote follows from it.
LEMMA ReaderMoves ==
  ASSUME SameFile, Inv, NEW c \in Clients, NEW p \in pkts, ReceivePacket(c, p),
         UNCHANGED listenerVars, GoesOn,
         ackNo' \in [Clients -> Nat], last_pack' \in [Clients -> Nat \cup {NoAck}],
         delivered' \in [Clients -> Seq(Data)],
         cPc' \in [Clients -> {"off", "request", "wait", "receive",
                               "done", "gaveup", "failed", "killed"}],
         \A b \in Clients \ {c} : cPc'[b] = cPc[b], cPc'[c] \in {"receive", "done"},
         \A a \in acks' : a.to \in sockets,
         \A a \in acks' \ acks : /\ a.to = p.from /\ a.ackno \in Nat
                                 /\ a.ackno < ackNo'[c],
         ClientsInStep'
  PROVE  Inv'
<1>1. TypeOK /\ UNCHANGED <<ntry, deployment, requests, sockets>> /\ pkts' = pkts \ {p}
  BY DEF Inv, ReceivePacket
<1>2. TypeOK'
  BY <1>1 DEF TypeOK, listenerVars, Sending
<1>3. RequestsAreCounted'
  <2>1. c \in deployment.run /\ cPc[c] = "receive"
    BY PacketRead
  <2> QED
    BY <1>1, <2>1 DEF Inv, RequestsAreCounted
<1>4. ChildrenServeRuns'
  BY <1>1 DEF Inv, ChildrenServeRuns, listenerVars, Sending, IsNumberOf, FileName
<1>5. PacketsAreOfTheFile'
  BY <1>1, PacketsKept DEF Inv
<1>6. AcksAreOfAccepted'
  <2>1. p.from \in DOMAIN children /\ c \in RunAt(children[p.from].client)
    BY PacketRead
  <2>2. \A a \in acks' \ acks :
          /\ a.to \in DOMAIN children /\ a.ackno \in Nat
          /\ \E d \in RunAt(children[a.to].client) : a.ackno < ackNo'[d]
    BY <2>1
  <2> QED
    BY <1>1, <2>2, AcksKept DEF Inv
<1>7. NoChildAhead'
  BY <1>1, NotAheadKept DEF Inv, NoChildAhead, listenerVars
<1> QED
  BY <1>2, <1>3, <1>4, <1>5, <1>6, <1>7 DEF Inv

\* What accepting a packet does to its client: it was waiting for this one, and
\* is done if there is no next.
LEMMA AcceptMoves ==
  ASSUME SameFile, Inv, NEW c \in Clients, NEW p \in pkts, ReceivePacket(c, p),
         Expects(c, p)
  PROVE  LET file == Files[FileName(c)]
             n == ackNo[c]
         IN  /\ FileName(c) \in DOMAIN Files /\ n \in 0 .. Len(file) /\ Len(file) \in Nat
             /\ SendAck(p.from, n)
             /\ cPc[c] = "receive" /\ delivered[c] = SubSeq(file, 1, n)
             /\ ackNo' = [ackNo EXCEPT ![c] = n + 1]
             /\ last_pack' = [last_pack EXCEPT ![c] = n]
             /\ delivered' = [delivered EXCEPT ![c] =
                                SubSeq(file, 1, IF n < Len(file) THEN n + 1 ELSE n)]
             /\ cPc' = [cPc EXCEPT ![c] = IF n < Len(file) THEN "receive" ELSE "done"]
<1> DEFINE file == Files[FileName(c)]
           n == ackNo[c]
<1>1. /\ cPc[c] = "receive" /\ FileName(c) \in DOMAIN Files /\ n = p.seqno
      /\ n \in 0 .. Len(file) /\ file \in Seq(Data) /\ Len(file) \in Nat
      /\ p.data = IF n < Len(file) THEN <<file[n + 1]>> ELSE <<>>
  BY PacketRead, FileTypes DEF Expects
<1>2. delivered[c] = SubSeq(file, 1, n) /\ delivered[c] \in Seq(Data)
  BY <1>1 DEF Inv, ClientsInStep, TypeOK
<1>3. Accept(c, p)
  BY DEF ReceivePacket
<1>4. n < Len(file) => p.data # <<>>
  <2>1. \A x : Len(<<x>>) = 1 /\ Len(<<>>) = 0
    OBVIOUS
  <2> QED
    BY <1>1, <2>1
<1>5. cPc' = [cPc EXCEPT ![c] = IF n < Len(file) THEN "receive" ELSE "done"]
  <2>1. CASE n < Len(file)
    <3>1. cPc' = cPc /\ cPc \in [Clients -> {"off", "request", "wait", "receive",
                                             "done", "gaveup", "failed", "killed"}]
      BY <1>3, <1>4, <2>1 DEF Accept, Inv, TypeOK
    <3>2. cPc = [cPc EXCEPT ![c] = "receive"]
      BY <1>1, <3>1
    <3> QED
      BY <2>1, <3>1, <3>2
  <2>2. CASE ~(n < Len(file))
    BY <1>1, <1>3, <2>2 DEF Accept, MoveTo
  <2> QED
    BY <2>1, <2>2
<1>6. delivered[c] \o p.data = SubSeq(file, 1, IF n < Len(file) THEN n + 1 ELSE n)
  <2>1. CASE n < Len(file)
    <3>1. SubSeq(file, 1, n) \o <<file[n + 1]>> = SubSeq(file, 1, n + 1)
      <4>1. file \in Seq(Data) /\ n \in Nat /\ n < Len(file)
        BY <1>1, <2>1
      <4> HIDE DEF file, n
      <4> QED
        BY <4>1, FirstEntriesGrow
    <3>2. delivered[c] = SubSeq(file, 1, n) /\ p.data = <<file[n + 1]>>
      BY <1>1, <1>2, <2>1
    <3> HIDE DEF file, n
    <3> QED
      BY <2>1, <3>1, <3>2
  <2>2. CASE ~(n < Len(file))
    <3>1. delivered[c] \o p.data = delivered[c]
      BY <1>1, <1>2, <2>2, ConcatEmptySeq
    <3> QED
      BY <1>2, <2>2, <3>1
  <2> QED
    BY <2>1, <2>2
<1>7. delivered' = [delivered EXCEPT ![c] =
                      SubSeq(file, 1, IF n < Len(file) THEN n + 1 ELSE n)]
  BY <1>3, <1>6 DEF Accept
<1> QED
  BY <1>1, <1>2, <1>3, <1>5, <1>7 DEF Accept

LEMMA AcceptPreserves ==
  ASSUME SameFile, Inv, NEW c \in Clients, NEW p \in pkts, ReceivePacket(c, p),
         Expects(c, p), UNCHANGED listenerVars
  PROVE  Inv'
<1> DEFINE file == Files[FileName(c)]
           n == ackNo[c]
           m == IF n < Len(file) THEN n + 1 ELSE n
<1>1. /\ FileName(c) \in DOMAIN Files /\ n \in 0 .. Len(file) /\ Len(file) \in Nat
      /\ n \in Nat /\ file \in Seq(Data) /\ m \in 0 .. Len(file)
      /\ p.from \in DOMAIN children /\ TypeOK /\ deployment' = deployment
  <2>1. /\ FileName(c) \in DOMAIN Files /\ n \in 0 .. Len(file) /\ Len(file) \in Nat
        /\ p.from \in DOMAIN children
    BY AcceptMoves, PacketRead
  <2>2. file \in Seq(Data)
    BY <2>1, FileTypes
  <2>3. TypeOK /\ deployment' = deployment
    BY DEF Inv, ReceivePacket
  <2> HIDE DEF file, n
  <2> QED
    BY <2>1, <2>2, <2>3
<1>2. /\ SendAck(p.from, n) /\ cPc[c] = "receive"
      /\ ackNo' = [ackNo EXCEPT ![c] = n + 1]
      /\ last_pack' = [last_pack EXCEPT ![c] = n]
      /\ delivered' = [delivered EXCEPT ![c] = SubSeq(file, 1, m)]
      /\ cPc' = [cPc EXCEPT ![c] = IF n < Len(file) THEN "receive" ELSE "done"]
  BY AcceptMoves
<1>3. SubSeq(file, 1, m) \in Seq(Data)
  BY <1>1, FirstEntries
<1> HIDE DEF file, n, m
<1>4. /\ ackNo' \in [Clients -> Nat] /\ last_pack' \in [Clients -> Nat \cup {NoAck}]
      /\ delivered' \in [Clients -> Seq(Data)]
      /\ cPc' \in [Clients -> {"off", "request", "wait", "receive",
                               "done", "gaveup", "failed", "killed"}]
      /\ ackNo'[c] = n + 1 /\ last_pack'[c] = n
      /\ delivered'[c] = SubSeq(file, 1, m)
      /\ cPc'[c] = IF n < Len(file) THEN "receive" ELSE "done"
      /\ \A b \in Clients \ {c} : /\ ackNo'[b] = ackNo[b] /\ last_pack'[b] = last_pack[b]
                                  /\ delivered'[b] = delivered[b] /\ cPc'[b] = cPc[b]
  <2>1. /\ ackNo \in [Clients -> Nat] /\ last_pack \in [Clients -> Nat \cup {NoAck}]
        /\ delivered \in [Clients -> Seq(Data)]
        /\ cPc \in [Clients -> {"off", "request", "wait", "receive",
                                "done", "gaveup", "failed", "killed"}]
    BY <1>1 DEF TypeOK
  <2>2. /\ ackNo' \in [Clients -> Nat] /\ ackNo'[c] = n + 1
        /\ last_pack' \in [Clients -> Nat \cup {NoAck}] /\ last_pack'[c] = n
        /\ \A b \in Clients \ {c} : ackNo'[b] = ackNo[b] /\ last_pack'[b] = last_pack[b]
    BY <1>1, <1>2, <2>1
  <2>3. /\ delivered' \in [Clients -> Seq(Data)] /\ delivered'[c] = SubSeq(file, 1, m)
        /\ \A b \in Clients \ {c} : delivered'[b] = delivered[b]
    BY <1>2, <1>3, <2>1
  <2>4. /\ cPc' \in [Clients -> {"off", "request", "wait", "receive",
                                 "done", "gaveup", "failed", "killed"}]
        /\ cPc'[c] = IF n < Len(file) THEN "receive" ELSE "done"
        /\ \A b \in Clients \ {c} : cPc'[b] = cPc[b]
    BY <1>2, <2>1
  <2> QED
    BY <2>2, <2>3, <2>4
<1>5. GoesOn
  <2>1. \A b \in Clients : ackNo[b] <= ackNo'[b] /\ (cPc[b] = "done" => cPc'[b] = "done")
    <3> SUFFICES ASSUME NEW b \in Clients
                 PROVE  ackNo[b] <= ackNo'[b] /\ (cPc[b] = "done" => cPc'[b] = "done")
      OBVIOUS
    <3>1. CASE b = c
      BY <1>1, <1>2, <1>4, <3>1 DEF n
    <3>2. CASE b # c
      <4>1. ackNo[b] \in Nat
        BY <1>1 DEF TypeOK
      <4> QED
        BY <1>4, <3>2, <4>1
    <3> QED
      BY <3>1, <3>2
  <2> QED
    BY <1>1, <2>1, ClientGoesOn
<1>6. /\ \A a \in acks' : a.to \in sockets
      /\ \A a \in acks' \ acks : a.to = p.from /\ a.ackno \in Nat /\ a.ackno < ackNo'[c]
  BY <1>1, <1>2, <1>4, SendAckSends
<1>7. ClientsInStep'
  <2> SUFFICES ASSUME NEW b \in Clients
               PROVE  (/\ last_pack[b] = ackNo[b] - 1
                       /\ IF FileName(b) \in DOMAIN Files
                          THEN /\ ackNo[b] <= Len(Files[FileName(b)]) + 1
                               /\ cPc[b] = "done" <=>
                                    ackNo[b] = Len(Files[FileName(b)]) + 1
                               /\ delivered[b] = SubSeq(Files[FileName(b)], 1,
                                    IF cPc[b] = "done" THEN Len(Files[FileName(b)])
                                                       ELSE ackNo[b])
                          ELSE ackNo[b] = 0 /\ cPc[b] # "done" /\ delivered[b] = <<>>)'
    BY DEF ClientsInStep
  <2>1. FileName(b)' = FileName(b)
    BY <1>1 DEF FileName
  <2>2. CASE b # c
    BY <1>4, <2>1, <2>2 DEF Inv, ClientsInStep
  <2>3. CASE b = c
    <3>1. CASE n < Len(file)
      <4>1. m = n + 1 /\ cPc'[c] # "done" /\ n + 1 # Len(file) + 1 /\ n = n + 1 - 1
            /\ n + 1 <= Len(file) + 1
        BY <1>1, <1>4, <3>1 DEF m
      <4> QED
        BY <1>1, <1>4, <2>1, <2>3, <4>1 DEF file
    <3>2. CASE ~(n < Len(file))
      <4>1. m = Len(file) /\ cPc'[c] = "done" /\ n + 1 = Len(file) + 1
            /\ n = n + 1 - 1 /\ n + 1 <= Len(file) + 1
        BY <1>1, <1>4, <3>2 DEF m
      <4> QED
        BY <1>1, <1>4, <2>1, <2>3, <4>1 DEF file
    <3> QED
      BY <3>1, <3>2
  <2> QED
    BY <2>2, <2>3
<1>8. cPc'[c] \in {"receive", "done"}
  BY <1>4
<1> QED
  BY <1>4, <1>5, <1>6, <1>7, <1>8, ReaderMoves

LEMMA RefusePreserves ==
  ASSUME SameFile, Inv, NEW c \in Clients, NEW p \in pkts, ReceivePacket(c, p),
         ~Expects(c, p), UNCHANGED listenerVars
  PROVE  Inv'
<1>1. /\ RepeatLastAck(c, p) /\ UNCHANGED <<cPc, ackNo, last_pack, delivered>>
      /\ p.from \in DOMAIN children /\ TypeOK /\ deployment' = deployment
      /\ cPc[c] = "receive"
  BY PacketRead DEF Inv, ReceivePacket, Refuse
<1>2. GoesOn
  <2>1. \A b \in Clients : ackNo[b] <= ackNo'[b] /\ (cPc[b] = "done" => cPc'[b] = "done")
    BY <1>1 DEF TypeOK
  <2> QED
    BY <1>1, <2>1, ClientGoesOn
<1>3. /\ \A a \in acks' : a.to \in sockets
      /\ \A a \in acks' \ acks : a.to = p.from /\ a.ackno \in Nat /\ a.ackno < ackNo'[c]
  <2>1. CASE last_pack[c] = NoAck
    BY <1>1, <2>1 DEF RepeatLastAck, TypeOK
  <2>2. CASE last_pack[c] # NoAck
    <3>1. last_pack[c] \in Nat /\ SendAck(p.from, last_pack[c])
      BY <1>1, <2>2 DEF RepeatLastAck, TypeOK
    <3>2. last_pack[c] < ackNo'[c]
      BY <1>1, <3>1 DEF Inv, ClientsInStep, TypeOK
    <3> QED
      BY <1>1, <3>1, <3>2, SendAckSends
  <2> QED
    BY <2>1, <2>2
<1>4. ClientsInStep'
  BY <1>1 DEF Inv, ClientsInStep, FileName
<1> QED
  BY <1>1, <1>2, <1>3, <1>4, ReaderMoves DEF TypeOK

-----------------------------------------------------------------------------
(* The invariant. *)

LEMMA InitEstablishes == Init => Inv
<1> SUFFICES ASSUME Init PROVE Inv
  OBVIOUS
<1>1. /\ deployment \in Deployments /\ requests = [c \in Clients |-> 0]
      /\ sockets = {} /\ pkts = {} /\ acks = {} /\ listening = TRUE /\ children = <<>>
      /\ cPc = [c \in Clients |-> "off"] /\ ntry = [c \in Clients |-> 0]
      /\ ackNo = [c \in Clients |-> 0] /\ last_pack = [c \in Clients |-> NoAck]
      /\ delivered = [c \in Clients |-> <<>>]
  BY DEF Init, SessionNetInit, ListenerInit, ClientInit
<1>2. TypeOK
  BY <1>1, RetriesAssumption DEF TypeOK
<1>3. RequestsAreCounted
  BY <1>1, RetriesAssumption DEF RequestsAreCounted
<1>4. ChildrenServeRuns /\ PacketsAreOfTheFile /\ AcksAreOfAccepted /\ NoChildAhead
  BY <1>1 DEF ChildrenServeRuns, PacketsAreOfTheFile, AcksAreOfAccepted, NoChildAhead
<1>5. ClientsInStep
  <2>1. \A f \in DOMAIN Files : SubSeq(Files[f], 1, 0) = <<>> /\ Len(Files[f]) \in Nat
    BY FileTypes
  <2> QED
    BY <1>1, <2>1 DEF ClientsInStep, NoAck
<1> QED
  BY <1>2, <1>3, <1>4, <1>5 DEF Inv

LEMMA NextPreserves ==
  ASSUME SameFile
  PROVE  Inv /\ [Next]_vars => Inv'
<1> SUFFICES ASSUME Inv, [Next]_vars PROVE Inv'
  OBVIOUS
<1>1. CASE ServerStep
  <2>1. CASE \E c \in Clients : ReceiveRequest(c)
    BY <1>1, <2>1, ReceiveRequestPreserves DEF ServerStep
  <2>2. CASE ListenerFails
    BY <1>1, <2>2, ListenerFailsPreserves DEF ServerStep
  <2>3. CASE \E ks \in SUBSET DOMAIN children : Interrupt(ks)
    BY <1>1, <2>3, InterruptPreserves DEF ServerStep
  <2>4. ASSUME NEW k \in DOMAIN children,
               Transmit(k) \/ GiveUp(k) \/ \E a \in acks : ReceiveAck(k, a.ackno)
        PROVE  Inv'
    <3>1. CASE Transmit(k)
      BY <1>1, <3>1, TransmitPreserves DEF ServerStep
    <3>2. CASE GiveUp(k)
      BY <1>1, <3>2, GiveUpPreserves DEF ServerStep
    <3>3. CASE \E a \in acks : ReceiveAck(k, a.ackno)
      BY <1>1, <3>3, ReceiveAckPreserves DEF ServerStep
    <3> QED
      BY <2>4, <3>1, <3>2, <3>3
  <2> QED
    BY <1>1, <2>1, <2>2, <2>3, <2>4 DEF ServerStep, ServerNext
<1>2. CASE ClientStep
  <2>1. PICK c \in Clients :
          \/ Start(c) \/ SendRequest(c) \/ SendRequestFails(c)
          \/ ResponseTimeout(c) \/ SeesAnswer(c) \/ Kill(c)
          \/ \E p \in pkts : ReceivePacket(c, p)
    BY <1>2 DEF ClientStep, ClientNext
  <2>2. UNCHANGED listenerVars
    BY <1>2 DEF ClientStep
  <2>3. CASE \E p \in pkts : ReceivePacket(c, p)
    BY <2>2, <2>3, AcceptPreserves, RefusePreserves
  <2> QED
    BY <2>1, <2>2, <2>3, StartPreserves, SendRequestPreserves, SendRequestFailsPreserves,
       ResponseTimeoutPreserves, SeesAnswerPreserves, KillPreserves
<1>3. CASE UNCHANGED vars
  BY <1>3 DEF vars, sessionNetVars, listenerVars, clientVars, Inv, TypeOK, Sending,
     RequestsAreCounted, ChildrenServeRuns, IsNumberOf, PacketsAreOfTheFile,
     CarriesFileOf, AcksAreOfAccepted, ClientsInStep, NoChildAhead, Address, FileName,
     RunAt
<1> QED
  BY <1>1, <1>2, <1>3 DEF Next

\* The invariant holds, whatever is lost, fails or is interrupted, when those
\* who share an address want one file.
THEOREM Invariance ==
  ASSUME SameFile
  PROVE  Spec => []Inv
<1>1. Init => Inv
  BY InitEstablishes
<1>2. Inv /\ [Next]_vars => Inv'
  BY NextPreserves
<1> QED
  BY <1>1, <1>2, PTL DEF Spec

\* The variables keep their types; an open socket is one of a child that is
\* sending, and nothing is in flight to a socket that is closed.
THEOREM TypeCorrect ==
  ASSUME SameFile
  PROVE  Spec => []TypeOK
<1>1. Inv => TypeOK
  BY DEF Inv
<1> QED
  BY <1>1, Invariance, PTL

\* No child has moved past a packet that no client at its address has
\* accepted: retransmitted requests, and acknowledgements of one child's
\* packets that reach another, never carry it over a segment.
THEOREM NoChildIsAhead ==
  ASSUME SameFile
  PROVE  Spec => []NoChildAhead
<1>1. Inv => NoChildAhead
  BY DEF Inv
<1> QED
  BY <1>1, Invariance, PTL

\* A client that says it has finished has the file it asked for.  Without
\* SameFile this is false.
THEOREM FilesAreWhole ==
  ASSUME SameFile
  PROVE  Spec => []FileIsWhole
<1>1. Inv => FileIsWhole
  <2> SUFFICES ASSUME Inv, NEW c \in Clients, cPc[c] = "done"
               PROVE  delivered[c] = Files[FileName(c)]
    BY DEF FileIsWhole
  <2> DEFINE file == Files[FileName(c)]
  <2>1. FileName(c) \in DOMAIN Files /\ delivered[c] = SubSeq(file, 1, Len(file))
    BY DEF Inv, ClientsInStep
  <2>2. file \in Seq(Data) /\ Len(file) \in Nat
    BY <2>1, FileTypes
  <2> HIDE DEF file
  <2>3. SubSeq(file, 1, Len(file)) = file
    <3>1. Len(file) \in 0 .. Len(file)
      BY <2>2
    <3>2. /\ SubSeq(file, 1, Len(file)) \in Seq(Data)
          /\ Len(SubSeq(file, 1, Len(file))) = Len(file)
          /\ \A j \in 1 .. Len(file) : SubSeq(file, 1, Len(file))[j] = file[j]
      BY <2>2, <3>1, FirstEntries
    <3> QED
      BY <2>2, <3>2, SeqEqual
  <2> QED
    BY <2>1, <2>3 DEF file
<1> QED
  BY <1>1, Invariance, PTL

-----------------------------------------------------------------------------
(* For each client the program implements ReliableTransfer. *)

LEMMA InitRefines == Init => \A c \in Clients, f \in DOMAIN Files : RT(c, f)!Init
BY DEF Init, ListenerInit, ClientInit, ChildrenOf, RT!Init

\* What serverDone stands for.
Reported(c) == Alone(c) /\ \E k \in ChildrenOf(c) : children[k].pc = "done"

\* A step of the server is one of the transfer to client c only if it is the
\* first report of success, and that comes after c is done.
LEMMA ServerRefines ==
  ASSUME SameFile, Inv, Inv', ServerStep, NEW c \in Clients, NEW f \in DOMAIN Files
  PROVE  RT(c, f)!Step
<1>1. UNCHANGED <<cPc, delivered, deployment>>
  BY DEF ServerStep, clientVars, ServerNext, ReceiveRequest, ListenerFails, Interrupt,
     Transmit, GiveUp, ReceiveAck, sessionNetVars
<1>2. Reported(c) => Reported(c)'
  <2> SUFFICES ASSUME Alone(c), NEW k \in DOMAIN children, children[k].client = c,
                      children[k].pc = "done"
               PROVE  /\ k \in DOMAIN children' /\ children'[k] = children[k]
                      /\ Alone(c)'
    BY DEF Reported, ChildrenOf
  <2>1. Alone(c)'
    BY <1>1 DEF Alone, RunAt, Address
  <2>2. k \in DOMAIN children' /\ children'[k] = children[k]
    <3>1. /\ children \in Seq(Children) /\ DOMAIN children = 1 .. Len(children)
          /\ Len(children) \in Nat /\ ~Sending(k)
      BY ChildTypes DEF Inv, Sending
    <3>2. CASE \E b \in Clients : ReceiveRequest(b)
      <4>1. CASE children' = children
        BY <4>1
      <4>2. CASE \E b \in Clients : \E pc \in ChildStarts(b) :
                   children' = Append(children, Child(b, pc))
        <5>1. PICK b \in Clients, pc \in {"sending", "invalid", "failed"} :
                children' = Append(children, Child(b, pc))
          BY <4>2 DEF ChildStarts
        <5>2. Child(b, pc) \in Children
          BY DEF Child, Children
        <5> QED
          BY <3>1, <5>1, <5>2
      <4> QED
        BY <3>2, <4>1, <4>2 DEF ReceiveRequest
    <3>3. CASE ListenerFails
      BY <3>3 DEF ListenerFails
    <3>4. CASE \E ks \in SUBSET DOMAIN children : Interrupt(ks)
      BY <3>1, <3>4 DEF Interrupt
    <3>5. CASE \E j \in DOMAIN children :
                 Transmit(j) \/ GiveUp(j) \/ \E a \in acks : ReceiveAck(j, a.ackno)
      BY <3>1, <3>5 DEF Transmit, GiveUp, ReceiveAck, listenerVars, Sending
    <3> QED
      BY <3>2, <3>3, <3>4, <3>5 DEF ServerStep, ServerNext
  <2> QED
    BY <2>1, <2>2
<1>3. Reported(c)' => cPc[c] = "done"
  <2> SUFFICES ASSUME Alone(c)', NEW k \in DOMAIN children', children'[k].client = c,
                      children'[k].pc = "done"
               PROVE  cPc'[c] = "done"
    BY <1>1 DEF Reported, ChildrenOf
  <2>1. \E b \in RunAt(c)' : cPc'[b] = "done"
    BY DEF Inv, NoChildAhead, RunAt, Address
  <2> QED
    BY <2>1 DEF Alone
<1>4. CASE Reported(c)' = Reported(c)
  BY <1>1, <1>4 DEF RT!Step, Reported
<1>5. CASE ~Reported(c) /\ Reported(c)'
  BY <1>1, <1>3, <1>5 DEF RT!Step, RT!Next, RT!ServerFinishes, Reported
<1> QED
  BY <1>2, <1>4, <1>5 DEF Reported

\* A step of a client is one of the transfer to it if it accepts a packet, and
\* leaves all other transfers alone.
LEMMA ClientRefines ==
  ASSUME SameFile, Inv, Inv', ClientStep, NEW c \in Clients, NEW f \in DOMAIN Files,
         FileName(c) = f
  PROVE  RT(c, f)!Step
<1>1. UNCHANGED listenerVars /\ deployment' = deployment
  BY DEF ClientStep, ClientNext, Start, SendRequest, SendRequestFails, ResponseTimeout,
     SeesAnswer, Kill, ReceivePacket, sessionNetVars
<1>2. Reported(c)' = Reported(c)
  BY <1>1 DEF Reported, Alone, RunAt, Address, ChildrenOf, listenerVars
<1>3. PICK b \in Clients :
        \/ Start(b) \/ SendRequest(b) \/ SendRequestFails(b)
        \/ ResponseTimeout(b) \/ SeesAnswer(b) \/ Kill(b)
        \/ \E p \in pkts : ReceivePacket(b, p)
  BY DEF ClientStep, ClientNext
<1>4. CASE \E p \in pkts : ReceivePacket(b, p) /\ Expects(b, p)
  <2>1. PICK p \in pkts : ReceivePacket(b, p) /\ Expects(b, p)
    BY <1>4
  <2> DEFINE file == Files[FileName(b)]
             n == ackNo[b]
             m == IF n < Len(file) THEN n + 1 ELSE n
  <2>2. /\ n \in 0 .. Len(file) /\ Len(file) \in Nat
        /\ FileName(b) \in DOMAIN Files /\ delivered[b] = SubSeq(file, 1, n)
        /\ cPc[b] = "receive"
        /\ delivered' = [delivered EXCEPT ![b] = SubSeq(file, 1, m)]
        /\ cPc' = [cPc EXCEPT ![b] = IF n < Len(file) THEN "receive" ELSE "done"]
    BY <2>1, AcceptMoves
  <2>3. CASE b # c
    <3>1. cPc'[c] = cPc[c] /\ delivered'[c] = delivered[c]
      BY <2>2, <2>3 DEF Inv, TypeOK
    <3> QED
      BY <1>2, <3>1 DEF RT!Step, Reported
  <2>4. CASE b = c
    <3>1. /\ delivered'[c] = SubSeq(file, 1, m)
          /\ cPc'[c] = IF n < Len(file) THEN "receive" ELSE "done"
          /\ file = Files[f]
      BY <2>2, <2>4 DEF Inv, TypeOK
    <3>2. Len(delivered[c]) = n
      <4>1. file \in Seq(Data)
        BY <2>2, FileTypes
      <4>2. delivered[c] = SubSeq(file, 1, n)
        BY <2>2, <2>4
      <4> HIDE DEF file, n
      <4> QED
        BY <2>2, <4>1, <4>2, FirstEntries
    <3> HIDE DEF file, n
    <3>3. n \in Nat /\ n <= Len(file) /\ Len(file) \in Nat
      BY <2>2
    <3>4. m \in n .. Len(file) /\ (cPc'[c] = "done" <=> m = Len(file) /\ n = Len(file))
      BY <3>1, <3>3
    <3> HIDE DEF m
    <3>5. (cPc'[c] = "done") \in {FALSE, m = Len(file)}
      <4>1. CASE n = Len(file)
        BY <3>4, <4>1, Zenon
      <4>2. CASE n # Len(file)
        BY <3>4, <4>2, Zenon
      <4> QED
        BY <4>1, <4>2
    <3>6. cPc[c] # "done"
      BY <2>2, <2>4
    <3>7. RT(c, f)!ClientWrites
      BY <1>2, <3>1, <3>2, <3>4, <3>5, <3>6 DEF RT!ClientWrites, Reported
    <3> QED
      BY <3>7 DEF RT!Step, RT!Next
  <2> QED
    BY <2>3, <2>4
<1>5. CASE ~\E p \in pkts : ReceivePacket(b, p) /\ Expects(b, p)
  <2>1. delivered' = delivered /\ (cPc'[c] = "done" <=> cPc[c] = "done")
    <3>1. CASE \E p \in pkts : ReceivePacket(b, p)
      BY <1>5, <3>1 DEF ReceivePacket, Refuse
    <3>2. CASE Bound(b) \/ Start(b)
      BY <1>3, <1>5, <3>2 DEF Start, SendRequest, SendRequestFails, ResponseTimeout,
         SeesAnswer, Kill, MoveTo, Bound, Inv, TypeOK, ReceivePacket, Refuse
    <3> QED
      BY <1>3, <3>1, <3>2 DEF SendRequest, SendRequestFails, ResponseTimeout,
         SeesAnswer, Kill, Bound
  <2>2. (cPc'[c] = "done") = (cPc[c] = "done")
    BY <2>1
  <2> QED
    BY <1>2, <2>1, <2>2 DEF RT!Step, Reported
<1> QED
  BY <1>4, <1>5

LEMMA NextRefines ==
  ASSUME SameFile
  PROVE  Inv /\ Inv' /\ [Next]_vars =>
           [\A c \in Clients, f \in DOMAIN Files : FileName(c) = f => RT(c, f)!Step]_vars
BY ServerRefines, ClientRefines DEF Next

\* Each client is handed the segments of the file it asked for in order, each
\* once, and stops only with the whole file; no child reports success to a
\* client alone at its address before that.
THEOREM Refinement ==
  ASSUME SameFile
  PROVE  Spec => ImplementsReliableTransfers
<1>1. Init => \A c \in Clients, f \in DOMAIN Files : RT(c, f)!Init
  BY InitRefines
<1>2. Inv /\ Inv' /\ [Next]_vars =>
        [\A c \in Clients, f \in DOMAIN Files : FileName(c) = f => RT(c, f)!Step]_vars
  BY NextRefines
<1> QED
  BY <1>1, <1>2, Invariance, PTL DEF Spec, ImplementsReliableTransfers
=============================================================================
