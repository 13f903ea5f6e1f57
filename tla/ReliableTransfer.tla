-------------------------- MODULE ReliableTransfer --------------------------
(***************************************************************************)
(* What every technique promises, with no network: the client is handed    *)
(* the segments of the file in order, each once, and stops only with the   *)
(* whole file; the server reports success only after the client stopped.   *)
(***************************************************************************)
EXTENDS Naturals, Sequences

CONSTANT File

VARIABLES
  delivered,   \* segments fed to the client's DataSink so far
  clientDone,  \* recv_message returned
  serverDone   \* send_message returned with everything acknowledged

Init == delivered = <<>> /\ clientDone = FALSE /\ serverDone = FALSE

\* The client extends what it wrote with the next segments, maybe none, and
\* may stop when they complete the file.
ClientWrites ==
  /\ ~clientDone
  /\ \E n \in Len(delivered) .. Len(File) :
       /\ delivered' = SubSeq(File, 1, n)
       /\ clientDone' \in {FALSE, n = Len(File)}
  /\ UNCHANGED serverDone

ServerFinishes ==
  /\ clientDone
  /\ serverDone' = TRUE
  /\ UNCHANGED <<delivered, clientDone>>

Next == ClientWrites \/ ServerFinishes

\* A step of this transfer, or none: for systems of several transfers.
Step == [Next]_<<delivered, clientDone, serverDone>>

Spec == Init /\ [][Next]_<<delivered, clientDone, serverDone>>
=============================================================================
