------------------------- MODULE SelectiveRepeatCC -------------------------
(***************************************************************************)
(* One transfer with selective repeat and congestion control: a server     *)
(* child, its client and the datagrams between them.                       *)
(***************************************************************************)
EXTENDS CCServer, CCClient

vars == <<serverVars, ccVars, clientVars, netVars>>

Init == CCServerInit /\ ClientInit /\ NetInit

ServerStep == CCServerNext /\ UNCHANGED clientVars
ClientStep == CCClientNext /\ UNCHANGED <<serverVars, ccVars>>

Next == ServerStep \/ ClientStep

Spec == Init /\ [][Next]_vars

Numbers == 0 .. FinSeqno

\* The client reads packet n, and its acknowledgement, if there is one, is not
\* lost.
Answer(n) ==
  /\ CCReceivePacket(DataPacket(n, Segment(n)), TRUE)
  /\ InReAckRange(n) \/ InRecvWindow(n) => n \in ackNet'

\* As in SelectiveRepeat: the server keeps running, and it drains the socket
\* faster than datagrams arrive; the clock passes and rand() does not drop the
\* same packet for ever; what is sent again and again arrives intact now and
\* then.
Fairness ==
  /\ WF_vars(ServerStep)
  /\ WF_vars(CCLeaveDrain /\ UNCHANGED clientVars)
  /\ \A n \in Numbers :
       /\ SF_vars(CCResend(n) /\ UNCHANGED clientVars)
       /\ SF_vars(Answer(n) /\ UNCHANGED <<serverVars, ccVars>>)
       /\ SF_vars(CCReceiveAck(n, TRUE) /\ UNCHANGED clientVars)

FairSpec == Spec /\ Fairness

-----------------------------------------------------------------------------
(* The window of selective repeat, were it as large as the transfer, would   *)
(* never be full.  To the packets, congestion control does nothing else: it *)
(* only waits where this server would send, and refuses acknowledgements    *)
(* that this one would take.                                                *)
SR == INSTANCE SelectiveRepeat WITH sendWindow <- FinSeqno + 1

\* The types: those of selective repeat, and those of the window.
TypeOK ==
  /\ SR!TypeOK
  /\ cc \in [window : Nat, ssthres : Nat, miniWin : Nat, recorded : Nat]
  /\ successAcks \in Nat /\ dupAckIndex \in 0 .. Len(dupAcks)

\* A number the server sent and no longer waits for is one the client holds:
\* the client acknowledges without asking whether it had room to keep a segment.
CrossedOffIsHeld == SR!CrossedOffIsHeld

\* Every lookup updateTimers and receive_ack dereference without testing
\* finds its key, for a window that moves both ways under what is in flight.
LookupsSucceed ==
  /\ \A n \in Outstanding : n \in seqnums_sent /\ n \in DOMAIN data_sent
  /\ \A n \in seqnums_sent : InCCWindow(n) => n \in Outstanding

\* The window never stalls and the record of it never misses a round: there is
\* always room for the lowest outstanding packet, miniWin is left over neither
\* from a larger window nor from before slow start (or it would run past the
\* window it is compared with, and the window would stay for ever), and the
\* window has not doubled since the round recorded last.
WindowAdvances ==
  /\ cc.window >= 1
  /\ cc.miniWin < cc.window
  /\ cc.window < cc.ssthres => cc.miniWin = 0
  /\ cc.recorded <= cc.window /\ cc.window < 2 * cc.recorded

\* The server's window has no maximum, the client's has: a state in which all
\* that may be in flight fits the latter.
WithinRecvWindow == seq_no <= base_seq_no + recvWindow

\* Whatever the server may still resend in such a state, the client would
\* answer, also if the server's window was larger before, or is now.
ResendIsAnswered == WithinRecvWindow => SR!ResendIsAnswered

\* The inductive invariant: that of selective repeat, with no bound on what is
\* in flight but the file, and the window that says when to wait.
Inv == TypeOK /\ SR!Inv /\ WindowAdvances

RT == INSTANCE ReliableTransfer
        WITH clientDone <- cDone, serverDone <- (sPc = "done")

\* The transfer is reliable: in order, each segment once, nobody reports
\* success early.
ImplementsReliableTransfer == RT!Spec

\* The client gets the whole file and stops, if no sendto fails and the server
\* never has more in flight than fits the client's window: the acknowledgements
\* the server refuses when its window has shrunk do not stop the transfer.
ClientFinishesIfWithin == [](sPc # "failed" /\ WithinRecvWindow) => <>cDone

\* The client gets the whole file and stops, if its window is the maximum of
\* the server's.  It does not: the server's window outgrows its maximum.
ClientFinishes == recvWindow >= sendWindow => <>cDone
=============================================================================
