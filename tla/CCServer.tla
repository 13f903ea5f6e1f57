------------------------------ MODULE CCServer ------------------------------
(***************************************************************************)
(* SelectiveRepeatCCServer: the selective repeat server with congestion    *)
(* control.  It handles packets as SelectiveRepeatServer does, within a    *)
(* window that grows with acknowledgements and shrinks with timeouts and   *)
(* with the duplicate acknowledgements that control.cc simulates; and its  *)
(* last loop waits for sendOrder, not for seqnums_sent, to empty.          *)
(***************************************************************************)
EXTENDS SRServer

CONSTANT dupAcks  \* control.cc: acknowledgements before each simulated triple

ASSUME DupAcksAssumption == dupAcks \in Seq(Nat)

VARIABLES
  cc,           \* the window, its threshold, the acknowledgements counted
                \* towards the next unit of it (miniWin), and the window last
                \* pushed on transmission_rounds_window
  successAcks,  \* acknowledgements accepted since the last simulated triple
  dupAckIndex   \* simulated triples so far

ccVars == <<cc, successAcks, dupAckIndex>>

CCServerInit ==
  /\ ServerInit
  /\ cc = [window |-> 1, ssthres |-> sendWindow, miniWin |-> 0, recorded |-> 1]
  /\ successAcks = 0
  /\ dupAckIndex = 0

CCWindowOpen == base_seq_no + cc.window > seq_no
InCCWindow(n) == n >= base_seq_no /\ n < base_seq_no + cc.window

-----------------------------------------------------------------------------
(* The congestion window. *)

\* Slow start: one more for each acknowledgement, recorded when the window
\* has doubled.
SlowStart(c) ==
  [c EXCEPT !.window = @ + 1,
            !.recorded = IF c.window + 1 = 2 * @ THEN c.window + 1 ELSE @]

\* Congestion avoidance: one more for each full window of acknowledgements.
Avoidance(c) ==
  IF c.miniWin + 1 = c.window
  THEN [c EXCEPT !.window = @ + 1, !.miniWin = 0, !.recorded = c.window + 1]
  ELSE [c EXCEPT !.miniWin = @ + 1]

Grow(c) == IF c.window >= c.ssthres THEN Avoidance(c) ELSE SlowStart(c)

\* window_decrease
KeepsMiniWin(c, timeout) ==
  LET half == IF c.window \div 2 = 0 THEN 1 ELSE c.window \div 2
      window == IF timeout THEN 1 ELSE half
  IN  [window |-> window, ssthres |-> half, miniWin |-> c.miniWin,
       recorded |-> window]
Decrease(c, timeout) ==
  LET half == IF c.window \div 2 = 0 THEN 1 ELSE c.window \div 2
      window == IF timeout THEN 1 ELSE half
  IN  [window |-> window, ssthres |-> half, miniWin |-> 0, recorded |-> window]

\* One window_decrease for each of k packets that timed out in one pass; the
\* second already finds a window of 1, and so does every later one.
AfterTimeouts(c, k) ==
  CASE k = 0 -> c
    [] k = 1 -> Decrease(c, TRUE)
    [] OTHER -> Decrease(Decrease(c, TRUE), TRUE)

\* The window after an accepted acknowledgement.
CountAck ==
  IF dupAckIndex < Len(dupAcks) /\ successAcks + 1 = dupAcks[dupAckIndex + 1]
  THEN /\ cc' = Decrease(Grow(cc), FALSE)
       /\ successAcks' = 0
       /\ dupAckIndex' = dupAckIndex + 1
  ELSE /\ cc' = Grow(cc)
       /\ successAcks' = successAcks + 1
       /\ UNCHANGED dupAckIndex

-----------------------------------------------------------------------------
(* The loops of send_message, receive_ack and updateTimers. *)

CCSendNext ==
  /\ sPc = "loop" /\ HasNext /\ CCWindowOpen
  /\ SendPacket
  /\ UNCHANGED ccVars

CCSendFails ==
  /\ sPc = "loop" /\ HasNext /\ CCWindowOpen
  /\ GiveUp
  /\ UNCHANGED ccVars

CCAwaitAcks ==
  /\ sPc = "loop"
  /\ IF HasNext THEN ~CCWindowOpen ELSE sendOrder # <<>>
  /\ sPc' = "drain"
  /\ UNCHANGED <<netVars, seq_no, base_seq_no, sendOrder, seqnums_sent,
                 data_sent, acks, remain_size, lastPacket, ccVars>>

CCFinish ==
  /\ sPc = "loop" /\ ~HasNext /\ sendOrder = <<>>
  /\ sPc' = "done"
  /\ UNCHANGED <<netVars, seq_no, base_seq_no, sendOrder, seqnums_sent,
                 data_sent, acks, remain_size, lastPacket, ccVars>>

\* An acknowledgement beyond a window that shrank since is refused, like a
\* damaged one.
CCReceiveAck(a, intact) ==
  /\ Draining
  /\ a \in ackNet
  /\ ackNet' \in AfterReading(ackNet, a)
  /\ IF intact /\ InCCWindow(a) /\ a \in TouchedKeys
     THEN CrossOff(a) /\ CountAck
     ELSE /\ seqnums_sent' = TouchedKeys
          /\ UNCHANGED <<base_seq_no, acks, data_sent, sendOrder, ccVars>>
  /\ sPc' = IF intact /\ InCCWindow(a) THEN sPc ELSE AfterRefusal
  /\ UNCHANGED <<faults, pkts, seq_no, remain_size, lastPacket>>

\* Each timed out packet shrinks the window before it is sent again, the one
\* for which sendto fails too.
CCUpdateTimers(k, sent) ==
  /\ UpdateTimers(k, sent)
  /\ cc' = AfterTimeouts(cc, IF sPc' = "failed" THEN k + 1 ELSE k)
  /\ UNCHANGED <<successAcks, dupAckIndex>>

CCResend(n) ==
  \E k \in 1 .. Len(sendOrder) : \E sent \in SUBSET (1 .. k) :
    /\ \E i \in sent : sendOrder[i] = n
    /\ CCUpdateTimers(k, sent)

CCLeaveDrain ==
  \E k \in 0 .. Len(sendOrder) :
    \E sent \in SUBSET (1 .. k) : CCUpdateTimers(k, sent)

CCServerNext ==
  \/ CCSendNext \/ CCSendFails \/ CCAwaitAcks \/ CCFinish
  \/ \E a \in ackNet, intact \in Intact : CCReceiveAck(a, intact)
  \/ ReceiveError /\ UNCHANGED ccVars
  \/ CCLeaveDrain
=============================================================================
