----------------------------- MODULE DataFeeder -----------------------------
(***************************************************************************)
(* DataFeeder (data_managers/DataFeeder.cpp): hands the file to a server   *)
(* worker one segment at a time and ends with one empty segment.  The file *)
(* is counted in segments here, remain_size is the number still to read.   *)
(***************************************************************************)
EXTENDS Packets

VARIABLES
  remain_size,  \* segments of File not read yet
  lastPacket    \* TRUE once the empty segment has been handed out

feederVars == <<remain_size, lastPacket>>

\* readFile on a file that exists.
FeederInit == remain_size = Len(File) /\ lastPacket = FALSE

NoFinalSegment == remain_size > 0
HasNext == remain_size > 0 \/ ~lastPacket

NextSegment ==
  IF remain_size > 0 THEN File[Len(File) - remain_size + 1] ELSE Empty

GetNextDataSegment ==
  IF remain_size > 0
  THEN remain_size' = remain_size - 1 /\ UNCHANGED lastPacket
  ELSE lastPacket' = TRUE /\ UNCHANGED remain_size

\* Where the feeder is after n segments, the empty one included.
FeederAt(n) ==
  /\ n <= FinSeqno + 1
  /\ remain_size = IF n < FinSeqno THEN FinSeqno - n ELSE 0
  /\ lastPacket <=> n > FinSeqno

\* A step in which the worker may take the next segment.
FeederStep == [HasNext /\ GetNextDataSegment]_feederVars
=============================================================================
