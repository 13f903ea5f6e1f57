------------------------------ MODULE DataSink ------------------------------
(***************************************************************************)
(* DataSink (data_managers/DataSink.cpp): where a client worker puts the   *)
(* segments it accepts, in the order it accepts them.                      *)
(***************************************************************************)
EXTENDS Packets

VARIABLE delivered  \* the segments fed so far: the content of the client's file

SinkInit == delivered = <<>>

\* One feed_next_data for each segment of segs, in order.
FeedNextData(segs) == delivered' = delivered \o segs
=============================================================================
