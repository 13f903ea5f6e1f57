------------------------------ MODULE FileSink ------------------------------
(***************************************************************************)
(* DataSink in bytes: every segment is written to the client's file and    *)
(* kept, as a packet, for get_buff.                                        *)
(***************************************************************************)
EXTENDS Checksum, SequencesExt

VARIABLES
  written,  \* the client's file
  packets   \* what feed_next_data kept

sinkVars == <<written, packets>>

\* set_write_file truncates.
SinkInit == written = <<>> /\ packets = <<>>

FeedNextData(core_data, seq_no) ==
  /\ written' = written \o SubSeq(core_data.data, 1, core_data.size)
  /\ packets' = Append(packets, CreateDataPacket(core_data, seq_no))

\* assembleAppMessage: what the packets hold, end to end.
GetBuff == FlattenSeq([i \in DOMAIN packets |-> PureData(packets[i])])
=============================================================================
