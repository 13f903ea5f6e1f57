----------------------------- MODULE FileFeeder -----------------------------
(***************************************************************************)
(* DataFeeder in bytes, with the FileReader it reads from.  What           *)
(* DataFeeder.tla says in segments is checked against this.                *)
(***************************************************************************)
EXTENDS Checksum, FiniteSetsExt

CONSTANT Contents  \* byte sequences the requested file may consist of

VARIABLES
  content,      \* the file
  position,     \* bytes of it that ifs has read
  remain_size,  \* bytes still to be handed out
  lastPacket    \* the empty segment was handed out

feederVars == <<content, position, remain_size, lastPacket>>

\* readFile of a file that exists: the size is taken once.
FeederInit ==
  /\ content \in Contents
  /\ position = 0
  /\ remain_size = Len(content)
  /\ lastPacket = FALSE

HasNext == remain_size > 0 \/ ~lastPacket

\* FileReader::read_chunk: the next size bytes, zeros for those ifs has not.
ReadChunk(size) ==
  CoreData(SubSeq(content, position + 1, Min({position + size, Len(content)})))

\* The size of the next segment, 0 for the last one.
FullOrNothing == IF remain_size > PCK_DATA_SIZE THEN PCK_DATA_SIZE ELSE 0
NextSize == IF remain_size > PCK_DATA_SIZE THEN PCK_DATA_SIZE ELSE remain_size

NextSegment == ReadChunk(NextSize)

GetNextDataSegment ==
  /\ position' = position + NextSize
  /\ remain_size' = remain_size - NextSize
  /\ lastPacket' = (lastPacket \/ remain_size = 0)
  /\ UNCHANGED content
=============================================================================
