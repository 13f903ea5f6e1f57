------------------------------- MODULE MCWire -------------------------------
EXTENDS Wire

\* Bytes that go up and wrap round, and bytes that make every sum carry.
Ramp(size) == [i \in 1 .. size |-> (37 * i) % 256]
Ones(size) == [i \in 1 .. size |-> 255]

\* Around the boundaries of segments of 264 bytes, where bit 8 of a length, 256
\* bytes more or less, makes every kind of one: 0, 1 and 264 bytes become 256,
\* 257 and 8, which a buffer holds, 256 become none, as in the empty packet, 20
\* become more than it holds, and 250 less than nothing.
MCContents == {Ramp(n) : n \in {0, 1, 250, 256, 264, 265}} \cup {Ones(n) : n \in {20, 528}}

\* Numbers at the carries into the bytes and halves of a uint32_t.
MCNumbers == {0, 255, 256, 65535, 65536, 16777216, 2147483647}

\* One full segment of the program's size.
MCOneSegment == {Ramp(512)}
MCNoNumbers == {}
=============================================================================
