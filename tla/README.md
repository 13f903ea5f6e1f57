# Reliable-Data-Transfer: models and proofs

TLA+ models of the file transfer program in `src/`, model-checked with TLC,
and theorems about them checked by the TLA+ proof system. The program sends one
file from a server to a client over UDP, with one of four techniques: stop and
wait, go-back-N, selective repeat, and selective repeat with congestion
control. What is claimed everywhere is the same: the client's file is the
server's file, nobody reports success early, and both ends come to an end.

Paths below are those of the repository (`workers/...` is
`src/workers/...` in it).

## 1. The system

| Part | State | Operations | Talks to |
|---|---|---|---|
| Server (`server/server.cpp`) | listening socket, `srand` seed | receive a request, `fork` a child that serves it | client's request; one worker per child |
| Client (`client/client.cpp`) | bound socket | send the request, up to 3 times, 20 s apart; run a worker | server; a worker |
| Server workers (`workers/*/*Server.cpp`) | sequence numbers, window, packets not acknowledged, send times | `send_message`, `receive_ack`, `updateTimers` / `resend_packet` | DataFeeder, socket |
| Client workers (`workers/*/*Client.cpp`) | next number, out-of-order buffer, end seen | `recv_message`, `handleWindow` | DataSink, socket |
| DataFeeder, DataSink (`data_managers/`) | bytes left, last packet given; packets written | `getNextDataSegment`; `feed_next_data` | file system |
| Sockets (`utils/socketUtils.cpp`, `serial.cpp`) | none | send, receive, `hasData`, what is left of a timeout | UDP |
| Packets (`web_models/`) | none | create, checksum, verify | |
| `WorkerFactory`, `parser`, `file_system`, `app_data`, `main` | none that outlives a call | | |

A server child and its client share nothing but datagrams. Neither keeps a
session: a packet is its number and its data, an acknowledgement its number.
Children are not told apart either: a client takes packets from whatever child
sends to its port, one of its own earlier request or of an earlier client there
included. Each process has one thread; all concurrency is between processes and
in the network. A server worker polls: its loop sends at most one packet, reads the
acknowledgements that have arrived, resends what has timed out. A client worker
blocks in `recvfrom`, with no timeout.

What is hard here:

- *Order.* Datagrams are lost, delayed and reordered, acknowledgements too, and
  they may be read long after the window they belonged to. Timeouts are 1 ms,
  so premature ones, and with them duplicates of everything, are the rule.
- *Both ends must agree on what may be forgotten.* The server erases its only
  copy of a packet on an acknowledgement; the client answers old packets only
  within one window. An error of one in either range loses a segment or stops
  the transfer for good.
- *Four indexes of the same packets* in the selective repeat servers
  (`sendOrder`, its iterators, `seqnums_sent`, `data_sent`) are used together
  without a test that a key exists.
- *The end.* The empty packet may overtake data; the client exits after an
  acknowledgement that may be lost; the server must then still notice.
- *The window moves both ways* with congestion control.
- *One client, several children.* A request that is not answered in 20 s is sent
  again and gets a second child; a child outlives its client whenever the last
  acknowledgement is lost, and goes on sending to the port.
- *Bytes.* Checksums that add words and fold carries, two byte orders, and files
  that end just before, at, or after the end of a segment.

What makes each part correct:

- worker pairs: refinement of `ReliableTransfer`; nothing acknowledged that is
  not held; whatever may be resent is answered; no untested lookup fails; they
  finish;
- congestion window: never 0, never stuck, recorded at least once per doubling;
- DataFeeder and DataSink: the segments concatenate to the file, one empty
  segment follows;
- checksum: undamaged packets are accepted, damage is noticed wherever the sum
  looks, what goes undetected is known, and what that does to the client;
- server and client: no harm from several children, a client comes to an end.

`PROJECT.json` lists under "hazards", by source line, what can go wrong, and
which property would notice.

## 2. Modules

```
Packets ── DataFeeder ──┬─ SWServer ─┐
   │                    ├─ GBNServer ┤
   ├── Udp ─────────────┼─ SRServer ─┼─ CCServer
   │                    │            │
   └── DataSink ────────┼─ SWClient ─┤        StopWait, GoBackN,
                        ├─ GBNClient ┤   →    SelectiveRepeat,
                        └─ SRClient ─┴─ CCClient   SelectiveRepeatCC
                                                     each implements
                                                     ReliableTransfer

RequestNet ─┬─ Server ─┬─ Session         implements ReliableTransfer for
            └─ Client ─┘                  every client

Serial ── Checksum ─┬─ FileFeeder ─┬─ Wire   implements ReliableTransfer and
                    └─ FileSink ───┘         DataFeeder, in bytes
```

- `Packets`: packets and the file as a sequence of segments. A segment of up to
  512 bytes is one value, the zero-length one that ends a transfer is `Empty`.
- `Udp`: one transfer's datagrams, a set for each direction, and its *fault
  profile*: whether acknowledgements may be lost, datagrams duplicated or
  damaged, socket calls fail. Data packets may always be lost, since the
  workers themselves drop them with probability p. Delay and reordering are
  always possible. A set merges identical datagrams in flight; under
  duplication a datagram may be read any number of times.
- `DataFeeder`, `DataSink`: where segments come from and go to.
- `SRServer`, `GBNServer`, `SWServer`, `CCServer`: one action for each thing the
  loop of `send_message` does: send a new packet, fail to, begin to wait, read
  an acknowledgement, fail to, run the timers, return. `sPc` is the place in
  the loop. Reading an acknowledgement is a whole call of `receive_ack`; a call
  of `updateTimers` (`UpdateTimers(k, sent)`: the first k numbers had timed
  out, those in `sent` were not dropped) is one action, since nothing but a
  client step could come between its sends, and that commutes with them.
- `SRClient`, `GBNClient`, `SWClient`, `CCClient`: one action, an iteration of
  the loop of `recv_message`.
- `SelectiveRepeat`, `GoBackN`, `StopWait`, `SelectiveRepeatCC`: a server child
  and its client together, the fairness, and the properties.
- `ReliableTransfer`: the promise of all four, without packets: the client
  appends the next segments, maybe none, stops with the whole file, and only
  then may the server report success. The refinement maps `delivered` to
  itself, `clientDone` to the return of `recv_message`, `serverDone` to a
  return of `send_message` at its end (not one of its error returns).
- `RequestNet`, `Server`, `Client`, `Session`: the two programs. A *deployment*,
  fixed for a behaviour, says which clients are run, at which address (host and
  port) each binds, which file it asks for, and what goes wrong. `Server` is
  `Server::start`: the listener, and a child for each request it reads, with its
  own socket and a `pc` for where it is. `Client` is `Client::start`: `cPc` is off,
  request (about to send it), wait (peeking for an answer), receive (in
  `recv_message`) or how it ended. Both run the stop and wait workers, on sockets
  many processes share: a packet goes from a child to an address, an
  acknowledgement to the child that sent the packet just read.
- `Serial`, `Checksum`, `FileFeeder`, `FileSink`: `serial.cpp`, `packet_utils.cpp`,
  and the two data managers with the file classes under them, in bytes. They
  have no abstraction but the size of a segment, a constant.
- `Wire`: these put together around a link that carries one datagram at a time
  and may change one bit of it, any one. Where the client's copy of the data would
  run over its buffer (`Overrun`) it is `crashed` and takes no further step. `Segments` says what the segments of the other
  modules are in bytes; `FeedsSegments` and `ImplementsReliableTransfer` are
  stated through it, so `Wire` justifies `Packets`, `DataFeeder` and `DataSink`.
- `MC...`: values for TLC.
- `SelectiveRepeatProofs`, `SelectiveRepeatCCProofs`, `GoBackNProofs`,
  `StopWaitProofs`, `SessionProofs`, `WireProofs`: the proofs; `SequenceLemmas`,
  `PacketLemmas`: what they share.

Two abstractions matter for what the results mean. *There is no clock*: a
timeout may happen at any poll, so every property holds for every timing, the
1 ms of `definitions.h` included; what is kept is that a packet times out no
earlier than those sent before it. *Damage is detected* outside `Wire`: a
damaged datagram fails `verifyChecksum`. `Wire` shows where that is so, and that
it is not so everywhere.

The techniques' modules compose one child with one client; `Session` composes
many, with stop and wait only, whose workers have the least state. What it
shows depends on what is common to all four: packets known by their number,
taken from any source, and acknowledged to that source.

The front of an empty `std::list` (`SelectiveRepeatServer.cpp:132`) is undefined;
`Front` is what libstdc++ gives, the size field of the list header, 0.

Some definitions come with a variant (`WindowOneOver` beside `WindowOpen`, ...):
a plausible mistake, used in no specification. Put in place of the original,
each makes TLC report the property PROJECT.json pairs it with.

## 3. Runs

| Run | Instance | Shows |
|---|---|---|
| `sr` | 3 segments, windows 2 and 2, three profiles: duplication; lost and damaged acknowledgements; all faults; 45 564 states | type, inductive invariant `Inv`, `CrossedOffIsHeld`, `LookupsSucceed`, `ResendIsAnswered`, refinement of `ReliableTransfer`; the client finishes unless a socket call fails; everything is acknowledged if no acknowledgement is lost |
| `sr_server_hang` | 1 segment, no fault | *violation*: the server need not return |
| `gbn` | 3 segments, window 2, three profiles; 12 479 states | type, inductive invariant `Inv`, the window's content, no pop of what was not sent, refinement, both ends finish if no acknowledgement is lost |
| `gbn_ack_loss` | 2 segments, window 2, lost acknowledgements | *violation*: the client need not finish |
| `sw` | 3 segments, all 16 profiles; 22 710 states | type, inductive invariant `Inv`, `InLockStep`, refinement, client and server finish |
| `cc` | 3 segments, windows 3 (maximum) and 2, triples after 3 and 1 acknowledgements, all faults but duplication; 14 706 states | type, inductive invariant `Inv`, `CrossedOffIsHeld`, `LookupsSucceed`, `WindowAdvances`, `ResendIsAnswered`, refinement; the client finishes if it stays within its window of the server's base |
| `cc_window` | 3 segments, windows 1, lost acknowledgements | *violation*: the client need not finish although its window is the server's maximum |
| `session` | 2 clients, 2 requests each; one address and file, two addresses, or one client with failing calls, SIGINT and kills; files of 0 to 2 segments and a missing one; 1 233 714 states | type, inductive invariant `Inv`, `NoChildAhead`, refinement of a `ReliableTransfer` for every client |
| `session_live` | 1 client, 2 requests, lost requests and acknowledgements, a file of 2 segments and a missing one; 5 404 states | a client alone at its address ends, with the file or after its last request |
| `session_mix` | 2 clients at one address, two files | *violation*: a client finishes with a file it did not ask for |
| `wire` | segments of 264 bytes; files of 0, 1, 250, 256, 264 and 265 bytes, and 20 and 528 bytes of 255; every single bit of every datagram damaged; 156 744 states | type, inductive invariant `Inv`, `DetectsDamage` (for 7 more numbers than the transfer's own), `UndamagedIsAccepted`, `OnlyBit8Overruns`, refinement of `DataFeeder` and, byte for byte, of `ReliableTransfer` |
| `wire_overrun` | segments of 512 bytes, a file of one | *violation*: the client accepts a packet with more data than its buffer holds |

*Bounds.* The state space is finite without a state constraint: numbers go up
to the number of the empty packet, and the network is a set. Three segments
with windows of 2 let the window close, slide over an acknowledgement that came
out of order, reach the empty packet while data before it is missing, and put
the client a whole window ahead of the server. `Inv` was
also checked with windows 3/2, 1/3, 0/2, 2/0 and 3/3; the theorems of section 4
cover every file, window, number of clients and size of a segment. With
congestion control three segments let the window pass its maximum and the
client's window, and a triple or a timeout leave packets in flight outside a
window of 1. The run has no duplication by the network, whose states are too many
for the liveness check; packets and acknowledgements still come twice, and late,
because they are sent again. All its properties also hold with duplication (58 554
states, several minutes), and the safety properties with four segments
(284 730 states), where the empty packet is in flight with data before it when
the window falls. The segments are different values, so that a swap or a
repetition is seen.

In `Session` two requests are what makes two children for one client, the
second also after the first has begun, and two clients at one address what
leaves the second with up to two children of the first. `RETRIES` is 3 in the
program, and in `session_mix`. A timeout of the client may come at any moment,
so also with an answer in flight; that is more than 20 s ever allow, and all but
`session_mix` hold nevertheless. The counterexample of `session_mix` uses no
timeout.

In `Wire` the segment is 264 bytes instead of 512: the sum covers the same eighth
of the data, and bit 8 of a length, 256 bytes more or less, makes lengths of
every kind: longer and shorter ones that a buffer holds, that of the empty packet
from a full one and the reverse, one longer than a buffer and one below that of
the header. `wire_overrun` has the program's 512. Damage is one bit of one
datagram until some of it was accepted; then no more is done, since what arrives
is wrong already. `DetectsDamage` is evaluated where nothing has been accepted
damaged, to look at each packet once: it is the same packet afterwards
(`PacketIsNext`).

*Deadlock* is not checked: a transfer stops when both ends have, and it also
stops, as the program does, when the server gave up because `sendto` failed and
the client waits.

### Fairness

- The server process keeps running (weak fairness of its step). The client's
  steps are fair only as far as the next points make them.
- The server does not read acknowledgements for ever without getting to its
  timers: acknowledgements arrive at the pace of its own sending.
- `rand()` does not drop the same packet for ever, and the clock passes (strong
  fairness of a resend that transmits it).
- A packet, or an acknowledgement, sent again and again arrives intact now and
  then (strong fairness of reading it).

None of this is fair about *losing*: a profile with lost acknowledgements may
lose any finite number, or infinitely many of them. Where the conclusion needs
a profile without them, it says so: the last acknowledgement of a transfer is
sent once and if it is lost every technique resends for ever, because the
client is gone. No liveness is claimed when a socket call fails for good.

In `Session` the same is assumed for each child: it sends again and again, what
it sends arrives now and then and so does the answer (`Answer`). A client that
has sent its request waits or goes on, the listener reads requests. Whether the
user ever starts a client is not assumed, and no request or acknowledgement is
assumed to get through: `ClientEnds` is that the client has its file or gave up.

### What the violations show

- `sr_server_hang`: `receive_ack` adds a phantom send time when it is called
  with nothing outstanding; the last loop of `send_message` waits for the send
  times to be gone. Two acknowledgements of the last packet in one drain are
  enough, and a premature timeout makes two.
- `gbn_ack_loss`: the go-back-N client never acknowledges a packet again.
- `cc_window`: the window of the congestion control server outgrows its
  configured maximum (README: "Maximum sending sliding-window size"), and so
  the client's window.
- `session_mix`: a child still sends the last packet of a transfer whose client
  has exited; the next client on that port asks for another file, and takes that
  packet for its own. The program built from `src/` does it too: with stop and
  wait, a client killed in the middle of a large file and another started on its
  port for a second file ends with "Finished Reception !" and the first file's
  content in most of the second.

- `wire_overrun`: bit 8 of the length is in no checksum (next section), and
  `extract_pure_data` copies what the length says. The run: the first packet of a
  file of 512 bytes has len 520, the bit makes it 776, `verifyChecksum` accepts it
  and the client copies 768 bytes into `packet_core_data.data`, which has 512.
  The stop and wait client compiled from `src/` (with and without optimization)
  and handed such a packet ends in a segmentation fault, and so it does on one of
  250 bytes, whose len of 258 becomes 2 and asks for 2^64 - 6. On 256 bytes,
  whose length becomes that of the empty packet, it returns with a file cut off.

### What the checksum misses

`DetectsDamage` holds with the exceptions of `MayPass`, which are those of the
code: bits 8 to 15 of the number and all data after the first eighth are in no
sum (`calculateChecksum` adds `PCK_DATA_SIZE / 16` words of two bytes), and of a
word that is summed bit 8 may vanish in a fold (`sum | 0x0100` is always true,
so bit 8 is cleared every time). Everywhere else every single damaged bit is
noticed, whatever the carries: `DamageIsDetected` proves it for packets of every
size, number and contents. The exceptions are no harm to the data alone: a
damaged length may end the transfer early, lengthen the file, or overrun the client's buffer.
`OnlyBit8Overruns` says that of all bits only bit 8 of the length does the last. The repository's
README.md:19 says only that it is a "16-bit checksum to check for bit errors".

## 4. Proofs

For every file, every window, and every set of fault profiles:

| Statement | `SelectiveRepeatProofs` | `SelectiveRepeatCCProofs` | `GoBackNProofs` | `StopWaitProofs` |
|---|---|---|---|---|
| `Spec => []Inv` | `Invariance` | `Invariance` | `Invariance` | `Invariance` |
| `Spec => []TypeOK` | `TypeCorrect` | `TypeCorrect` | `TypeCorrect` | `TypeCorrect` |
| `Spec => ImplementsReliableTransfer` | `Refinement` | `Refinement` | `Refinement` | `Refinement` |
| `Spec => []CrossedOffIsHeld` | `NothingForgottenEarly` | `NothingForgottenEarly` | | |
| `Spec => []LookupsSucceed` | `LookupsAreSafe` | `LookupsAreSafe` | | |
| `Spec => []ResendIsAnswered` | `EveryResendAnswered`, if `sendWindow <= recvWindow` | `EveryResendAnswered`, while `WithinRecvWindow` | | |
| `Spec => []WindowAdvances` | | `WindowKeepsAdvancing` | | |
| `Spec => []WindowIsUnacknowledged` | | | `WindowIsKept` | |
| `Spec => []PopsWhatWasSent` | | | `PopsAreSafe` | |
| `Spec => []InLockStep` | | | | `LockStep` |

And for every set of deployments, with any number of clients, addresses, files
and requests, where clients at one address ask for one file (`SameFile`), in
`SessionProofs`:

| Statement | Theorem |
|---|---|
| `Spec => []Inv` | `Invariance` |
| `Spec => []TypeOK` | `TypeCorrect` |
| `Spec => []NoChildAhead` | `NoChildIsAhead` |
| `Spec => []FileIsWhole` | `FilesAreWhole` |
| `Spec => ImplementsReliableTransfers` | `Refinement` |

And for a segment of any size up to what a packet's length can count, every
file of bytes that sequence numbers suffice for, and every single bit changed,
bit 8 of the length included, in `WireProofs`:

| Statement | Theorem |
|---|---|
| `Spec => []Inv` | `Invariance` |
| `Spec => []TypeOK` | `TypeCorrect` |
| `Spec => []DetectsDamage` | `DamageIsDetected` |
| `Spec => []UndamagedIsAccepted` | `UndamagedAccepted` |
| `Spec => []OnlyBit8Overruns` | `OverrunIsBit8` |
| `Spec => []BufferIsFile` | `TwoWaysOneFile` |
| `Spec => FeedsSegments` | `FeederFeeds` |
| `Spec => ImplementsReliableTransfer` | `FileIsTransferred` |

They assume what the modules assume of the constants: the file is a finite
sequence, `Empty` is no segment, the windows are naturals, fault profiles are
sets of the faults of `Udp`; of a deployment that what it runs are clients, and
that the number of requests is a natural (the program's is 3). Of the wire: header and
data together are counted by a `uint16_t` (`DataSizeAssumption`; 520 bytes in the
program), and the number of a file's last packet is a `uint32_t`
(`NumbersAssumption`; a file would need 2 TiB to break it). `SameFile` is
the hypothesis of the theorems about `Session`, not an assumption of the
module: without it they are false, which is what `session_mix` shows.

*Selective repeat.* `CrossedOffIsHeld` is not inductive: the acknowledgement that
crosses a number off must be for a number the client holds, so `Inv` says what
is in flight (`NetworkIsHonest`: packets carry their own segment, an
acknowledgement is for what the client holds, and what it holds it keeps). That
the client appends the right segments needs `ClientInStep`; that packets carry
theirs needs `FeederInStep`, the feeder's place as a function of `seq_no`.
`LookupsSucceed` needs `IndexesAgree` and, because of the phantom key,
`SendTimesCover`: a send time without a packet is below the window, where no
acknowledgement is taken. (With a send window of 0 nothing is in the window, and
the phantom is harmless too.) `ResendIsAnswered` follows from `Inv`: the server's
base is held by the client's, and the two differ by at most the server's window.

*Congestion control.* The server is a selective repeat server whose window never
closes: `Inv` is that of `SelectiveRepeat` with a window of `FinSeqno + 1`, which
all the packets of a transfer fit in. Each action is one of its actions, with
three exceptions: the server also waits when only its own, smaller window is full,
it returns when nothing is left to acknowledge, and an acknowledgement outside
its window is refused, which leaves what a damaged one leaves. So the lemmas
are those of `SelectiveRepeatProofs`, one for each action, and the proof is
that of the correspondence. `LookupsSucceed` thereby holds for a window that
shrinks below what is in flight. `ResendIsAnswered` cannot be had from a bound on
the server's window, which has none (`cc_window`), nor need the client's window
take the whole file: its premise is a fact of the state, `WithinRecvWindow`, that
the next number to be sent is at most the client's window beyond the
server's base. Then the client's base, which is between the two, is no further
ahead, and whatever lies between is held, awaited or acknowledged again.
`ClientFinishesIfWithin` is about the transfers in which that is always so.
`WindowAdvances` is inductive by itself.

*Go-back-N.* `WindowIsUnacknowledged` says that everything below `base_seq_no` was
accepted. A cumulative acknowledgement keeps it only because of
`NetworkIsHonest`: it is for a number the client is past. `PopsWhatWasSent` is
not a conjunct of `Inv` but follows: an acknowledgement in the window is below
`base_ack_no`, so below `seq_no`, and the list has `seq_no - base_seq_no`
entries. The client writes what it should by `NetworkIsHonest` and
`ClientInStep`, the server numbers segments as the file does by `FeederInStep`.

*Stop and wait.* `InLockStep` is inductive together with what is in flight
(`PacketsInStep`: nothing in flight is ahead of the server, and once a packet is
acknowledged only older ones are), so the client, when it is one ahead, can
accept nothing until the server has caught up. `Handed` is the one subtlety of
`FeederInStep`: while a packet waits for its acknowledgement the feeder is one
ahead of `seq_no`.

*Session.* A child may send to a client that did not ask it, and a client may
acknowledge what another asked for, so no child can be paired with a client.
`Inv` says instead what holds at an address. Nobody else reads there while a
client runs; `ackNo` of a client never decreases, and a finished one stays
finished; so an acknowledgement in flight is for a number that some client at
the address has accepted (`AcksAreOfAccepted`), and a child never sends a number
beyond the one that some client there waits for (`NoChildAhead`). What a packet carries is
the segment, by its number, of the file its child serves; by `SameFile` that is
the file of whoever reads it (`PacketsAreOfTheFile`), whence what the client
has written is the beginning of its file up to `ackNo` (`ClientsInStep`).

*The wire.* Three arguments, in this order.

The checksum. Two sums fold to the same only if they differ by a multiple of
65536 and by 256 or not (`SameFold`); one bit of a word that is summed is no such
difference unless it is bit 8 (`SeenIsFolded`). What a fold leaves has no bit 8 before the 1
that is added, so once two partial sums differ, folding in the same words keeps
them apart (`FoldInjective`, `DifferenceStays`). Each field of either packet is a
case of `DamageChangesSum` or `AckDamageChangesSum`: the checksum, the length, the
halves of the number, a byte of the data. `MayPass` is exactly what is left.

Serialization. `RoundTrip` and `AckRoundTrip`: deserializing undoes serializing,
for every packet whose fields fit; `Flipped` says what one changed bit makes of a
datagram.

The transfer. `Inv` gives the feeder's place in the file as a function of the
packets handed out (`FeederInStep`), what the packet and the datagram in flight
are, up to the one changed bit (`PacketIsNext`, `LinkIsHonest`), and, until damage was
accepted, what the client has written (`ClientInStep`). `InLockStep` is inductive only because a damaged number
cannot pass for the next one: the sum sees all of a number's lowest byte, so what
is accepted has it unchanged, and the numbers that could be confused are
neighbours, with different lowest bytes (`LowByteTells`). So even damage that is
accepted never spoils the order. The length that is accepted with it may be any that
bit 8 makes of the one sent, so what `Inv` says then of the client is only that
it has not gone out of turn and that `written` and `packets` agree and are bytes;
that every copy fits and that the client stops with the empty packet is said until
then. `OverrunIsBit8` follows from where a changed bit may pass: in the bytes of
the length only bit 8 does (`PassesWithLength`).
`DetectsDamage` and `UndamagedIsAccepted` follow from the lemmas and the shape of
what is in flight; the refinements from `Segments`, the file cut in pieces, whose
beginnings are the beginnings of the file (`SegmentsOfBeginning`).

Two operators are recursive functions, the loop of `calculateChecksum` and the
`FlattenSeq` of `GetBuff`. The library's induction theorems cannot be cited, but
induction over the naturals can be done without them: a set of naturals that is
not empty has a least element (`Smallest`, from the theorem of the library that
the order of the naturals is well founded), so a set that holds 0 and with each number the next
holds them all (`SetInduction`). With it a recursive function is shown to
exist and to satisfy its equation (`SumsExist`, `JoinsExist`).

There is one lemma per action, and for selective repeat per invariant part.
`SequenceLemmas` has the facts about sequences and naturals these need (pieces
of a file laid end to end, removal and rotation in a list without repetitions,
division), `PacketLemmas` those about segments by number, the beginnings of the
file, and that the feeder after n segments (`FeederAt`) hands out number n, and
none is left out at the end.

Only model-checked: liveness (`ClientFinishes`, `ServerFinishes`, `BothFinish`,
`AllAcknowledged`, `ClientFinishesIfWithin`, `ClientEnds`), which is out of the
prover's reach. Every safety property of a passing run, invariant or action
property, is a theorem; `BufferIsFile`, a part of `Inv` of the wire, is one by itself, too.

## 5. Plan

Done: the four techniques with their liveness, the two programs around them, the
bytes under them, and a proof of every safety property the runs check. What
would add to it:

1. One data flow instead of two: `Wire` with loss and reordering, so that the
   assumption of `Udp` that damage is detected is replaced by what the checksum does.
2. `Session` with the workers of selective repeat.
3. Lemmas on which the liveness rests: that each fair step brings its transfer
   nearer to the end.

## 6. Not modelled

- `WorkerFactory`, `ArgumentParser`, `main`: run once, before any protocol
  state. A client and a server started with different techniques would talk to
  each other; their workers are not composed.
- `breakAppMessage`, `deleteAppData`: called by nothing. `get_buff` is not called
  either but has a property, `BufferIsFile`, since it is there for its callers.
- Directories made for the client's file, and streams that fail: the program
  ignores both, and goes on.
- A file that changes while it is sent.
- `write_congestion_rounds`: the plot of the window; of the record only its last
  window takes part in a decision, and that is `cc.recorded`.
- The three other techniques in `Session`.
- Windows near 2^32, where the 32-bit sums of the window tests wrap.
- Time, and with it throughput.
