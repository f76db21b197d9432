# A TLA+ development of fec

fec carries the datagrams of two applications over a lossy UDP path. A *client*
gathers what its application sends in chunks, cuts each chunk into parts, adds
parts of an erasure code, interleaves the parts of several chunks and sends
them as packets; the other client collects the packets, restores each chunk
from any sufficient number of its parts and hands the chunks on in order. A
*relay* with a public address passes the packets of two clients on to each
other.

This directory holds models of that code, the TLC runs that check them on small
instances and proofs, checked by TLAPS, of what holds for every value of the
constants. Line numbers refer to the files named in each module's header;
`PROJECT.json` maps every definition to its lines.

## The system

| component | code (under `src/`) | state | operations | talks to |
|---|---|---|---|---|
| aggregator | `src/codec/encoder.go` `aggregate`, `aggregatorFlush` | a buffer of `IncomingSize()` bytes, a timer | receive bytes, time out, flush | application → `aggregateQueue` → `encodeQueue` |
| interleaver | `encoder.go` `encode`, `dispatch` | `csn`, a block of `chunks * total` places, its `length` | number and split a chunk, collect a packet, send a block | `encodeQueue` → `dispatcherQueue` → `resultQueue` |
| encoder pipeline | `encoder.go` `Encode`, `close` | four channels | start, cancel, close the channels one by one | client → network |
| chunk and packet formats | `src/codec/chunk.go`, `packet_v2.go` | none | `NewChunk`, `Marshal`, `Unmarshal`, hash | encode, decode, restore |
| assembler | `src/codec/decoder.go` `assembly` | the flat table of `lines * total` places, `csn` and `found` of each line, the cursor `last` | drop, join, open, replace, push | `assemblyQueue` → `restoreQueue` |
| dispatcher | `decoder.go` `dispatch` | the cursors `awaiting`, `first`, `last`, a ring of held chunks | drop, hold, collide, match, evict, deliver, drain | `dispatchQueue` → `resultQueue` |
| decoder pipeline | `decoder.go` `decode`, `restore`, `Decode`, `close` | five channels | check a datagram, reconstruct a chunk, cancel, close the channels one by one | network → client |
| ring buffer | `src/buffer/ring.go` | cells, two cursors, two condition variables | `Read`, `Write`, each waiting or not | users of the ring (today `traversal/server.go`) |
| relay | `cmd/server/main.go` | two places, each a peer id and an address | handshake, set route, route | both clients, by UDP |
| client | `src/client.go` | sockets, four goroutines, the application's address | connect, read, write to the port and back to the application's address | encoder, decoder, relay, application |
| observers | `src/observer`, `src/reporter.go`, the handler of `cmd/client/main.go` | a counter each, a channel each | count, report, print, close | socket, terminal |
| mailbox server | `src/traversal/server.go` | ids and a ring for each | handshake, send, receive | `Ring` |
| unit reader and writer, key exchange, tools | `src/unit`, `src/fec.go`, `cmd/*` | small | | |

Hard to test in this code: goroutines that meet only in channels of bounded
capacity, each with its own blocking sends; cursors (`last`, `first`,
`awaiting`) that decide which late packets and chunks are dropped and that may
move back; losses and duplicates at any packet; a peer that is restarted and
numbers its chunks from 1 again; index arithmetic on flat tables; a timer value
that outlives its reset; lost wake-ups; datagrams of two runs of a client
meeting at the relay; and channels that are closed under goroutines about to
send on them. `PROJECT.json` lists these hazards line by line with the
properties that cover them.

What makes each part correct: the aggregator loses and reorders no byte and
forgets none; the interleaver's wire is one fixed permutation that separates
the packets of a chunk; a payload survives any loss that leaves enough intact
parts and is never altered; the assembler never mixes chunks, pushes each chunk
once and only when it can be restored; the dispatcher's stream is in order,
loses nothing it accepted and does not stall; the ring is a bounded queue
without lost wake-ups; clients that met at the relay hear each other and never
themselves; what the client shows of its traffic adds up; and both pipelines,
cancelled at any moment, come to an end.

## The modules

* `Dispatcher` – the goroutine `dispatch`. A chunk is its csn. Every channel
  operation is an action; the code up to the next one belongs to it. A handler
  that blocks in a send is a program location (`evict`, `deliver`, `drain`).
  The environment offers any chunk in any order, up to `MaxCopies` times.
  `DispatcherWindow` watches it: `strayed` records whether a chunk ever came
  twice or outside of the window `TestDispatcher` keeps to.
  `DispatcherAscending` feeds it with ascending chunks with gaps.
* `OrderedStream` – the abstract specification of what the receiving end
  promises: `GaplessSpec` (1, 2, 3, ...) and `OrderedSpec` (ascending, with
  holes). The dispatcher implements the first as long as it has not strayed,
  `Decoder` as long as nothing is lost, doubled or restarted.
* `Assembler` – the goroutine `assembly` with the flat table and the code's own
  index arithmetic. Drop, Join, Open, Replace and Push are its branches.
* `Decoder` – `Assembler` and `Dispatcher` composed with `decode` and `restore`
  over their channels, fed by a network that keeps the order of packets but
  loses some, doubles some and brings in stray ones, and by an encoder that may
  be restarted (`Restart`). The history variables `late`, `outdated`,
  `inProgress` and `mixed` tell packets of the two runs apart, which the code
  cannot. A line with packets of both is restored to something nobody sent;
  and if part 0, which carries the csn and the size, is among what is computed,
  `restore` reads these from bytes nobody sent either (`Garbled`): the chunk is
  dropped, or handed on under any csn (`Garbage`), or `Unmarshal` makes a slice
  of an impossible size and the process panics (`Crash`).
* `ClientInbound` – around `Decoder` the client's reader and sender and the
  end of them all: cancelling, closing the sockets, `close` of the decoder
  closing one channel after the other, and the receive of nil from, or the send
  on, a channel that is closed (`Panic`).
* `Aggregation` – what the aggregator is made of; `Aggregator` – `aggregate`
  with its timer, at the granularity of single bytes, which are numbered.
* `Interleaving` – the permutation of encoder.go:109 and the wire it gives, as
  operators; `Interleaver` – the goroutines `encode` and `dispatch` that
  produce it; `Decoder` takes its input from the same operators, so the two
  ends are checked against one definition.
* `Encoder` – `Aggregator` and `Interleaver` composed over `encodeQueue`, with
  the client's listener and its writer, which ends with the first write that
  fails (`WriteFails`), cancelling, and `close` as in `ClientInbound`.
* `ChunkCodec` – the layout of a payload in the parts of a chunk, the hash of
  each packet, and restoring. The erasure code and the hash are external: any
  `Data` intact parts give the data parts, a damaged packet does not match its
  hash.
* `Ring` – Read and Write with mutex and condition variables, several threads;
  `BoundedQueue` – what a ring promises, which `Ring` implements by refinement.
* `Relay` – the relay, its clients and the network between them, at the level
  of datagrams. Every start of a client has an address of its own. The relay
  may be stopped (`StopRelay`) and, some time later or never, started without
  its memory; a datagram that finds it down is gone, and its sender may be told
  (`Bounce`): one call on its socket then returns an error (`TakeError`), which
  ends `connect`, the reader or the writer (`MeetError`), whichever comes first.
* `Observers` – the two observers, which run the same code, and the print loop
  that takes one line of each in turn.
* `DispatcherProofs`, `DecoderProofs` (assembler, decoder and the client's way
  in), `EncoderProofs` (interleaver, aggregator and encoder),
  `ChunkCodecProofs`, `RingProofs`, `RelayProofs`, `ObserversProofs` – the
  proofs, each with the inductive invariants it rests on (the dispatcher's
  stand in `Dispatcher`, since `Decoder` speaks of them); `DataLemmas` – the
  lemmas on division, induction and sequences they share.
* `MCAssembler`, `MCDecoder`, `MCClientInbound`, `MCChunkCodec` – sets of
  packets and sizes for TLC.

Operators marked *Mutant* are plausible bugs of the code next to the definition
they would change. No specification uses them; each property is violated when
one of them is put in the place of its original.

## The runs

| run | asks | instance |
|---|---|---|
| `Dispatcher_any` | arbitrary input: do the cursors agree, is the awaited chunk never left waiting in the ring, is no accepted chunk discarded, does a missing chunk never stall the stream; and within the window, is the stream gapless and complete | csn 0 to 5, ring of 2, each chunk twice |
| `Dispatcher_order` (violated) | ascending input with gaps: is the stream ascending | 12 chunks, ring of 4 |
| `Assembler_any` | arbitrary order and loss: are pushed lines pure, restorable, pushed once and in ascending order | 4 chunks of 3 parts, 2 needed, 3 lines |
| `Assembler_boundary` (violated) | the same with a packet of part number `total` | 3 chunks of 3 parts, 2 needed, 2 lines |
| `Decoder_network` | the decoder's four goroutines on an unreliable network, under an encoder that may be restarted | 2 blocks of 2 chunks of 3 parts, 2 faults, of which 1 restart |
| `Client_inbound` | does everything reach the application, at both of its addresses, and does a cancelled client end | blocks of 1 chunk of 2 parts, 2 of them |
| `Client_cancel` (violated) | is the nil of a closed channel dropped everywhere | same |
| `Encoder_pipeline` | are the chunks the written stream and the wire their interleaving, do bytes get out, does a cancelled encoder end | blocks of 2 chunks of 2 parts, 4 chunks, buffer of 2, writes of 2 and 3, 5 bytes |
| `Chunk_payload` | do payloads survive loss and damage | 5 parts, 3 needed, payloads of every size the aggregator flushes and one too large |
| `Ring_threads` | a bounded queue, no lost wake-up, no sleeper forgotten | 2 readers, 2 writers, 2 cells, 5 items |
| `Relay_faults` | who meets whom, with one fault of any kind | 2 clients, 2 runs each |
| `Observers_lines` | do the printed deltas add up, is all traffic shown, does a closed observer end | channels of 2, counters modulo 3, 3 bytes each way |

Every name ending in `Cap` (the capacity of a channel) is 1 or 2, so that every
channel is full, and every sender blocked, somewhere in the run.

Why the bounds are enough. In each instance the interesting cases happen: slots
of the ring and lines of the table are contended and wrap round (csn runs to
more than twice `Size` and past `Lines`), every channel can be full while its
writer blocks, the encoder completes a block and leaves one behind, the
aggregator meets a write that is larger than its buffer and one that fills it
exactly, the ring is full and empty with both kinds of waiters, the counter of
an observer wraps. The
assembler has three lines and one chunk more: only then can a chunk be given
up, its cursor go back, and two others be pushed in the wrong order, which
`AscendingPushes` has to tell apart. Each property has a mutant that TLC
catches on the same instance. The invariants that are also proved hold for all instances.

The bounds by name: `MaxCopies` and `MaxFaults` bound the network; with one
fault in `Relay_faults` pairs of faults are not covered, and `MaxFaults = 2` in
`Decoder_network` covers, for example, one loss in each block, two in one
chunk, a loss together with a duplicate, and a restart together with a loss.
`MaxRestarts` is one because the history variables tell two runs apart.
`RestartLosses` says how many packets of the new run a restart may cost, none
or 4 of 12: then what is left of the first block of the old run meets the tail
of the same block of the new one, so that lines of both come to lack part 0.
`Garbage` has the csn of one of the chunks and one beyond them all.
`Blocks`, `MaxChunks`, `MaxBytes`, `MaxWrites`, `MaxRuns` and `MaxData` bound
the input. Three more are guards rather than constants: in `Encoder` the timer
does not expire again once `aggregateQueue` is closed (each nil received from
it starts the timer anew); in `ClientInbound` nothing is read, accepted or
refused once the context is done, and the network there is a faithful one,
since `Decoder_network` has the faults.

The conditions in the properties of `Decoder` and `Relay` are part of what the
runs show.

* `Decoder_network`: without losses, duplicates and restarts the client gets a
  gapless stream. With losses no chunk comes twice as long as `Total < 2 * Data`,
  as in this instance. With more redundancy (the codec's own test has 4 of 8,
  codec_test.go:16-17), or with packets that come twice, `DeliveredOnce` says
  what it takes for a chunk to come twice: the cursors of the assembler and of
  the dispatcher must both have gone back, behind a chunk that was given up and
  is still missing. A chunk of which enough packets arrived is pushed unless it
  lost a data part and a neighbour overtook it. After a restart this still
  holds of every chunk the former run had not come to (`EnoughIsPushed`); of
  those it had come to, nothing is heard, and a chunk may be restored from
  packets of both runs, but only one that was in the table when the new run
  came in (`MixedInProgress`). Only chunks of which enough packets arrived are
  delivered, but for what restore reads from a header that was computed from
  packets of two runs (`DeliveredWereRestorable`).
* `Relay_faults`: `NoEcho` survives every fault, `RunningIsRouted` all but a
  relay that is stopped and a client started while its previous hello is on the
  way, `NeverRefused` all but losses, `EveryoneConnects` all but losses and a
  relay that is stopped, `ReaderSurvives` all but duplicates and word that the
  relay is down.
* `Encoder_pipeline`: `WireInOrder` is `WireOrder` of the interleaver until
  `dispatcherQueue` is closed. The block that nil packets fill up after that
  leaves packets out; it still doubles and turns none. `ByteReachesWire` excepts
  a writer that has ended with an error, behind which the encoder comes to a
  halt; `EncoderEnds` does not.
* `Client_inbound`: `ApplicationHears` excepts a datagram the application
  refused, which ends the sender.

`CHECK_DEADLOCK FALSE` is used throughout: in every instance the input is
bounded, and the goroutines rest when it is used up. That they do not rest
earlier, each waiting for another, is what the liveness properties say.

### Fairness

All fairness is weak.

* `Dispatcher` in `DispatcherWindow`: the goroutine and the consumer of its
  output. The goroutines are loops over `select` started once
  (encoder.go:210-213, decoder.go:384-389) and the Go scheduler runs whatever
  is ready; the client takes what is ready.
* `Encoder`: each of its goroutines, the client's writer until it is cancelled
  or a write fails (client.go:244-248), a running timer, which expires, and
  `close`, which goes on closing. The application owes nothing, no write has to
  fail, nobody has to cancel and nobody has to panic.
* `ClientInbound`: `WF(Work)` and `WF(End)`, for all goroutines together and
  for all that returns or closes together: less than the scheduler gives each
  of them. The network and the application owe nothing.
* `Ring`: a signalled goroutine gets the mutex sooner or later, since Go's
  mutex does not starve a waiter. Nobody has to call Read or Write.
* `Relay`: while it is up the relay serves what has come, a client reads what
  has come. Losing, doubling, writing, starting and stopping of a client or the
  relay, and word that the relay is down, are never required.
* `Observers`: both observers and the print loop. Nothing has to pass and
  nobody has to close.

`Assembler`, `Decoder` and `ChunkCodec` are checked for safety only; that the
goroutines of the decoder do not wait for one another for ever is
`ApplicationHears`.

### Disagreements

* `Dispatcher_order` – a chunk that was overtaken while it lay in its slot is
  delivered by a later collision, after newer ones; `last` goes back with it.
  `TestDispatcher` expects a late chunk to be left out (decoder_test.go:239-302).
* `Assembler_boundary` – decoder.go:235 lets `psn == total` through; the packet
  lands in the line of the next chunk.
* `Client_cancel` – when `restoreQueue` is closed, `restore` may take the nil it
  yields for a line and index it (decoder.go:193), where the other goroutines
  drop a nil and say so in their log lines (decoder.go:102, 231).

Met while modelling, without a run of their own:

* The first packet of a chunk is never compared with `data` (decoder.go:283-288),
  so with `data = 1` a chunk waits for a second packet; `EnoughIsPushed` is
  therefore proved under `Data >= 2`.
* A packet that comes twice is counted twice (decoder.go:264): a line is pushed
  with too few different packets, cannot be restored, and its other packets are
  then dropped as late. `PushedRestorable` is checked and proved without
  duplicates; with them `DeliveredWereRestorable` says that such a line is not
  delivered.
* When a chunk is pushed, the packets of earlier chunks that are still to come
  are dropped (decoder.go:248, 275). With interleaving a loss near the start of
  one chunk lets its neighbour overtake it, and it is lost although enough of
  its packets arrive: the exception `Overtaken` in `EnoughIsPushed`. That is
  proved to be limited to chunks that lost one of their data parts; those are
  the ones that need the parts of the erasure code.
* An encoder that is restarted is not heard until it gets to the chunks its
  former run had not come to: the reset that decoder.go:246 calls has its body
  commented out (310-321).
* A block that is not full stays in the encoder until later traffic fills it
  (encoder.go:113); the setting `dispatcher_timeout` (cmd/client/main.go:188)
  only reaches the aggregator. `ByteReachesWire` therefore speaks of a byte
  after which as many bytes as a block holds were written.
* `NewChunk` takes `parts * PacketV2DataSize` bytes without a rest (chunk.go:22,
  chunk_test.go:21), more than fits behind the header. `EnoughSuffices` is
  checked and proved for what the aggregator flushes, at most `IncomingSize`.
* A datagram that finds nobody on the application's port makes the next write
  fail, which ends the sender (client.go:188-192): the client is deaf even when
  the application comes back.
* A write to the other end that fails, for example because the relay's host
  reports that the relay is down, ends the client's writer (client.go:244-248),
  and the encoder comes to a halt behind it without being cancelled; a read that
  fails for the same reason ends the reader (client.go:168-171). A relay that
  was stopped for a moment may leave a client running that neither sends nor
  hears.
* After a restart of the other encoder `restore` may take csn and size from a
  part 0 computed from packets of both runs: the csn may be any number, and
  chunk.go:87 makes a slice of the size before anything is checked, which
  panics if the size is impossible.
* While the decoder is closed, the nil of `resultQueue` goes to the application
  as an empty datagram (client.go:187).
* The relay echoes the handshake of a peer it has no room for (main.go:146-163):
  with a third peer `RunningIsRouted` fails, which is why its proof assumes
  two.
* The print loop waits for an observer that was closed for ever; the other one
  then blocks in its report, and closing it too does not end it
  (cmd/client/main.go:51-61). `TrafficIsShown` and `ClosedEnds` say as much.

## The proofs

For every value of the constants allowed by the named assumptions:

* `DispatcherProofs` – `TypeOK`, `CursorsAgree`, `AwaitedNeverHeld`,
  `NothingDiscarded`. None is inductive alone: that the drain loop sends the
  awaited chunk rests on every held chunk lying in the slot its csn selects and
  not above `first` (`HeldInItsSlot`), and each blocked branch must remember
  why it was entered (`BranchesMatch`). `IInv` is the conjunction; one lemma
  per action shows that it is kept. `Size` is any positive number, `Csn` any set
  of numbers. Then, as long as it has not strayed, the dispatcher implements
  `OrderedStream!GaplessSpec` (`WindowImplementsGaplessStream`): `WindowInv`
  adds to `IInv` that everything queued, held or in hand lies in the `Size`
  numbers after `last`, in one place only, and that all numbers up to `last`
  were sent; two different numbers in such a window never share a slot
  (`RemainderTellsApart`), so no collision happens and every send is the
  successor of the one before. Fed anything at all, in any order
  (`OnlyCollisionsLeap`), the dispatcher leaves the order in one place only:
  every send but that of a collision (decoder.go:129) continues the stream with
  the next number, because `last` is always the newest number sent (`LastInv`).
* `DecoderProofs`, the assembler – `TypeOK`, `PushedPure` and `AscendingPushes`
  under `PartsInRange` (no packet carries `psn = Total`; `Assembler_boundary`
  shows that this is needed). The
  table is flat in the code; the invariant `IInv` speaks of line and part:
  whatever lies in a line belongs to the chunk the line collects, at its own
  part (`LinesPure`), and a line collects only chunks that map to it
  (`LinesOwned`). The arithmetic of the wrapped indices is done once, in
  lemmas. `OrderInv` adds that the lines lie behind the cursor, and what is
  pushed ahead of it, but for chunks that were given up. `OnceInv` adds, as
  long as nothing came twice, that `found` counts different packets
  (`CountsRight`) and that none lies in two places (`InOnePlace`). From it
  follow `PushedRestorable` and, as two pushes of a chunk would need
  `2 * Data` packets, `PushedOnce` for `Total < 2 * Data`; both assume
  `MaxCopies = 1`. With as many redundant parts as data parts or more
  `PushedOnce` fails, since the cursor may go back.
* `DecoderProofs`, the decoder – under `EncodersPackets`, that the packets are
  those the encoder makes. `ImplementsAssembler` and `ImplementsDispatcher`:
  each goroutine of the composition is its component, by refinement, so that
  the theorems above hold of it. `DecoderInv` follows a packet from the wire to
  the table and a chunk from `restore` to the client, and gives
  `DeliveredWereRestorable` for every fault: what `restore` hands on is
  `Accounted` for by the packets that arrived, or was read from a header nobody
  sent, which `FirstRun` allows after a restart only. `DecoderOnceInv` adds,
  while the encoder is not restarted, that a chunk offered to dispatch twice
  was pushed twice (`OfferedAsPushed`) and, while nothing is doubled either,
  that a packet still under way lies nowhere else. With `AscendingPushes`,
  applied to the two pushes of one chunk, this gives `DeliveredOnce` for every
  `Data` and `Total`. `OriginInv` follows the two runs of the encoder and gives
  `MixedInProgress`.
* `DecoderProofs`, the gapless stream – while nothing is lost, doubled or
  restarted the whole decoder implements `OrderedStream!GaplessSpec`
  (`DeliversGapless`), for every depth, number of parts and lines with
  `Depth <= Lines`: the lines take a block, as they do in the tests
  (codec_test.go:28-31, a depth of 32 and 128 lines). `GaplessInv` says that the
  assembler has taken the first `n` packets of the wire and the rest is under
  way in order (`UnderwayInOrder`), that each line holds exactly those of the
  first `n` that are its chunk's, unless it was pushed (`AssembledInOrder`), and
  that dispatch is only ever given the chunk it waits for
  (`DispatchedInOrder`). A chunk is pushed with a packet whose place in the
  block is fixed, so chunks are pushed in the order of their numbers.
* `DecoderProofs`, enough is pushed – `EnoughIsPushed` (`EnoughArePushed`), for
  every loss, stray packet and one restart of the encoder, every depth, number
  of parts and lines with `Depth <= Lines` and `Data >= 2`. Both are needed:
  with fewer lines two chunks of a block share a line and each gives up the
  other, and a line that is opened by its only data part is never pushed
  (decoder.go:283-288); TLC finds the property violated with one line for two
  chunks, and with one data part. `EnoughInv` is about the chunks the former
  run of the encoder did not get to (`Fresh`) and about the packets the
  assembler has received of them (`TakenParts`). Behind a fresh packet come
  only later ones of the wire (`FreshInOrder`), so a packet that a later one
  has passed never comes (`Missed`). A chunk is `Settled` once it is pushed,
  or a neighbour in its block is while one of its data parts is missed; one
  that is not settled has too few packets (`TooFewTaken`), and while more may
  come it is ahead of the cursor with all it has in its line
  (`StillCollected`). The heart is the push of a chunk `k` ahead of an
  unsettled `c` of its block: among the `Data` parts of `k` is one whose number
  is `Data - 1` or more, among the data parts of `c` one is not taken, and that
  one was sent before. A line that is given up belongs to an earlier block or
  to the former run, so the cursor that goes back to it stays behind all that
  is still collected. A restart makes everything that was sent stale at once:
  nothing of it is fresh any more.
* `DecoderProofs`, the client – `SenderInv`: what the sender has sent, has in
  hand and is still to be given is the delivered sequence, and what went to the
  listener's address is the end of it. It gives `ListenerFollows`.
* `EncoderProofs`, the interleaver – `TypeOK`, `WireOrder`, `BurstSpread`. The
  invariant says that wire, block and queue hold consecutive pieces of one
  sequence of packets. That the permutation is what its inverse `AtPlace` says,
  and that two packets of a chunk are at least `Depth` apart on the wire, also
  across a block boundary (`SameChunkFarApart`), are theorems of arithmetic.
* `EncoderProofs`, the aggregator – `TypeOK`; `TimerGuardsBuffer`, which needs
  that the buffer is empty during a flush (`FlushesAll`); and `StreamIntact`.
  `StreamInv` says where the bytes are: chunks, what is being flushed, the
  bytes in hand, the buffer and the queue, one after the other, are the written
  stream. That the concatenation of the chunks grows by the flushed bytes and
  nothing else is proved of `FlattenSeq` in `DataLemmas`.
* `EncoderProofs`, the encoder – the composition keeps to the environments its
  parts assume (`PartsKeepToEnvironments`): every step of the encoder is a step
  of `Aggregator` or leaves its variables alone, and until `dispatcherQueue` is
  closed the same holds of `Interleaver`. The two meet in `encodeQueue`, which
  one counts and the other records; `OneQueue` says that both agree. Hence
  `EncoderWireOrder` from the interleaver's lemmas, `TimerGuardsBuffer` and
  `StreamIntact` of the encoder from the aggregator's. Of an encoder that is
  being closed `NilsCollected` says what the block holds while nil packets fill
  it up; with it `EncoderInv` gives the rest of `WireInOrder`, and `Numbered`
  gives `NoPhantomChunk`.
* `ChunkCodecProofs` – `NeverAltered` for every payload, every number of parts
  and all loss and damage: what is accepted is what was sent (`IntactArrive`),
  the parts are the payload laid out behind its length, so that taking the
  length off the joined parts gives the payload back. `EnoughSuffices` under
  `FlushSizes`: payloads that the aggregator makes, or that `NewChunk` refuses.
  That `Data` parts give the others is the assumption on the library.
* `RingProofs` – `TypeOK`, `NoLostWakeup` and the refinement of
  `BoundedQueue`, for every number of readers, writers and cells. The invariant
  is these two with `ItemsInPlace`: every item lies in the cell its number
  selects. The refinement is then arithmetic on consecutive numbers, and
  `NoLostWakeup` is counting: each write adds an item and wakes a reader if one
  waits, each read adds a free cell and wakes a writer if one waits, and a
  goroutine only lies down again when it has found nothing to do.
* `RelayProofs` – `TypeOK`, `NoEcho`, `NeverRefused`, `ReaderSurvives` and, for
  no more than two peers, `RunningIsRouted`, for every number of runs,
  datagrams and faults, and a relay that goes down and up at any moment. `Order` says which addresses and datagrams belong
  together and gives `NoEcho`. Three invariants on top of it follow the echo
  of a hello: `EchoFirst` (until the relay has taken the hello nobody knows
  the new address, and then the echo is what comes first there), `EchoIsOnce`
  (a hello on its way and an echo exclude each other) and `EchoMeansRouted`
  (once the echo is written the peer has a place, and of two peers none takes
  the other's).
* `ObserversProofs` – `ReportsAddUp`. A counter is known only modulo `Width`;
  the invariant is about the numbers behind it, how much had passed at the
  report before (`before`) and when the counter was last loaded (`now`), and
  about the lines in the channel, whose deltas lead from what was printed to
  `before` one by one, exactly as long as the counter has not wrapped and with
  something left out when it has (`LeadTo`).

The library's induction theorems take an operator as a parameter, which the
provers cannot instantiate. Where a proof needs induction (over the length of a
sequence, the chunks of a stream, the lines of a channel) it takes it from
`Induction` and `InductionUpTo` in `DataLemmas`, which state it of a set of
numbers and rest on `LeastElement`.

Model-checked only:

* every liveness property (fairness and ENABLED are beyond the prover):
  `NoStall`, `DeliveredWhenComplete`, `ByteReachesWire`, `EncoderEnds`,
  `ApplicationHears`, `InboundEnds`, `WaitersServed`, `EveryoneConnects`,
  `PeersHearEachOther`, `TrafficIsShown`, `ClosedEnds`. Every invariant and
  every other action property of a passing run is proved.

## Not modelled

* The mailbox server `src/traversal/server.go`: nothing starts it, nothing ever
  reads the rings it writes to, and the ring is modelled by itself.
* The unit reader and writer: their uses in the client command are commented
  out.
* `packet_v3.go`, which nothing uses; AES-GCM, SHA-1 and Reed-Solomon, which are
  libraries; the key exchange at the terminal; the configuration; the client's
  local sockets and its statistics file; the tools under `cmd/` for statistics
  and debugging.
* `csn * total` beyond 64 bits; the counters of dropped packets; logging; the
  rounding of the printed rates.
* `acceptedLocalAddr` is assigned at every datagram (client.go:226). In
  `ClientInbound` it is set once: an application that changes its address is
  not modelled, and no property speaks of it.
* The first parameter of `NewRing` is 0 in `Ring`, as in every call of it.
* Packets that overtake each other on the way to one receiver: `Decoder` and
  `Relay` keep them in order, `Assembler` and `Dispatcher` take any order.
* Whatever comes after a panic: the process is gone.

## Plan

1. Done: the codec with both pipelines, their shutdown and a restarted encoder;
   the client's way in and out; the ring; the relay; the observers; the proofs
   listed above.
2. Nothing that the provers reach is left of what the runs check; liveness stays
   with TLC.
3. Left to state: the whole codec, from the bytes written at one end to the
   bytes handed out at the other, in one module; today the two ends meet in
   `Interleaving`, which the encoder is proved to produce and the decoder is
   proved to understand.
