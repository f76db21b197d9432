-------------------------------- MODULE Decoder --------------------------------
(***************************************************************************)
(* The four goroutines of the decoder (src/src/codec/decoder.go, Decode)   *)
(* composed: decode, assembly (Assembler), restore and dispatch            *)
(* (Dispatcher), fed with what an encoder puts on the wire.                *)
(*                                                                         *)
(* The network keeps packets in order but may lose some, double some and   *)
(* bring in stray ones.  Packets with a wrong size, hash or address (lines *)
(* 334-349) are all Stray.  The encoder may be restarted: it numbers its   *)
(* chunks from 1 again (encoder.go:132), with other contents, and of that  *)
(* the decoder is told nothing (line 246 calls the empty function reset).  *)
(* What is restored from packets of two runs is then not what was sent, in *)
(* the worst case not even its csn and its size.                           *)
(* ClientInbound adds cancelling.                                          *)
(***************************************************************************)
EXTENDS Assembler

CONSTANTS
  Depth,         \* encoder.dispatcher.chunks, see Interleaving
  Blocks,        \* bound: the blocks the encoder sends
  Size,          \* dispatcher.size
  ArgumentCap,   \* cap(argumentQueue), decoder.go:383
  DispatchCap,   \* cap(dispatchQueue), decoder.go:380
  ResultCap,     \* cap(resultQueue), decoder.go:379
  MaxFaults,     \* bound: how many packets are lost, doubled or stray and
                 \* how often the encoder is restarted
  MaxRestarts,   \* bound: how often the encoder is restarted, 0 or 1
  RestartLosses, \* bound: how many packets a restart may cost
  Garbage        \* bound: which csns may be read from a header nobody sent:
                 \* any 64 bits, and 0 is as good as none (line 107)

ASSUME DecoderAssumption ==
  /\ Depth \in Nat \ {0}
  /\ Blocks \in Nat
  /\ Size \in Nat \ {0}
  /\ ArgumentCap \in Nat \ {0}
  /\ DispatchCap \in Nat \ {0}
  /\ ResultCap \in Nat \ {0}
  /\ MaxFaults \in Nat
  /\ MaxRestarts \in {0, 1}
  /\ RestartLosses \subseteq Nat
  /\ Garbage \subseteq Nat \ {0}

VARIABLES
  sent,          \* how many packets the encoder has put on the wire
  strays,        \* how many stray packets came in
  duplicates,    \* how many packets were doubled
  lost,          \* how many packets were lost, not counting those a
                 \* restart costs
  argumentQueue, \* chan []byte
  decoded,       \* the packet decode has in hand (line 354), or Nil
  restoring,     \* the csn of the chunk restore has in hand, or 0
  restarts,      \* how often the encoder was restarted
  former,        \* the highest csn its former run has put on the wire
  late,          \* how many packets of the former run are still queued
  outdated,      \* the packets in the table that came from the former run
  inProgress,    \* the csns in the table when the first packet of the new
                 \* run got there (history)
  mixed,         \* which of the pushed lines hold packets of both (history)
  shown,         \* the csns read from a header nobody sent (history)
  crashed        \* the process is gone

(* The variables of Dispatcher; dispatched and dispatchPc are its last and *)
(* its pc.                                                                 *)
VARIABLES
  awaiting, first, dispatched, chunks, chunk, dispatchPc,
  dispatchQueue, delivered, consumed, offered, accepted

Wire == INSTANCE Interleaving

Chunks == 1 .. Blocks * Depth

PacketsSent == Blocks * Wire!BlockSize

(* The csns restore may hand to dispatch. *)
Offerable == Chunks \cup Garbage

Dispatcher == INSTANCE Dispatcher
  WITH Csn <- Offerable, last <- dispatched, pc <- dispatchPc,
       MaxCopies <- PacketsSent * MaxCopies + 1  \* never reached

dispatcherVars == <<awaiting, first, dispatched, chunks, chunk, dispatchPc,
                    dispatchQueue, delivered, consumed, offered, accepted>>
networkVars == <<sent, strays, duplicates, lost>>
decodeVars == <<argumentQueue, decoded>>
originVars == <<late, outdated, inProgress, mixed>>
garbageVars == <<shown, crashed>>
restartVars == <<restarts, former, originVars, garbageVars>>
decoderVars == <<vars, networkVars, decodeVars, restoring, restartVars,
                 dispatcherVars>>

Stray == [csn |-> 0, psn |-> Total]

DecoderInit ==
  /\ Init
  /\ sent = 0 /\ strays = 0 /\ duplicates = 0 /\ lost = 0
  /\ argumentQueue = << >>
  /\ decoded = Nil
  /\ restoring = 0
  /\ restarts = 0 /\ former = {}
  /\ late = 0 /\ outdated = {} /\ inProgress = {} /\ mixed = {}
  /\ shown = {} /\ crashed = FALSE
  /\ Dispatcher!Init

-----------------------------------------------------------------------------
(* The network and the client's reader (client.go:167-179). *)

Arrives(p) ==
  /\ Len(argumentQueue) < ArgumentCap
  /\ argumentQueue' = Append(argumentQueue, p)
  /\ UNCHANGED <<vars, decoded, restoring, restartVars, dispatcherVars>>

Transmit ==
  /\ sent < PacketsSent
  /\ Arrives(Wire!OnWire(sent))
  /\ sent' = sent + 1
  /\ UNCHANGED <<strays, duplicates, lost>>

FaultsLeft == strays + duplicates + lost + restarts < MaxFaults

Intrude ==
  /\ FaultsLeft
  /\ Arrives(Stray)
  /\ strays' = strays + 1
  /\ UNCHANGED <<sent, duplicates, lost>>

Duplicate ==
  /\ sent > 0 /\ FaultsLeft
  /\ Arrives(Wire!OnWire(sent - 1))
  /\ duplicates' = duplicates + 1
  /\ UNCHANGED <<sent, strays, lost>>

Lose ==
  /\ sent < PacketsSent /\ FaultsLeft
  /\ sent' = sent + 1
  /\ lost' = lost + 1
  /\ UNCHANGED <<vars, strays, duplicates, decodeVars, restoring,
                 restartVars, dispatcherVars>>

Collected == {csn[line] : line \in {l \in LineNumbers : found[l] # 0}}

(* The packets on their way to the assembler. *)
Underway ==
  Len(assemblyQueue) + (IF decoded = Nil THEN 0 ELSE 1)
    + Cardinality({i \in 1 .. Len(argumentQueue) : argumentQueue[i] # Stray})

(* What the new run sends first may be lost, too. *)
Restart ==
  /\ sent > 0 /\ restarts < MaxRestarts /\ FaultsLeft
  /\ restarts' = restarts + 1
  /\ sent' \in RestartLosses /\ sent' <= PacketsSent
  /\ former' = {Wire!OnWire(n).csn : n \in 0 .. sent - 1}
  /\ late' = Underway
  /\ outdated' = Stored
  /\ inProgress' = Collected
  /\ UNCHANGED <<vars, strays, duplicates, lost, decodeVars, restoring,
                 mixed, garbageVars, dispatcherVars>>

-----------------------------------------------------------------------------
(* decode: lines 333-349 ... *)
Decode ==
  /\ decoded = Nil
  /\ argumentQueue # << >>
  /\ argumentQueue' = Tail(argumentQueue)
  /\ decoded' = IF Head(argumentQueue) = Stray THEN Nil
                                               ELSE Head(argumentQueue)
  /\ UNCHANGED <<vars, networkVars, restoring, restartVars, dispatcherVars>>

(* ... and lines 351-355. *)
PassOn ==
  /\ decoded # Nil
  /\ Arrive(decoded)
  /\ decoded' = Nil
  /\ UNCHANGED <<networkVars, argumentQueue, restoring, restartVars,
                 dispatcherVars>>

(* Which packets of the table are from the former run, told from how many  *)
(* of it are still to come: they come first.  One that is dropped changes  *)
(* nothing there.                                                          *)
NoteOrigin ==
  IF assemblyQueue' # assemblyQueue
    THEN LET p == Head(assemblyQueue) IN
           /\ late' = IF late = 0 THEN 0 ELSE late - 1
           /\ outdated' = IF Invalid(p) \/ Detached(p) THEN outdated
                          ELSE IF late = 0 THEN outdated \ {p}
                          ELSE outdated \cup {p}
           /\ inProgress' = IF late = 1 THEN Collected' ELSE inProgress
           /\ UNCHANGED mixed
    ELSE LET line == PacketsIn(pushed'[Len(pushed')]) IN
           /\ mixed' = IF line \cap outdated # {} /\ ~ line \subseteq outdated
                         THEN mixed \cup {Len(pushed')} ELSE mixed
           /\ UNCHANGED <<late, outdated, inProgress>>

(* assembly *)
Assemble ==
  /\ Assembly
  /\ NoteOrigin
  /\ UNCHANGED <<networkVars, decodeVars, restoring, restarts, former,
                 garbageVars, dispatcherVars>>

(* Mutant: the error of ReconstructData is ignored. *)
ReconstructsAlways(line) == Shards(line) # {}

(* ReconstructData needs Data packets of the line (line 196). *)
Reconstructs(line) == Cardinality(Shards(line)) >= Data

(* Part 0 of a chunk starts with its csn and its size (chunk.go:85-86).    *)
(* When it has to be computed, from packets of two runs, what comes out is *)
(* the header of no chunk.  (One packet is a copy of part 0 if Data is 1.) *)
Garbled(i) ==
  /\ i \in mixed /\ pushed[i][0] = Nil
  /\ Data > 1 /\ Reconstructs(pushed[i])

(* restore, lines 191-209: the csn of what line i of pushed is restored    *)
(* to, or 0 if it is dropped, by line 199 or, for its size, line 206.      *)
Headers(i) ==
  IF Garbled(i) THEN Garbage \cup {0}
  ELSE IF Reconstructs(pushed[i]) THEN ChunksIn(pushed[i])
  ELSE {0}

TakeLine ==
  /\ restoring = 0
  /\ Restore
  /\ restoring' \in Headers(restored')
  /\ shown' = IF Garbled(restored') THEN shown \cup {restoring'} ELSE shown
  /\ UNCHANGED <<networkVars, decodeVars, restarts, former, originVars,
                 crashed, dispatcherVars>>

(* Unmarshal panics: it makes a slice of the size it read (chunk.go:87). *)
Crash ==
  /\ restoring = 0
  /\ Restore
  /\ Garbled(restored')
  /\ crashed' = TRUE
  /\ UNCHANGED <<networkVars, decodeVars, restoring, restarts, former,
                 originVars, shown, dispatcherVars>>

(* Lines 211-216. *)
SendChunk ==
  /\ restoring # 0
  /\ Dispatcher!Offer(restoring)
  /\ restoring' = 0
  /\ UNCHANGED <<vars, networkVars, decodeVars, restartVars>>

(* dispatch *)
DispatchChunk ==
  /\ Dispatcher!Dispatch
  /\ UNCHANGED <<vars, networkVars, decodeVars, restoring, restartVars>>

(* The client's sender (client.go:183-190). *)
Deliver ==
  /\ Dispatcher!Consume
  /\ UNCHANGED <<vars, networkVars, decodeVars, restoring, restartVars>>

Run ==
  \/ Decode \/ PassOn
  \/ Assemble
  \/ TakeLine \/ Crash \/ SendChunk
  \/ DispatchChunk
  \/ Deliver

-----------------------------------------------------------------------------
DecoderNext ==
  /\ ~ crashed
  /\ Transmit \/ Intrude \/ Duplicate \/ Lose \/ Restart \/ Run

DecoderSpec == DecoderInit /\ [][DecoderNext]_decoderVars

-----------------------------------------------------------------------------
ArrivedParts(c) == {i \in Parts : arrived[[csn |-> c, psn |-> i]] > 0}

Undisturbed == lost = 0 /\ duplicates = 0 /\ restarts = 0

Stream == INSTANCE OrderedStream WITH Csn <- Chunks

(* What TestCodec expects (codec_test.go:121-122): as long as nothing is   *)
(* lost or doubled the client gets chunk 1, 2, 3, ...                      *)
GaplessStream == Stream!Init /\ [][Undisturbed' => Stream!Successor]_delivered

(* The client is handed a chunk only if enough packets of its csn reached  *)
(* the assembler, however many were lost or doubled, or if its header was  *)
(* garbled, for which it takes a restart.  (Of the contents of a line with *)
(* packets of two runs nothing is said: they are always wrong.)            *)
DeliveredWereRestorable ==
  \A c \in Dispatcher!SentOut :
    \/ c \in Chunks /\ Cardinality(ArrivedParts(c)) >= Data
    \/ restarts > 0 /\ c \in shown

(* No chunk is delivered twice, though the assembler's cursor and the      *)
(* dispatcher's may both go back, if Total < 2 * Data and nothing is       *)
(* doubled.  Otherwise, and the codec's own test has Total = 2 * Data      *)
(* (codec_test.go:16-17), it takes that the cursor went back to a chunk    *)
(* that was given up, which then is still missing.  (A restarted encoder   *)
(* sends other chunks under the same csns.)                                *)
DeliveredOnce ==
  restarts = 0 =>
    \/ \A i, j \in 1 .. Len(delivered) : delivered[i] = delivered[j] => i = j
    \/ /\ duplicates > 0 \/ Total >= 2 * Data
       /\ \E c \in PushedCsn : \E g \in 1 .. c - 1 : Unfinished(g)

BlockOf(c) == {d \in Chunks : (d - 1) \div Depth = (c - 1) \div Depth}

AssemblerIdle == pc = "select" /\ assemblyQueue = << >>

(* The first Data parts, which carry the payload (encoder.go:148-150). *)
DataParts == 0 .. Data - 1

(* A neighbour of chunk c, sent after it in the same block, was pushed     *)
(* while c waited for one of its data parts, which was lost; what comes of *)
(* c after that is dropped (decoder.go:248, 275).                          *)
Overtaken(c) ==
  /\ ~ DataParts \subseteq ArrivedParts(c)
  /\ \E d \in BlockOf(c) \cap PushedCsn : d > c

(* The erasure code is put to use: a chunk of which Data parts reached the *)
(* assembler is pushed, whatever its predecessors left in the table and    *)
(* however the cursor went, unless it was overtaken: never if its data     *)
(* parts are among them, whatever its neighbours do.  In particular losses *)
(* in one block do not spoil another, and an encoder that is restarted is  *)
(* heard again: it is true of every chunk its former run did not get to.   *)
(* (A packet that comes twice is counted twice, decoder.go:264, and pushes *)
(* its line too early.)                                                    *)
EnoughIsPushed ==
  (AssemblerIdle /\ duplicates = 0) =>
    \A c \in Chunks :
      ((\A d \in former : d < c) /\ Cardinality(ArrivedParts(c)) >= Data)
        => c \in PushedCsn \/ Overtaken(c)

(* Packets of two runs of the encoder with the same csn are taken for one  *)
(* chunk (decoder.go:261) and restored to one that was never sent.  That   *)
(* can only be a chunk that was in the table when the new run came in.     *)
MixedInProgress == \A i \in mixed : ChunksIn(pushed[i]) \subseteq inProgress
=============================================================================
