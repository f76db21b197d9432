-------------------------------- MODULE Encoder --------------------------------
(***************************************************************************)
(* The four goroutines of the encoder (src/src/codec/encoder.go, Encode)   *)
(* composed: aggregate (Aggregator), encode and dispatch (Interleaver) and *)
(* close, which closes the channels one by one when the context is done.   *)
(*                                                                         *)
(* A select chooses at random among its ready cases.  Once the context is  *)
(* done its Done case always is; a receive from a closed and empty channel *)
(* is ready too and yields nil, and so is a send on a closed channel,      *)
(* which panics and takes the process down.                                *)
(***************************************************************************)
EXTENDS Interleaver, Aggregation, SequencesExt

VARIABLES
  written,        \* the number of bytes the application has written
  aggregateQueue, \* chan []byte
  gathered,       \* aggregator.buf
  agData,         \* what is being flushed (line 87)
  data,           \* what is left of the bytes in hand (line 194)
  aggregatePc,    \* pc of Aggregator
  armed, tick,    \* aggregator.timer
  chunks,         \* every chunk sent to encodeQueue so far (history)
  writing,        \* the client's writer (client.go:235) is running
  closed,         \* how many channels close has closed
  panicked        \* a goroutine has sent on a closed channel

Aggregator == INSTANCE Aggregator
  WITH buf <- gathered, pc <- aggregatePc, flushed <- chunks

aggregatorVars == <<written, aggregateQueue, gathered, agData, data,
                    aggregatePc, armed, tick, chunks>>
shutdownVars == <<writing, closed, panicked>>
encoderVars == <<vars, aggregatorVars, shutdownVars>>

EncoderInit ==
  /\ Init
  /\ Aggregator!Init
  /\ writing = TRUE
  /\ closed = 0
  /\ panicked = FALSE

-----------------------------------------------------------------------------
(* close (lines 67-73): the order in which the channels are closed. *)
AggregateClosed == closed >= 1

DispatcherClosed == closed >= 2

(* Mutant: encodeQueue is closed before dispatcherQueue. *)
EncodeClosedEarly == closed >= 1

EncodeClosed == closed >= 3
ResultClosed == closed >= 4

Close ==
  /\ cancelled /\ ~ panicked
  /\ closed < 4
  /\ closed' = closed + 1
  /\ UNCHANGED <<vars, aggregatorVars, writing, panicked>>

(* A goroutine blocked in a send on a channel that is closed may find that *)
(* case chosen: the client's listener (client.go:228), the aggregator      *)
(* (line 93), encode (line 172) and dispatch (line 121).                   *)
Panic ==
  /\ ~ panicked
  /\ \/ AggregateClosed
     \/ EncodeClosed /\ aggregatePc \in {"full", "timeout"}
     \/ DispatcherClosed /\ encodePc = "send"
     \/ ResultClosed /\ dispatchPc = "send"
  /\ panicked' = TRUE
  /\ UNCHANGED <<vars, aggregatorVars, writing, closed>>

-----------------------------------------------------------------------------
(* aggregate.  Nil from the closed aggregateQueue does nothing but reset   *)
(* the timer (line 199), so it is no step of its own, see Expire.          *)
FlushChunk ==
  /\ Aggregator!FlushDone
  /\ ~ EncodeClosed
  /\ Flush

AggregateAlone ==
  \/ Aggregator!Receive
  \/ Aggregator!Timeout
  \/ Aggregator!FlushAbandoned
  \/ Aggregator!Stop

Aggregate ==
  /\ ~ panicked
  /\ \/ FlushChunk
     \/ AggregateAlone /\ UNCHANGED vars
  /\ UNCHANGED shutdownVars

(* encode.  Nil from the closed encodeQueue makes an empty chunk, whose    *)
(* first packet meets a dispatcherQueue that was closed before.            *)
TakeNil ==
  /\ encodePc = "select"
  /\ EncodeClosed /\ encoding = flushed
  /\ encodePc' = "send"
  /\ UNCHANGED <<flushed, encoding, csn, part, dispatcherQueue, dispatchVars,
                 wire, taken, cancelled>>

EncodeChunks ==
  /\ ~ panicked
  /\ \/ TakeChunk
     \/ TakeNil
     \/ SendPart /\ ~ DispatcherClosed
     \/ StopEncode
  /\ UNCHANGED <<aggregatorVars, shutdownVars>>

(* dispatch.  Nil from the closed dispatcherQueue takes the place of every *)
(* packet the block still lacks; the loop of line 114 skips these places.  *)
(* (A block of nothing but nil changes nothing.)                           *)
CollectNils ==
  /\ dispatchPc = "select"
  /\ DispatcherClosed /\ dispatcherQueue = << >>
  /\ FilledIn(buf) # {}
  /\ length' = BlockSize
  /\ dispatchPc' = "send"
  /\ UNCHANGED <<flushed, encoding, encodeVars, dispatcherQueue, buf,
                 wire, taken, cancelled>>

DispatchPackets ==
  /\ ~ panicked
  /\ \/ Collect
     \/ CollectNils
     \/ (\E at \in Places : SendPlace(at)) /\ ~ ResultClosed
     \/ StopDispatch
  /\ UNCHANGED <<aggregatorVars, shutdownVars>>

-----------------------------------------------------------------------------
(* The environment: the client's listener and writer (client.go:209-251),  *)
(* the timer and the context.                                              *)

WriteBytes(n) ==
  /\ ~ panicked
  /\ Aggregator!Write(n)
  /\ ~ AggregateClosed
  /\ UNCHANGED <<vars, shutdownVars>>

(* Bound: once aggregateQueue is closed the timer does not expire again,   *)
(* for every nil resets it and the select does not pass Done over for long.*)
Expire ==
  /\ ~ panicked
  /\ ~ AggregateClosed
  /\ Aggregator!Expire
  /\ UNCHANGED <<vars, shutdownVars>>

TakePacket ==
  /\ ~ panicked
  /\ writing
  /\ Take
  /\ UNCHANGED <<aggregatorVars, shutdownVars>>

(* The writer ends with its first error (client.go:244-248), for example   *)
(* when the other end reports that nobody listens there.  From then on     *)
(* nobody takes packets, and the encoder comes to a halt behind it.        *)
WriteFails ==
  /\ ~ panicked
  /\ writing
  /\ Take
  /\ writing' = FALSE
  /\ UNCHANGED <<aggregatorVars, closed, panicked>>

CancelEncoder ==
  /\ ~ panicked
  /\ Cancel
  /\ UNCHANGED <<aggregatorVars, shutdownVars>>

-----------------------------------------------------------------------------
EncoderNext ==
  \/ \E n \in WriteSizes : WriteBytes(n)
  \/ Expire \/ TakePacket \/ WriteFails \/ CancelEncoder
  \/ Aggregate
  \/ EncodeChunks
  \/ DispatchPackets
  \/ Close \/ Panic

EncoderSpec == EncoderInit /\ [][EncoderNext]_encoderVars

(* The goroutines (encoder.go:210-213) run until they are cancelled, the   *)
(* client's writer until then or until a write fails, and a running timer  *)
(* expires; the application owes nothing, and nobody has to panic.         *)
FairEncoderSpec ==
  /\ EncoderSpec
  /\ WF_encoderVars(Aggregate)
  /\ WF_encoderVars(EncodeChunks)
  /\ WF_encoderVars(DispatchPackets)
  /\ WF_encoderVars(~ cancelled /\ TakePacket)
  /\ WF_encoderVars(Expire)
  /\ WF_encoderVars(Close)

-----------------------------------------------------------------------------
StreamIntact == Aggregator!StreamIntact

TimerGuardsBuffer == Aggregator!TimerGuardsBuffer

(* The inverse of OnWire. *)
WireIndex(p) ==
  BlockSize * ((p.csn - 1) \div Depth) + Depth * p.psn + ((p.csn - 1) % Depth)

(* The wire carries the interleaving of the chunks, packet by packet.  The *)
(* block that nil packets complete while the encoder is closed             *)
(* (encoder.go:110) leaves some out, but still doubles and turns none.     *)
WireInOrder ==
  /\ ~ DispatcherClosed => WireOrder
  /\ \A m, n \in 1 .. Len(wire) :
       m < n => WireIndex(wire[m]) < WireIndex(wire[n])

(* Only chunks that the aggregator flushed are numbered and sent: the      *)
(* empty chunk encode makes of the nil from its closed queue               *)
(* (encoder.go:142) gets nowhere, since dispatcherQueue was closed first.  *)
NoPhantomChunk ==
  \A i \in 1 .. Len(wire) : wire[i].csn \in 1 .. Len(chunks)

WirePackets == {wire[i] : i \in 1 .. Len(wire)}

OnTheWire(byte) ==
  \E c \in 1 .. Len(chunks) :
    /\ \E i \in 1 .. Len(chunks[c]) : chunks[c][i] = byte
    /\ \A i \in 0 .. Total - 1 : [csn |-> c, psn |-> i] \in WirePackets

(* A byte the application wrote reaches the wire, in all packets of its    *)
(* chunk, once as many bytes as a block holds were written after it, as    *)
(* long as the client's writer runs: no place of the block is waited for   *)
(* in vain, and full queues do not block each other.                       *)
ByteReachesWire ==
  []<>(\/ cancelled \/ ~ writing
       \/ \A byte \in 1 .. written - Depth * Capacity : OnTheWire(byte))

(* A cancelled encoder ends: every goroutine returns and every channel is  *)
(* closed, wherever cancelling finds them, unless a send on a closed       *)
(* channel takes the whole process down.                                   *)
EncoderEnds ==
  []<>(cancelled => \/ panicked
                    \/ /\ aggregatePc = "stopped"
                       /\ encodePc = "stopped"
                       /\ dispatchPc = "stopped"
                       /\ closed = 4)
=============================================================================
