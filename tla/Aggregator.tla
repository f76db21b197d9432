------------------------------ MODULE Aggregator ------------------------------
(***************************************************************************)
(* The encoder's aggregator (src/src/codec/encoder.go, aggregate and       *)
(* aggregatorFlush): the goroutine that gathers what the application       *)
(* writes in a buffer of Capacity bytes and sends it on as one chunk when  *)
(* the buffer is full or nothing came for a while.                         *)
(*                                                                         *)
(* The bytes of the application are numbered 1, 2, 3, ...  The timer has   *)
(* the semantics of the language version of go.mod:3 (go 1.21): a value    *)
(* it has put in its channel survives Reset.  The mutex is only ever taken *)
(* by this goroutine.  Encoder adds the closing of the channels.           *)
(***************************************************************************)
EXTENDS Aggregation, Sequences, SequencesExt

CONSTANT EncodeCap \* cap(encodeQueue), encoder.go:207

VARIABLES
  written,        \* the number of bytes the application has written
  aggregateQueue, \* chan []byte
  buf,            \* aggregator.buf
  agData,         \* the copy of buf that is being flushed (line 87)
  data,           \* what is left of the bytes in hand (line 194)
  pc,             \* "select" (line 185), "full" or "timeout": blocked in
                  \* the flush of line 196 or 189, or "stopped"
  armed,          \* the timer is running
  tick,           \* a value waits in timer.C
  flushed,        \* every chunk sent to encodeQueue so far (history)
  encoding,       \* how many of them encode has taken
  cancelled       \* ctx is done

vars == <<written, aggregateQueue, buf, agData, data, pc, armed, tick,
          flushed, encoding, cancelled>>

Init ==
  /\ written = 0
  /\ aggregateQueue = << >>
  /\ buf = << >>
  /\ agData = << >>
  /\ data = << >>
  /\ pc = "select"
  /\ armed = FALSE    \* line 59: three years from now
  /\ tick = FALSE
  /\ flushed = << >>
  /\ encoding = 0
  /\ cancelled = FALSE

-----------------------------------------------------------------------------
(* The environment: the application, encode, the timer and the context.    *)

Write(n) ==
  /\ written + n <= MaxBytes
  /\ Len(aggregateQueue) < AggregateCap
  /\ aggregateQueue' = Append(aggregateQueue, [i \in 1 .. n |-> written + i])
  /\ written' = written + n
  /\ UNCHANGED <<buf, agData, data, pc, armed, tick, flushed, encoding,
                 cancelled>>

Encode ==
  /\ encoding < Len(flushed)
  /\ encoding' = encoding + 1
  /\ UNCHANGED <<written, aggregateQueue, buf, agData, data, pc, armed, tick,
                 flushed, cancelled>>

Expire ==
  /\ armed
  /\ armed' = FALSE
  /\ tick' = TRUE
  /\ UNCHANGED <<written, aggregateQueue, buf, agData, data, pc, flushed,
                 encoding, cancelled>>

Cancel ==
  /\ ~ cancelled
  /\ cancelled' = TRUE
  /\ UNCHANGED <<written, aggregateQueue, buf, agData, data, pc, armed, tick,
                 flushed, encoding>>

-----------------------------------------------------------------------------
(* Mutant: the timer is not started again after a flush that leaves bytes  *)
(* behind.                                                                 *)
FillWithoutReset(bytes) ==
  IF Len(bytes) < Capacity
    THEN /\ buf' = bytes
         /\ data' = << >>
         /\ agData' = << >>
         /\ pc' = "select"
         /\ armed' = (armed \/ pc = "select")
    ELSE /\ buf' = << >>
         /\ data' = SubSeq(bytes, Capacity + 1, Len(bytes))
         /\ agData' = SubSeq(bytes, 1, Capacity)
         /\ pc' = "full"
         /\ UNCHANGED armed

(* The loop of lines 191-198 with the buffer at bytes, where a flush leads *)
(* to its own blocking send; at its end the timer is reset (line 199).     *)
Fill(bytes) ==
  IF Len(bytes) < Capacity
    THEN /\ buf' = bytes
         /\ data' = << >>
         /\ agData' = << >>
         /\ pc' = "select"
         /\ armed' = TRUE
    ELSE /\ buf' = << >>
         /\ data' = SubSeq(bytes, Capacity + 1, Len(bytes))
         /\ agData' = SubSeq(bytes, 1, Capacity)
         /\ pc' = "full"
         /\ UNCHANGED armed

(* Line 190. *)
Receive ==
  /\ pc = "select"
  /\ aggregateQueue # << >>
  /\ aggregateQueue' = Tail(aggregateQueue)
  /\ Fill(buf \o Head(aggregateQueue))
  /\ UNCHANGED <<written, tick, flushed, encoding, cancelled>>

(* Mutant: the buffer is not emptied. *)
TimeoutKeepingBuffer ==
  /\ pc = "select"
  /\ tick
  /\ tick' = FALSE
  /\ agData' = buf
  /\ buf' = buf
  /\ pc' = "timeout"
  /\ UNCHANGED <<written, aggregateQueue, data, armed, flushed, encoding,
                 cancelled>>

(* Lines 188 and 87-89: the buffer is flushed whatever it holds. *)
Timeout ==
  /\ pc = "select"
  /\ tick
  /\ tick' = FALSE
  /\ agData' = buf
  /\ buf' = << >>
  /\ pc' = "timeout"
  /\ UNCHANGED <<written, aggregateQueue, data, armed, flushed, encoding,
                 cancelled>>

(* Lines 90-95: the copy is sent, or dropped when the context is done; the *)
(* loop of line 191 goes on in either case.                                *)
Resume ==
  \/ pc = "full" /\ Fill(data)
  \/ /\ pc = "timeout"
     /\ pc' = "select"
     /\ agData' = << >>
     /\ UNCHANGED <<buf, data, armed>>

FlushDone ==
  /\ Len(flushed) - encoding < EncodeCap
  /\ flushed' = Append(flushed, agData)
  /\ Resume
  /\ UNCHANGED <<written, aggregateQueue, tick, encoding, cancelled>>

FlushAbandoned ==
  /\ cancelled
  /\ Resume
  /\ UNCHANGED <<written, aggregateQueue, tick, flushed, encoding, cancelled>>

(* Line 186. *)
Stop ==
  /\ cancelled
  /\ pc = "select"
  /\ pc' = "stopped"
  /\ UNCHANGED <<written, aggregateQueue, buf, agData, data, armed, tick,
                 flushed, encoding, cancelled>>

-----------------------------------------------------------------------------
Aggregate == Receive \/ Timeout \/ FlushDone \/ FlushAbandoned \/ Stop

Next ==
  \/ \E n \in WriteSizes : Write(n)
  \/ Encode \/ Expire \/ Cancel
  \/ Aggregate

Spec == Init /\ [][Next]_vars

-----------------------------------------------------------------------------
Bytes == 1 .. MaxBytes

(* The buffer is never full outside the loop, so a chunk never exceeds     *)
(* Capacity and NewChunk (line 143) never has a rest to complain of.       *)
TypeOK ==
  /\ written \in 0 .. MaxBytes
  /\ aggregateQueue \in Seq(Seq(Bytes))
  /\ buf \in Seq(Bytes) /\ Len(buf) < Capacity
  /\ agData \in Seq(Bytes) /\ Len(agData) <= Capacity
  /\ data \in Seq(Bytes)
  /\ pc \in {"select", "full", "timeout", "stopped"}
  /\ armed \in BOOLEAN
  /\ tick \in BOOLEAN
  /\ flushed \in Seq(Seq(Bytes))
  /\ encoding \in 0 .. Len(flushed)
  /\ cancelled \in BOOLEAN

Ascending(seq) == \A i, j \in 1 .. Len(seq) : i < j => seq[i] < seq[j]

(* The chunks, what is being flushed, the buffer, the rest in hand and the *)
(* queue are the written bytes in their order: however writes, full        *)
(* buffers and late timer values interleave, no byte is lost, doubled or   *)
(* overtaken.  Once the context is done a flush may be given up and later  *)
(* ones not (encoder.go:91), so bytes may be missing between the chunks;   *)
(* still none is doubled or overtaken.                                     *)
StreamIntact ==
  LET stream == FlattenSeq(flushed) \o agData \o buf \o data
                  \o FlattenSeq(aggregateQueue)
  IN  /\ Ascending(stream)
      /\ ~ cancelled => stream = [i \in 1 .. written |-> i]

(* Bytes left in the buffer are never forgotten: the timer runs or has     *)
(* expired whenever the aggregator waits with a buffer that is not empty.  *)
TimerGuardsBuffer == pc = "select" /\ buf # << >> => armed \/ tick
=============================================================================
