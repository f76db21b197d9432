------------------------------ MODULE Interleaver ------------------------------
(***************************************************************************)
(* The two goroutines behind the encoder's aggregator                      *)
(* (src/src/codec/encoder.go): encode numbers the chunks and splits each   *)
(* into Total packets, dispatch collects the packets of Depth chunks and   *)
(* sends the block in the order of its places.                             *)
(*                                                                         *)
(* A packet is its csn and psn.  The errors of lines 144, 151 and 164      *)
(* cannot occur: a flushed buffer is smaller than a chunk, and Marshal     *)
(* makes Total parts of equal size.  Every channel operation is a step of  *)
(* its own.  Encoder adds the closing of the channels.                     *)
(***************************************************************************)
EXTENDS Interleaving, Sequences, FiniteSets

CONSTANTS
  EncodeCap,     \* cap(encodeQueue), encoder.go:207
  DispatcherCap, \* cap(dispatcherQueue), encoder.go:206
  ResultCap,     \* cap(resultQueue), encoder.go:205
  MaxChunks      \* bound: how many chunks the aggregator flushes

ASSUME InterleaverCapAssumption ==
  /\ EncodeCap \in Nat \ {0}
  /\ DispatcherCap \in Nat \ {0}
  /\ ResultCap \in Nat \ {0}
  /\ MaxChunks \in Nat

VARIABLES
  flushed,         \* how many chunks were sent to encodeQueue
  encoding,        \* how many of them encode has taken
  csn,             \* encoder.csn: the number of the next chunk
  part,            \* the loop variable i of line 156
  encodePc,        \* "select" (line 139), "send" (line 169) or "stopped"
  dispatcherQueue, \* chan *PacketV2
  buf,             \* dispatcher.buf, Nil where empty
  length,          \* dispatcher.length
  dispatchPc,      \* "select" (line 105), "send" (line 118) or "stopped"
  wire,            \* every packet sent to resultQueue so far (history)
  taken,           \* how many of them the client has taken
  cancelled        \* ctx is done

encodeVars == <<csn, part, encodePc>>
dispatchVars == <<buf, length, dispatchPc>>
vars == <<flushed, encoding, encodeVars, dispatcherQueue, dispatchVars,
          wire, taken, cancelled>>

Places == 0 .. BlockSize - 1

Nil == [csn |-> 0, psn |-> 0]

Packets == [csn : Nat \ {0}, psn : 0 .. Total - 1]

FilledIn(b) == {at \in Places : b[at] # Nil}

Init ==
  /\ flushed = 0
  /\ encoding = 0
  /\ csn = 1
  /\ part = 0
  /\ encodePc = "select"
  /\ dispatcherQueue = << >>
  /\ buf = [at \in Places |-> Nil]
  /\ length = 0
  /\ dispatchPc = "select"
  /\ wire = << >>
  /\ taken = 0
  /\ cancelled = FALSE

-----------------------------------------------------------------------------
(* The environment: the aggregator, the client's sender (client.go:152)    *)
(* and the context.                                                        *)

Flush ==
  /\ flushed < MaxChunks
  /\ flushed - encoding < EncodeCap
  /\ flushed' = flushed + 1
  /\ UNCHANGED <<encoding, encodeVars, dispatcherQueue, dispatchVars,
                 wire, taken, cancelled>>

Take ==
  /\ taken < Len(wire)
  /\ taken' = taken + 1
  /\ UNCHANGED <<flushed, encoding, encodeVars, dispatcherQueue, dispatchVars,
                 wire, cancelled>>

Cancel ==
  /\ ~ cancelled
  /\ cancelled' = TRUE
  /\ UNCHANGED <<flushed, encoding, encodeVars, dispatcherQueue, dispatchVars,
                 wire, taken>>

-----------------------------------------------------------------------------
(* encode (lines 131-178). *)

(* Lines 142-156. *)
TakeChunk ==
  /\ encodePc = "select"
  /\ encoding < flushed
  /\ encoding' = encoding + 1
  /\ encodePc' = "send"
  /\ UNCHANGED <<flushed, csn, part, dispatcherQueue, dispatchVars,
                 wire, taken, cancelled>>

(* Lines 163-175. *)
SendPart ==
  /\ encodePc = "send"
  /\ Len(dispatcherQueue) < DispatcherCap
  /\ dispatcherQueue' = Append(dispatcherQueue, [csn |-> csn, psn |-> part])
  /\ IF part + 1 = Total
       THEN part' = 0 /\ csn' = csn + 1 /\ encodePc' = "select"
       ELSE part' = part + 1 /\ UNCHANGED <<csn, encodePc>>
  /\ UNCHANGED <<flushed, encoding, dispatchVars, wire, taken, cancelled>>

(* Lines 133, 140 and 170. *)
StopEncode ==
  /\ cancelled
  /\ encodePc # "stopped"
  /\ encodePc' = "stopped"
  /\ csn' = 0
  /\ UNCHANGED <<flushed, encoding, part, dispatcherQueue, dispatchVars,
                 wire, taken, cancelled>>

-----------------------------------------------------------------------------
(* dispatch (lines 98-129). *)

(* Mutant: the block is sent when one packet is still missing. *)
CollectTooFew ==
  /\ dispatchPc = "select"
  /\ dispatcherQueue # << >>
  /\ dispatcherQueue' = Tail(dispatcherQueue)
  /\ buf' = [buf EXCEPT ![PlaceOf(length)] = Head(dispatcherQueue)]
  /\ length' = length + 1
  /\ dispatchPc' = IF length' = BlockSize - 1 THEN "send" ELSE "select"
  /\ UNCHANGED <<flushed, encoding, encodeVars, wire, taken, cancelled>>

(* Mutant: the block is sent one packet too late. *)
CollectTooMany ==
  /\ dispatchPc = "select"
  /\ dispatcherQueue # << >>
  /\ dispatcherQueue' = Tail(dispatcherQueue)
  /\ buf' = [buf EXCEPT ![PlaceOf(length)] = Head(dispatcherQueue)]
  /\ length' = length + 1
  /\ dispatchPc' = IF length' > BlockSize THEN "send" ELSE "select"
  /\ UNCHANGED <<flushed, encoding, encodeVars, wire, taken, cancelled>>

(* Lines 108-113. *)
Collect ==
  /\ dispatchPc = "select"
  /\ dispatcherQueue # << >>
  /\ dispatcherQueue' = Tail(dispatcherQueue)
  /\ buf' = [buf EXCEPT ![PlaceOf(length)] = Head(dispatcherQueue)]
  /\ length' = length + 1
  /\ dispatchPc' = IF length' = BlockSize THEN "send" ELSE "select"
  /\ UNCHANGED <<flushed, encoding, encodeVars, wire, taken, cancelled>>

(* Lines 114-125: the loop empties the places in ascending order and skips *)
(* nil ones, so the next is the first that is filled.                      *)
SendPlace(at) ==
  /\ dispatchPc = "send"
  /\ at \in FilledIn(buf)
  /\ \A other \in FilledIn(buf) : at <= other
  /\ Len(wire) - taken < ResultCap
  /\ wire' = Append(wire, buf[at])
  /\ buf' = [buf EXCEPT ![at] = Nil]
  /\ IF FilledIn(buf') = {}
       THEN length' = 0 /\ dispatchPc' = "select"
       ELSE UNCHANGED <<length, dispatchPc>>
  /\ UNCHANGED <<flushed, encoding, encodeVars, dispatcherQueue,
                 taken, cancelled>>

(* Mutant: the send to resultQueue does not watch the context. *)
StopDispatchAtSelect ==
  /\ cancelled
  /\ dispatchPc = "select"
  /\ dispatchPc' = "stopped"
  /\ UNCHANGED <<flushed, encoding, encodeVars, dispatcherQueue, buf, length,
                 wire, taken, cancelled>>

(* Lines 106 and 119. *)
StopDispatch ==
  /\ cancelled
  /\ dispatchPc # "stopped"
  /\ dispatchPc' = "stopped"
  /\ UNCHANGED <<flushed, encoding, encodeVars, dispatcherQueue, buf, length,
                 wire, taken, cancelled>>

-----------------------------------------------------------------------------
Encode == TakeChunk \/ SendPart \/ StopEncode

Dispatch ==
  \/ Collect
  \/ \E at \in Places : SendPlace(at)
  \/ StopDispatch

Next == Flush \/ Take \/ Cancel \/ Encode \/ Dispatch

Spec == Init /\ [][Next]_vars

-----------------------------------------------------------------------------
(* Chunks are numbered from 1 and a packet is one of the parts of a chunk; *)
(* length never runs past the block.                                       *)
TypeOK ==
  /\ flushed \in Nat
  /\ encoding \in Nat
  /\ csn \in Nat
  /\ part \in 0 .. Total - 1
  /\ encodePc \in {"select", "send", "stopped"}
  /\ dispatcherQueue \in Seq(Packets)
  /\ buf \in [Places -> Packets \cup {Nil}]
  /\ length \in 0 .. BlockSize
  /\ dispatchPc \in {"select", "send", "stopped"}
  /\ wire \in Seq(Packets)
  /\ taken \in Nat
  /\ cancelled \in BOOLEAN

(* The wire carries exactly the interleaving of the chunks, from the first *)
(* packet on: no packet is missing, sent twice or out of its place.        *)
WireOrder == \A n \in 1 .. Len(wire) : wire[n] = OnWire(n - 1)

(* A burst of up to Depth lost packets hits no chunk twice: that is what   *)
(* the interleaver is there for.                                           *)
BurstSpread ==
  \A m, n \in 1 .. Len(wire) :
    m < n /\ n - m < Depth => wire[m].csn # wire[n].csn
=============================================================================
