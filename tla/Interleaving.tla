----------------------------- MODULE Interleaving -----------------------------
(***************************************************************************)
(* The order in which the encoder puts packets on the wire                 *)
(* (src/src/codec/encoder.go, dispatch, lines 98-129): Depth chunks are    *)
(* collected in a block and sent column by column, so that a burst of lost *)
(* packets is spread over the chunks of the block.                         *)
(***************************************************************************)
EXTENDS Integers

CONSTANTS
  Depth, \* encoder.dispatcher.chunks, the chunks of a block
  Total  \* encoder.total, the packets of a chunk

ASSUME DepthAssumption == Depth \in Nat \ {0}
ASSUME TotalAssumption == Total \in Nat /\ Total >= 2  \* encoder.go:42

BlockSize == Depth * Total

(* Line 109: where the packet that comes as number n of its block is put.  *)
PlaceOf(n) == (Depth * n + (n \div Total)) % BlockSize

(* encode sends the parts of one chunk after another (lines 156-175).      *)
Queued(n) == [csn |-> (n \div Total) + 1, psn |-> n % Total]

(* What the loop of line 114 finds at place at of block b, which starts    *)
(* with chunk b * Depth + 1.                                               *)
AtPlace(b, at) == [csn |-> b * Depth + (at % Depth) + 1, psn |-> at \div Depth]

(* The n-th packet on the wire, counting from 0.                           *)
OnWire(n) == AtPlace(n \div BlockSize, n % BlockSize)
=============================================================================
