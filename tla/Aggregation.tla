------------------------------ MODULE Aggregation ------------------------------
(***************************************************************************)
(* The sizes the encoder's aggregator (src/src/codec/encoder.go) works     *)
(* with, shared by Aggregator and by Encoder, which composes it.           *)
(***************************************************************************)
EXTENDS Integers

CONSTANTS
  Capacity,     \* cap(aggregator.buf), IncomingSize()
  WriteSizes,   \* the sizes of what the application writes at once
  AggregateCap, \* cap(aggregateQueue), encoder.go:208
  MaxBytes      \* bound: how many bytes the application writes

ASSUME CapacityAssumption == Capacity \in Nat \ {0}
ASSUME WritesAssumption == WriteSizes \subseteq Nat \ {0} /\ MaxBytes \in Nat
ASSUME AggregateCapAssumption == AggregateCap \in Nat \ {0}
=============================================================================
