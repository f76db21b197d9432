----------------------------- MODULE MCChunkCodec -----------------------------
(***************************************************************************)
(* Payload sizes for the model checking of ChunkCodec.                     *)
(***************************************************************************)
EXTENDS ChunkCodec

(* What the aggregator flushes (Aggregator, TypeOK): at most a full buffer; *)
(* and a payload that encode refuses.                                       *)
FromAggregator == (0 .. IncomingSize) \cup {Data * DataSize + 1}
=============================================================================
