------------------------------- MODULE MCDecoder -------------------------------
(***************************************************************************)
(* Packets for the model checking of Decoder.                              *)
(***************************************************************************)
EXTENDS Decoder

(* What the encoder sends (encoder.go:156-173). *)
FromEncoder == [csn : Chunks, psn : Parts]
=============================================================================
