---------------------------- MODULE MCClientInbound ----------------------------
(***************************************************************************)
(* Packets for the model checking of ClientInbound.                        *)
(***************************************************************************)
EXTENDS ClientInbound

(* What the encoder sends (encoder.go:156-173). *)
FromEncoder == [csn : Chunks, psn : Parts]
=============================================================================
