----------------------------- MODULE MCAssembler -----------------------------
(***************************************************************************)
(* Packets for the model checking of Assembler.                            *)
(***************************************************************************)
EXTENDS Assembler

(* What the encoder sends for chunks 1 .. Newest (encoder.go:156-173). *)
CONSTANT Newest
FromEncoder == [csn : 1 .. Newest, psn : Parts]

(* Packets with the numbers the assembler refuses (decoder.go:235-244). *)
Stray == {[csn |-> 0, psn |-> 1], [csn |-> 1, psn |-> Total + 1]}

(* What is left when the first and the last packet of all are lost. *)
FromAnywhere ==
  (FromEncoder \ {[csn |-> 1, psn |-> 0], [csn |-> Newest, psn |-> Total - 1]})
    \cup Stray

(* With a packet of part number Total, which the assembler takes.       *)
FromBoundary == FromEncoder \cup {[csn |-> 1, psn |-> Total]}
=============================================================================
