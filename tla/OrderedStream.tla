---------------------------- MODULE OrderedStream ----------------------------
(***************************************************************************)
(* What the receiving end of the codec promises its client: a stream of    *)
(* chunks, identified by csn.  The sequence delivered is everything handed *)
(* over so far.                                                            *)
(*                                                                         *)
(* OrderedSpec is the promise under loss: chunks may be missing, but none  *)
(* comes late or twice.  GaplessSpec is the promise without loss: chunk 1, *)
(* chunk 2, chunk 3 and so on.                                             *)
(***************************************************************************)
EXTENDS Integers, Sequences

CONSTANT Csn \* the numbers of the chunks

VARIABLE delivered

Newest == IF delivered = << >> THEN 0 ELSE delivered[Len(delivered)]

Init == delivered = << >>

Later(c) == c > Newest /\ delivered' = Append(delivered, c)

Successor == delivered' = Append(delivered, Newest + 1)

OrderedSpec == Init /\ [][\E c \in Csn : Later(c)]_delivered

GaplessSpec == Init /\ [][Successor]_delivered
=============================================================================
