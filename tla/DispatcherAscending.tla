------------------------- MODULE DispatcherAscending -------------------------
(***************************************************************************)
(* The dispatcher fed the way the assembler feeds it while its own cursor  *)
(* moves forward: chunks arrive in ascending order and the ones that could *)
(* not be restored are missing (decoder.go:248 drops every packet at or    *)
(* below the newest pushed chunk).                                         *)
(***************************************************************************)
EXTENDS Dispatcher

Stream == INSTANCE OrderedStream

Ascends(c) == \A d \in Csn : offered[d] > 0 => d < c

AscendingNext ==
  \/ \E c \in Csn : Ascends(c) /\ Offer(c)
  \/ Consume
  \/ Dispatch
  \/ Stop

AscendingSpec == Init /\ [][AscendingNext]_vars

(* Chunks reach the client in ascending order, each at most once, as       *)
(* TestDispatcher expects (decoder_test.go:239-302).                       *)
OrderedDelivery == Stream!OrderedSpec
=============================================================================
