--------------------------- MODULE DispatcherWindow ---------------------------
(***************************************************************************)
(* The dispatcher fed with anything, and watched: TestDispatcher feeds it  *)
(* (decoder_test.go:177-257, chunks 1 to 10) every chunk once, in any      *)
(* order, but never further ahead of the last delivered chunk than the     *)
(* ring has slots.  As long as it is fed like that no slot is contended    *)
(* and the stream comes out gapless and in order.                          *)
(***************************************************************************)
EXTENDS Dispatcher

VARIABLE strayed \* a chunk came twice or outside of the window (history)

windowVars == <<vars, strayed>>

InWindow(c) == offered[c] = 0 /\ c > 0 /\ c <= last + Size

WindowInit == Init /\ strayed = FALSE

Feed == \E c \in Csn : Offer(c) /\ strayed' = (strayed \/ ~ InWindow(c))

Order == Dispatch /\ UNCHANGED strayed

Take == Consume /\ UNCHANGED strayed

WindowNext == Feed \/ Take \/ Order \/ (Stop /\ UNCHANGED strayed)

WindowSpec == WindowInit /\ [][WindowNext]_windowVars

(* The dispatch goroutine (decoder.go:385) and the client's sender loop    *)
(* (client.go:183) run until cancelled and take whatever is ready; nobody  *)
(* has to offer anything.                                                  *)
FairWindowSpec ==
  WindowSpec /\ WF_windowVars(Order) /\ WF_windowVars(Take)

Stream == INSTANCE OrderedStream

(* Fed within the window, the dispatcher hands the client 1, 2, 3, ...:    *)
(* reordering up to the size of the ring is undone, nothing is lost and    *)
(* nothing comes twice.                                                    *)
GaplessStream ==
  Stream!Init /\ [][~ strayed' => Stream!Successor]_delivered

(* Once all chunks up to c were sent to the dispatcher, within the window, *)
(* chunk c reaches the client, unless the decoder is cancelled.            *)
DeliveredWhenComplete ==
  []<>(\A c \in Csn \ {0} :
         (\A d \in 1 .. c : d \in Csn /\ offered[d] > 0)
           => (strayed \/ pc = "stopped" \/ consumed >= c))
=============================================================================
