----------------------------- MODULE BoundedQueue -----------------------------
(***************************************************************************)
(* What a ring buffer promises: a queue of at most Size items, where an    *)
(* item that comes to a full queue may displace the oldest one.            *)
(***************************************************************************)
EXTENDS Integers, Sequences

CONSTANTS
  Item,  \* what is put in the queue
  Size   \* how many items it holds

VARIABLES
  queue, \* the items in the queue, the oldest first
  taken  \* the items taken so far

Init == queue = << >> /\ taken = << >>

Put(x) ==
  /\ Len(queue) < Size
  /\ queue' = Append(queue, x)
  /\ UNCHANGED taken

Displace(x) ==
  /\ Len(queue) = Size
  /\ queue' = Append(Tail(queue), x)
  /\ UNCHANGED taken

Take ==
  /\ queue # << >>
  /\ taken' = Append(taken, Head(queue))
  /\ queue' = Tail(queue)

Next == Take \/ \E x \in Item : Put(x) \/ Displace(x)

Spec == Init /\ [][Next]_<<queue, taken>>
=============================================================================
