------------------------------ MODULE Dispatcher ------------------------------
(***************************************************************************)
(* The decoder's dispatcher (src/src/codec/decoder.go, dispatch): the      *)
(* goroutine that takes restored chunks from dispatchQueue, holds those    *)
(* that are ahead of the awaited one in a ring of Size slots and sends     *)
(* them to resultQueue, giving up on the awaited chunk when two chunks     *)
(* collide in a slot.                                                      *)
(*                                                                         *)
(* A chunk is its csn; its payload takes no part in any decision.  Every   *)
(* channel operation is a step of its own and the code between two channel *)
(* operations touches only this goroutine's state, so it belongs to the    *)
(* step before it.  A handler that blocks on resultQueue keeps the chunk   *)
(* it took in hand.                                                        *)
(*                                                                         *)
(* `case <-reset` (decoder.go:95-99) has no action: its only sender is     *)
(* commented out (decoder.go:310-321).  Closing of the channels is not     *)
(* modelled here; a cancelled context is the action Stop.                  *)
(***************************************************************************)
EXTENDS Integers, Sequences

CONSTANTS
  Csn,        \* the sequence numbers of the chunks the restorer may send
  Size,       \* dispatcher.size, the number of slots of dispatcher.chunks
  DispatchCap,\* cap(dispatchQueue), decoder.go:380
  ResultCap,  \* cap(resultQueue), decoder.go:379
  MaxCopies   \* bound: how often one chunk may be sent to the dispatcher

ASSUME CsnAssumption  == Csn \subseteq Nat
ASSUME SizeAssumption == Size \in Nat \ {0}
ASSUME CapAssumption  == /\ DispatchCap \in Nat \ {0}
                         /\ ResultCap \in Nat \ {0}
                         /\ MaxCopies \in Nat \ {0}

VARIABLES
  awaiting,       \* dispatcher.awaiting: the csn to be delivered next
  first,          \* dispatcher.first: the highest csn seen
  last,           \* dispatcher.last: the csn delivered last
  chunks,         \* dispatcher.chunks, Empty for a nil slot
  chunk,          \* the local variable chunk: the one in hand
  pc,             \* where the goroutine is, see Pcs
  dispatchQueue,  \* chan *Chunk, filled by the restorer
  delivered,      \* every csn sent to resultQueue so far (history)
  consumed,       \* how many of them the client has taken from resultQueue
  offered,        \* how often each csn was sent to dispatchQueue (history)
  accepted        \* csns that passed the checks of lines 101-117 (history)

state == <<awaiting, first, last, chunks, chunk>>
vars == <<awaiting, first, last, chunks, chunk, pc,
          dispatchQueue, delivered, consumed, offered, accepted>>

(* A nil slot.  No chunk has csn 0 (decoder.go:107), so 0 is free for it. *)
Empty == 0

Slots == 0 .. Size - 1

(* At the select of line 92; blocked in the send of line 129, 143 or 169;  *)
(* or returned.                                                            *)
Pcs == {"select", "evict", "deliver", "drain", "stopped"}

Slot(csn) == csn % Size

Held == {chunks[at] : at \in Slots} \ {Empty}

InHand == IF pc \in {"evict", "deliver"} THEN {chunk} ELSE {}

SentOut == {delivered[i] : i \in 1 .. Len(delivered)}

Init ==
  /\ awaiting = 1
  /\ first = 0
  /\ last = 0
  /\ chunks = [at \in Slots |-> Empty]
  /\ chunk = Empty
  /\ pc = "select"
  /\ dispatchQueue = << >>
  /\ delivered = << >>
  /\ consumed = 0
  /\ offered = [c \in Csn |-> 0]
  /\ accepted = {}

-----------------------------------------------------------------------------
(* The environment: the restorer fills dispatchQueue (decoder.go:214), the *)
(* client empties resultQueue (client.go:187).                             *)

Offer(c) ==
  /\ offered[c] < MaxCopies
  /\ Len(dispatchQueue) < DispatchCap
  /\ dispatchQueue' = Append(dispatchQueue, c)
  /\ offered' = [offered EXCEPT ![c] = @ + 1]
  /\ UNCHANGED <<state, pc, delivered, consumed, accepted>>

Consume ==
  /\ consumed < Len(delivered)
  /\ consumed' = consumed + 1
  /\ UNCHANGED <<state, pc, dispatchQueue, delivered, offered, accepted>>

-----------------------------------------------------------------------------
(* Receiving a chunk (decoder.go:100-140). *)

(* Lines 107 and 113: the chunk is dropped. *)
Detached(c) == c = 0 \/ c <= last

Receive(c) ==
  /\ pc = "select"
  /\ dispatchQueue # << >>
  /\ c = Head(dispatchQueue)
  /\ dispatchQueue' = Tail(dispatchQueue)
  /\ UNCHANGED <<delivered, consumed, offered>>

(* Lines 107-117. *)
DropDetached(c) ==
  /\ Receive(c)
  /\ Detached(c)
  /\ UNCHANGED <<state, pc, accepted>>

(* Lines 119-141: first is updated before the kind of chunk is known. *)
Accept(c) ==
  /\ Receive(c)
  /\ ~ Detached(c)
  /\ first' = IF c > first THEN c ELSE first
  /\ accepted' = accepted \cup {c}
  /\ chunk' = c
  /\ UNCHANGED <<awaiting, last>>

(* Mutant: a chunk that finds its slot taken replaces what is there. *)
HoldOverwriting(c) ==
  /\ Accept(c)
  /\ c # awaiting
  /\ chunks' = [chunks EXCEPT ![Slot(c)] = c]
  /\ pc' = "select"

(* Lines 134-138: not its turn and the slot is free. *)
Hold(c) ==
  /\ Accept(c)
  /\ c # awaiting
  /\ chunks[Slot(c)] = Empty
  /\ chunks' = [chunks EXCEPT ![Slot(c)] = c]
  /\ pc' = "select"

(* Lines 121-129: not its turn and the slot is taken. *)
Collide(c) ==
  /\ Accept(c)
  /\ c # awaiting
  /\ chunks[Slot(c)] # Empty
  /\ pc' = "evict"
  /\ UNCHANGED chunks

(* Lines 139-143: the awaited chunk. *)
Match(c) ==
  /\ Accept(c)
  /\ c = awaiting
  /\ pc' = "deliver"
  /\ UNCHANGED chunks

-----------------------------------------------------------------------------
(* Sending to resultQueue (decoder.go:126-174). *)

Send(c) ==
  /\ Len(delivered) - consumed < ResultCap
  /\ delivered' = Append(delivered, c)
  /\ UNCHANGED <<first, chunk, dispatchQueue, consumed, offered, accepted>>

(* Mutant: the loop of line 155 stops one short of first. *)
NextIsHeldOffByOne(l, a, held) == l + 1 < first /\ held[Slot(l + 1)] = a

(* Lines 149-164: whether the loop, whose variable i always equals last,   *)
(* goes round once more: i is below first and slot i + 1 holds the awaited *)
(* chunk.                                                                  *)
NextIsHeld(l, a, held) == l < first /\ held[Slot(l + 1)] = a

Continue(l, a, held) == IF NextIsHeld(l, a, held) THEN "drain" ELSE "select"

(* Mutant: the awaited csn is not moved past the evicted chunk. *)
EvictKeepingAwaited ==
  /\ pc = "evict"
  /\ LET old == chunks[Slot(chunk)] IN
       /\ Send(old)
       /\ last' = old
       /\ awaiting' = awaiting
       /\ chunks' = [chunks EXCEPT ![Slot(chunk)] = chunk]
       /\ pc' = Continue(old, awaiting, chunks')

(* Mutant: the chunk in hand does not take the slot. *)
EvictForgettingChunk ==
  /\ pc = "evict"
  /\ LET old == chunks[Slot(chunk)] IN
       /\ Send(old)
       /\ last' = old
       /\ awaiting' = old + 1
       /\ chunks' = chunks
       /\ pc' = Continue(old, old + 1, chunks)

(* Lines 126-133: the chunk that holds the slot is delivered, whatever it  *)
(* skips, and the one in hand takes its place.                             *)
Evict ==
  /\ pc = "evict"
  /\ LET old == chunks[Slot(chunk)] IN
       /\ Send(old)
       /\ last' = old
       /\ awaiting' = old + 1
       /\ chunks' = [chunks EXCEPT ![Slot(chunk)] = chunk]
       /\ pc' = Continue(old, old + 1, chunks')

(* Lines 140-146. *)
Deliver ==
  /\ pc = "deliver"
  /\ Send(chunk)
  /\ last' = chunk
  /\ awaiting' = awaiting + 1
  /\ chunks' = chunks
  /\ pc' = Continue(chunk, awaiting + 1, chunks)

(* Mutant: a drained slot is left as it is. *)
DrainWithoutClearing ==
  /\ pc = "drain"
  /\ LET next == chunks[Slot(last + 1)] IN
       /\ Send(next)
       /\ last' = next
       /\ awaiting' = awaiting + 1
       /\ chunks' = chunks
       /\ pc' = Continue(next, awaiting + 1, chunks)

(* Lines 166-173. *)
Drain ==
  /\ pc = "drain"
  /\ LET next == chunks[Slot(last + 1)] IN
       /\ Send(next)
       /\ last' = next
       /\ awaiting' = awaiting + 1
       /\ chunks' = [chunks EXCEPT ![Slot(last + 1)] = Empty]
       /\ pc' = Continue(next, awaiting + 1, chunks')

(* Lines 93, 127, 141, 167: the context is cancelled. *)
Stop ==
  /\ pc # "stopped"
  /\ pc' = "stopped"
  /\ UNCHANGED <<state, dispatchQueue, delivered, consumed, offered, accepted>>

-----------------------------------------------------------------------------
(* The chunk that is received next, if any. *)
AtFront == IF dispatchQueue = << >> THEN {} ELSE {Head(dispatchQueue)}

Dispatch ==
  \/ \E c \in Csn \cap AtFront :
       DropDetached(c) \/ Hold(c) \/ Collide(c) \/ Match(c)
  \/ Evict
  \/ Deliver
  \/ Drain

Next ==
  \/ \E c \in Csn : Offer(c)
  \/ Consume
  \/ Dispatch
  \/ Stop

Spec == Init /\ [][Next]_vars

-----------------------------------------------------------------------------
(* The only chunks held and sent are chunks that came in, none of them nil *)
(* and none of them chunk 0: no nil slot is ever dereferenced.             *)
TypeOK ==
  /\ awaiting \in Nat
  /\ first \in Nat
  /\ last \in Nat
  /\ chunks \in [Slots -> Csn \cup {Empty}]
  /\ chunk \in Csn \cup {Empty}
  /\ pc \in Pcs
  /\ dispatchQueue \in Seq(Csn)
  /\ delivered \in Seq(Csn \ {0})
  /\ consumed \in Nat
  /\ offered \in [Csn -> Nat]
  /\ accepted \in SUBSET (Csn \ {0})

(* The three cursors agree: the awaited csn is the successor of the last   *)
(* one delivered, and the last one delivered was seen, so the unsigned     *)
(* subtraction first - last of line 149 never wraps.                       *)
CursorsAgree ==
  /\ awaiting = last + 1
  /\ last <= first

(* The dispatcher never goes back to its select (line 92) while it holds   *)
(* the chunk it is waiting for: nothing would deliver that chunk until a   *)
(* later collision.                                                        *)
AwaitedNeverHeld == pc = "select" => awaiting \notin Held

(* Every chunk the dispatcher accepted is delivered, held or in hand:      *)
(* neither a collision nor the drain loop throws an accepted chunk away.   *)
NothingDiscarded ==
  pc # "stopped" => accepted \subseteq SentOut \cup Held \cup InHand

(* A lost chunk does not hold back the stream for ever: once chunk c and    *)
(* the one Size places after it have come in, the client gets c or a later *)
(* chunk, whatever else is missing, late or doubled.                       *)
NoStall ==
  []<>(\A c \in Csn :
         (c > 0 /\ c + Size \in Csn /\ offered[c] > 0 /\ offered[c + Size] > 0)
           => (pc = "stopped" \/ \E d \in SentOut : d >= c))

(* A chunk is held in the slot its csn selects, and only if it was seen:   *)
(* the look-up of line 156 and the collision test of line 123 find it.     *)
HeldInItsSlot ==
  \A at \in Slots : chunks[at] # Empty =>
    /\ Slot(chunks[at]) = at
    /\ chunks[at] <= first

(* The collision, delivery and drain branches work on what they think they *)
(* do: an eviction finds a chunk in the slot, the chunk in hand is the     *)
(* awaited one, and the drained slot holds the awaited chunk.              *)
BranchesMatch ==
  /\ pc \in {"evict", "deliver"} => chunk # Empty /\ chunk <= first
  /\ pc = "evict"   => chunks[Slot(chunk)] # Empty /\ chunk # awaiting
  /\ pc = "deliver" => chunk = awaiting
  /\ pc = "drain"   => chunks[Slot(last + 1)] = awaiting /\ last < first

(* The inductive invariant: what the properties above rest on.             *)
IInv ==
  /\ TypeOK
  /\ CursorsAgree
  /\ HeldInItsSlot
  /\ AwaitedNeverHeld
  /\ BranchesMatch
  /\ NothingDiscarded

-----------------------------------------------------------------------------
(* What keeps a chunk from being delivered twice: as long as none is       *)
(* offered twice, each is in one place only.                               *)

Queued == {dispatchQueue[i] : i \in 1 .. Len(dispatchQueue)}

OnlyOffered == \A c \in Queued \cup accepted : offered[c] > 0

OnlyAccepted == Held \cup InHand \cup SentOut \subseteq accepted

OfferedOnce == \A c \in Csn : offered[c] <= 1

EachOnce ==
  /\ \A i, j \in 1 .. Len(dispatchQueue) :
       dispatchQueue[i] = dispatchQueue[j] => i = j
  /\ \A i, j \in 1 .. Len(delivered) : delivered[i] = delivered[j] => i = j
  /\ Queued \cap accepted = {}
  /\ SentOut \cap (Held \cup InHand) = {}
  /\ Held \cap InHand = {}

OnceInv ==
  /\ IInv
  /\ OnlyOffered
  /\ OnlyAccepted
  /\ OfferedOnce => EachOnce
=============================================================================
