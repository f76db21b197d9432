--------------------------- MODULE DispatcherProofs ---------------------------
(***************************************************************************)
(* The dispatcher's invariant, proved for every ring size, every capacity  *)
(* of the two channels and every set of sequence numbers.                  *)
(*                                                                         *)
(* The argument: the cursors move together (CursorsAgree), a chunk is held *)
(* in the slot its csn selects and below first (HeldInItsSlot), so the one *)
(* look-up of lines 156-161 decides whether the awaited chunk is held      *)
(* anywhere (NotNextMeansNotHeld); each of the two stores of lines 133 and *)
(* 135 goes into a slot whose occupant was just sent or that was empty, so *)
(* an accepted chunk is never lost (NothingDiscarded).                     *)
(*                                                                         *)
(* In the second half the dispatcher, as long as it is fed within its      *)
(* window, implements the gapless stream.  WindowInv says that whatever is *)
(* queued or held lies in the Size chunks after the last delivered one.    *)
(* Two such chunks never share a slot (RemainderTellsApart), so the        *)
(* eviction of line 123 is unreachable, and the other two sends deliver    *)
(* last + 1.  That those two do so whatever is fed is proved at the end    *)
(* (OnlyCollisionsLeap).                                                   *)
(***************************************************************************)
EXTENDS DispatcherWindow, DataLemmas

(* The slot of a chunk is a slot of the ring. *)
LEMMA SlotType ==
  ASSUME NEW c \in Nat
  PROVE  Slot(c) \in Slots
BY SizeAssumption DEF Slot, Slots

(* What a slot holds is a number. *)
LEMMA HeldIsNat ==
  ASSUME TypeOK, NEW at \in Slots
  PROVE  chunks[at] \in Nat
<1>1. chunks[at] \in Csn \/ chunks[at] = 0
  BY DEF TypeOK, Empty
<1>2. chunks[at] \in Csn => chunks[at] \in Nat
  BY CsnAssumption
<1> QED
  BY <1>1, <1>2

(* A chunk is sent: what was sent before is still there, and so is it. *)
LEMMA SentOutAppend ==
  ASSUME NEW S, delivered \in Seq(S), NEW c \in S,
         delivered' = Append(delivered, c)
  PROVE  SentOut' = SentOut \cup {c}
<1>1. Len(delivered') = Len(delivered) + 1
  OBVIOUS
<1>2. \A i \in 1 .. Len(delivered) : delivered'[i] = delivered[i]
  OBVIOUS
<1>3. delivered'[Len(delivered) + 1] = c
  OBVIOUS
<1>4. Len(delivered) \in Nat
  OBVIOUS
<1>5. SentOut' \subseteq SentOut \cup {c}
  <2> SUFFICES ASSUME NEW i \in 1 .. Len(delivered')
               PROVE  delivered'[i] \in SentOut \cup {c}
    BY DEF SentOut
  <2>1. CASE i \in 1 .. Len(delivered)
    BY <2>1, <1>2 DEF SentOut
  <2>2. CASE i = Len(delivered) + 1
    BY <2>2, <1>3
  <2> QED
    BY <2>1, <2>2, <1>1, <1>4
<1>6. SentOut \subseteq SentOut'
  <2> SUFFICES ASSUME NEW i \in 1 .. Len(delivered)
               PROVE  delivered[i] \in SentOut'
    BY DEF SentOut
  <2>1. i \in 1 .. Len(delivered')
    BY <1>1, <1>4
  <2> QED
    BY <2>1, <1>2 DEF SentOut
<1>7. c \in SentOut'
  <2>1. Len(delivered) + 1 \in 1 .. Len(delivered')
    BY <1>1, <1>4
  <2> QED
    BY <2>1, <1>3 DEF SentOut
<1> QED
  BY <1>5, <1>6, <1>7

(* The look-up of lines 155-164 is complete: when it does not find chunk   *)
(* l + 1, that chunk is held in no slot.                                   *)
LEMMA NotNextMeansNotHeld ==
  ASSUME NEW l \in Nat, NEW held, first \in Nat, Csn \subseteq Nat,
         held \in [Slots -> Csn \cup {Empty}],
         \A at \in Slots : held[at] # Empty =>
           Slot(held[at]) = at /\ held[at] <= first,
         ~ NextIsHeld(l, l + 1, held)
  PROVE  l + 1 \notin {held[at] : at \in Slots} \ {Empty}
<1> SUFFICES ASSUME NEW at \in Slots, held[at] = l + 1
             PROVE  FALSE
  OBVIOUS
<1>1. held[at] # Empty
  BY DEF Empty
<1>2. Slot(l + 1) = at /\ l + 1 <= first
  BY <1>1
<1>3. l < first /\ held[Slot(l + 1)] = l + 1
  BY <1>2
<1> QED
  BY <1>3 DEF NextIsHeld

-----------------------------------------------------------------------------
LEMMA InitIInv == Init => IInv
<1> SUFFICES ASSUME Init PROVE IInv
  OBVIOUS
<1>1. TypeOK
  BY DEF Init, TypeOK, Pcs, Empty
<1>2. CursorsAgree
  BY DEF Init, CursorsAgree
<1>3. HeldInItsSlot
  BY DEF Init, HeldInItsSlot
<1>4. AwaitedNeverHeld
  BY DEF Init, AwaitedNeverHeld, Held
<1>5. BranchesMatch
  BY DEF Init, BranchesMatch
<1>6. NothingDiscarded
  BY DEF Init, NothingDiscarded
<1> QED
  BY <1>1, <1>2, <1>3, <1>4, <1>5, <1>6 DEF IInv

(* Steps that leave the dispatcher alone. *)
LEMMA StutterKeepsIInv == IInv /\ UNCHANGED vars => IInv'
<1> SUFFICES ASSUME IInv, UNCHANGED vars PROVE IInv'
  OBVIOUS
<1>1. TypeOK' /\ CursorsAgree'
  BY DEF IInv, vars, TypeOK, CursorsAgree
<1>2. HeldInItsSlot'
  BY DEF IInv, vars, HeldInItsSlot
<1>3. AwaitedNeverHeld'
  BY DEF IInv, vars, AwaitedNeverHeld, Held
<1>4. BranchesMatch'
  BY DEF IInv, vars, BranchesMatch
<1>5. NothingDiscarded'
  BY DEF IInv, vars, NothingDiscarded, Held, InHand, SentOut
<1> QED
  BY <1>1, <1>2, <1>3, <1>4, <1>5 DEF IInv

LEMMA OfferKeepsIInv ==
  ASSUME IInv, NEW c \in Csn, Offer(c)
  PROVE  IInv'
<1> USE DEF Offer, state
<1>1. TypeOK'
  BY DEF IInv, TypeOK
<1>2. CursorsAgree' /\ HeldInItsSlot' /\ BranchesMatch'
  BY DEF IInv, CursorsAgree, HeldInItsSlot, BranchesMatch
<1>3. AwaitedNeverHeld' /\ NothingDiscarded'
  BY DEF IInv, AwaitedNeverHeld, NothingDiscarded, Held, InHand, SentOut
<1> QED
  BY <1>1, <1>2, <1>3 DEF IInv

LEMMA ConsumeKeepsIInv ==
  ASSUME IInv, Consume
  PROVE  IInv'
<1> USE DEF Consume, state
<1>1. TypeOK'
  BY DEF IInv, TypeOK
<1>2. CursorsAgree' /\ HeldInItsSlot' /\ BranchesMatch'
  BY DEF IInv, CursorsAgree, HeldInItsSlot, BranchesMatch
<1>3. AwaitedNeverHeld' /\ NothingDiscarded'
  BY DEF IInv, AwaitedNeverHeld, NothingDiscarded, Held, InHand, SentOut
<1> QED
  BY <1>1, <1>2, <1>3 DEF IInv

LEMMA StopKeepsIInv ==
  ASSUME IInv, Stop
  PROVE  IInv'
<1> USE DEF Stop, state
<1>1. TypeOK'
  BY DEF IInv, TypeOK, Pcs
<1>2. CursorsAgree' /\ HeldInItsSlot' /\ BranchesMatch'
  BY DEF IInv, CursorsAgree, HeldInItsSlot, BranchesMatch
<1>3. AwaitedNeverHeld' /\ NothingDiscarded'
  BY DEF AwaitedNeverHeld, NothingDiscarded
<1> QED
  BY <1>1, <1>2, <1>3 DEF IInv

LEMMA DropDetachedKeepsIInv ==
  ASSUME IInv, NEW c \in Csn, DropDetached(c)
  PROVE  IInv'
<1> USE DEF DropDetached, Receive, state
<1>1. TypeOK'
  BY DEF IInv, TypeOK
<1>2. CursorsAgree' /\ HeldInItsSlot' /\ BranchesMatch'
  BY DEF IInv, CursorsAgree, HeldInItsSlot, BranchesMatch
<1>3. AwaitedNeverHeld' /\ NothingDiscarded'
  BY DEF IInv, AwaitedNeverHeld, NothingDiscarded, Held, InHand, SentOut
<1> QED
  BY <1>1, <1>2, <1>3 DEF IInv

-----------------------------------------------------------------------------
(* Receiving a chunk that is not dropped. *)

(* What lines 100-119 guarantee of an accepted chunk. *)
LEMMA AcceptFacts ==
  ASSUME IInv, NEW c \in Csn, Accept(c)
  PROVE  /\ c \in Csn \ {0} /\ c \in Nat /\ c > last
         /\ first' \in Nat /\ first <= first' /\ c <= first'
         /\ dispatchQueue' \in Seq(Csn)
BY CsnAssumption DEF Accept, Receive, Detached, IInv, TypeOK

LEMMA HoldKeepsIInv ==
  ASSUME IInv, NEW c \in Csn, Hold(c)
  PROVE  IInv'
<1>1. Accept(c) /\ c # awaiting /\ chunks[Slot(c)] = Empty
  BY DEF Hold
<1>2. /\ c \in Csn \ {0} /\ c \in Nat /\ c > last
      /\ first' \in Nat /\ first <= first' /\ c <= first'
      /\ dispatchQueue' \in Seq(Csn)
  BY <1>1, AcceptFacts
<1>3. Slot(c) \in Slots
  BY <1>2, SlotType
<1>4. TypeOK
  BY DEF IInv
<1>5. /\ pc' = "select"
      /\ chunks' = [chunks EXCEPT ![Slot(c)] = c]
      /\ UNCHANGED <<awaiting, last, delivered, consumed, offered>>
      /\ accepted' = accepted \cup {c}
      /\ chunk' = c
  BY DEF Hold, Accept, Receive
<1>6. TypeOK'
  BY <1>2, <1>3, <1>4, <1>5 DEF TypeOK, Pcs
<1>7. CursorsAgree'
  BY <1>2, <1>4, <1>5 DEF IInv, CursorsAgree, TypeOK
<1>8. HeldInItsSlot'
  <2> SUFFICES ASSUME NEW at \in Slots, chunks'[at] # Empty
               PROVE  Slot(chunks'[at]) = at /\ chunks'[at] <= first'
    BY DEF HeldInItsSlot
  <2>1. CASE at = Slot(c)
    BY <2>1, <1>2, <1>4, <1>5 DEF TypeOK
  <2>2. CASE at # Slot(c)
    <3>1. chunks'[at] = chunks[at]
      BY <2>2, <1>4, <1>5 DEF TypeOK
    <3>2. Slot(chunks[at]) = at /\ chunks[at] <= first
      BY <3>1 DEF IInv, HeldInItsSlot
    <3>3. chunks[at] \in Nat /\ first \in Nat
      BY <1>4, HeldIsNat DEF TypeOK
    <3> QED
      BY <3>1, <3>2, <3>3, <1>2
  <2> QED
    BY <2>1, <2>2
<1>9. Held' = Held \cup {c}
  <2>1. \A at \in Slots : chunks'[at] = IF at = Slot(c) THEN c ELSE chunks[at]
    BY <1>4, <1>5 DEF TypeOK
  <2> QED
    BY <2>1, <1>1, <1>2, <1>3 DEF Held, Empty
<1>10. pc = "select" /\ awaiting \notin Held
  BY DEF Hold, Accept, Receive, IInv, AwaitedNeverHeld
<1>11. AwaitedNeverHeld'
  BY <1>1, <1>5, <1>9, <1>10 DEF AwaitedNeverHeld
<1>12. BranchesMatch'
  BY <1>5 DEF BranchesMatch
<1>13. NothingDiscarded'
  BY <1>5, <1>9, <1>10 DEF IInv, NothingDiscarded, InHand, SentOut
<1> QED
  BY <1>6, <1>7, <1>8, <1>11, <1>12, <1>13 DEF IInv

(* The chunk stays in hand until resultQueue takes something. *)
LEMMA CollideOrMatchKeepsIInv ==
  ASSUME IInv, NEW c \in Csn, Collide(c) \/ Match(c)
  PROVE  IInv'
<1>1. /\ Accept(c) /\ pc = "select"
      /\ pc' \in {"evict", "deliver"}
      /\ pc' = "evict" => c # awaiting /\ chunks[Slot(c)] # Empty
      /\ pc' = "deliver" => c = awaiting
      /\ UNCHANGED <<awaiting, last, chunks, delivered, consumed, offered>>
      /\ accepted' = accepted \cup {c}
      /\ chunk' = c
  BY DEF Collide, Match, Accept, Receive
<1>2. /\ c \in Csn \ {0} /\ c \in Nat /\ c > last
      /\ first' \in Nat /\ first <= first' /\ c <= first'
      /\ dispatchQueue' \in Seq(Csn)
  BY <1>1, AcceptFacts
<1>3. TypeOK
  BY DEF IInv
<1>4. TypeOK'
  BY <1>1, <1>2, <1>3 DEF TypeOK, Pcs
<1>5. CursorsAgree'
  BY <1>1, <1>2, <1>3 DEF IInv, CursorsAgree, TypeOK
<1>6. HeldInItsSlot'
  <2>1. \A at \in Slots : chunks[at] \in Nat
    BY <1>3, HeldIsNat
  <2>2. first \in Nat
    BY <1>3 DEF TypeOK
  <2> QED
    BY <2>1, <2>2, <1>1, <1>2 DEF IInv, HeldInItsSlot
<1>7. AwaitedNeverHeld'
  BY <1>1 DEF AwaitedNeverHeld
<1>8. BranchesMatch'
  BY <1>1, <1>2 DEF BranchesMatch, Empty
<1>9. NothingDiscarded'
  BY <1>1 DEF IInv, NothingDiscarded, InHand, SentOut, Held
<1> QED
  BY <1>4, <1>5, <1>6, <1>7, <1>8, <1>9 DEF IInv

-----------------------------------------------------------------------------
(* Sending a chunk. *)

(* After a send the loop of lines 155-174 goes on exactly when the awaited *)
(* chunk is held.                                                          *)
LEMMA AfterSend ==
  ASSUME TypeOK', CursorsAgree', HeldInItsSlot', first' = first,
         pc' = Continue(last', awaiting', chunks')
  PROVE  AwaitedNeverHeld' /\ BranchesMatch'
<1>1. awaiting' = last' + 1 /\ last' \in Nat /\ first \in Nat
  BY DEF TypeOK, CursorsAgree
<1>2. CASE NextIsHeld(last', awaiting', chunks')
  <2>1. pc' = "drain"
    BY <1>2 DEF Continue
  <2>2. chunks'[Slot(last' + 1)] = awaiting' /\ last' < first'
    BY <1>2 DEF NextIsHeld
  <2> QED
    BY <2>1, <2>2 DEF AwaitedNeverHeld, BranchesMatch, Slot
<1>3. CASE ~ NextIsHeld(last', awaiting', chunks')
  <2>1. pc' = "select"
    BY <1>3 DEF Continue
  <2>2. chunks' \in [Slots -> Csn \cup {Empty}]
    BY DEF TypeOK
  <2>3. \A at \in Slots : chunks'[at] # Empty =>
          Slot(chunks'[at]) = at /\ chunks'[at] <= first
    BY DEF HeldInItsSlot, Slot
  <2>4. ~ NextIsHeld(last', last' + 1, chunks')
    BY <1>1, <1>3
  <2>5. last' + 1 \notin {chunks'[at] : at \in Slots} \ {Empty}
    BY <1>1, <2>2, <2>3, <2>4, CsnAssumption, NotNextMeansNotHeld
  <2>6. awaiting' \notin Held'
    BY <1>1, <2>5 DEF Held
  <2> QED
    BY <2>1, <2>6 DEF AwaitedNeverHeld, BranchesMatch
<1> QED
  BY <1>2, <1>3

LEMMA EvictKeepsIInv ==
  ASSUME IInv, Evict
  PROVE  IInv'
<1> DEFINE old == chunks[Slot(chunk)]
<1>1. TypeOK
  BY DEF IInv
<1>2. /\ chunk # Empty /\ chunk <= first /\ old # Empty
      /\ pc = "evict"
  BY DEF Evict, IInv, BranchesMatch
<1>3. chunk \in Csn \ {0} /\ chunk \in Nat /\ Slot(chunk) \in Slots
  BY <1>1, <1>2, SlotType, CsnAssumption DEF TypeOK, Empty
<1>4. old \in Csn \ {0} /\ old \in Nat
  BY <1>1, <1>2, <1>3, HeldIsNat DEF TypeOK, Empty
<1>5. Slot(old) = Slot(chunk) /\ old <= first
  BY <1>2, <1>3 DEF IInv, HeldInItsSlot
<1>6. /\ delivered' = Append(delivered, old)
      /\ last' = old /\ awaiting' = old + 1
      /\ chunks' = [chunks EXCEPT ![Slot(chunk)] = chunk]
      /\ pc' = Continue(last', awaiting', chunks')
      /\ UNCHANGED <<first, chunk, dispatchQueue, consumed, offered, accepted>>
  BY DEF Evict, Send
<1>7. pc' \in {"drain", "select"}
  BY <1>6 DEF Continue
<1>8. TypeOK'
  BY <1>1, <1>3, <1>4, <1>6, <1>7, SMTT(30) DEF TypeOK, Pcs
<1>9. CursorsAgree'
  BY <1>5, <1>6 DEF CursorsAgree
<1>10. \A at \in Slots :
         chunks'[at] = IF at = Slot(chunk) THEN chunk ELSE chunks[at]
  BY <1>1, <1>3, <1>6 DEF TypeOK
<1>11. HeldInItsSlot'
  BY <1>2, <1>6, <1>10 DEF IInv, HeldInItsSlot
<1>12. AwaitedNeverHeld' /\ BranchesMatch'
  BY <1>6, <1>8, <1>9, <1>11, AfterSend
<1>13. SentOut' = SentOut \cup {old}
  BY <1>1, <1>4, <1>6, SentOutAppend DEF TypeOK
<1>14. Held \subseteq Held' \cup {old} /\ chunk \in Held'
  BY <1>2, <1>3, <1>10 DEF Held
<1>15. NothingDiscarded'
  BY <1>2, <1>6, <1>13, <1>14 DEF IInv, NothingDiscarded, InHand
<1> QED
  BY <1>8, <1>9, <1>11, <1>12, <1>15 DEF IInv

LEMMA DeliverKeepsIInv ==
  ASSUME IInv, Deliver
  PROVE  IInv'
<1>1. TypeOK
  BY DEF IInv
<1>2. /\ chunk # Empty /\ chunk <= first /\ chunk = awaiting
      /\ pc = "deliver"
  BY DEF Deliver, IInv, BranchesMatch
<1>3. chunk \in Csn \ {0} /\ chunk \in Nat
  BY <1>1, <1>2, CsnAssumption DEF TypeOK, Empty
<1>4. /\ delivered' = Append(delivered, chunk)
      /\ last' = chunk /\ awaiting' = awaiting + 1 /\ chunks' = chunks
      /\ pc' = Continue(last', awaiting', chunks')
      /\ UNCHANGED <<first, chunk, dispatchQueue, consumed, offered, accepted>>
  BY DEF Deliver, Send
<1>5. pc' \in {"drain", "select"}
  BY <1>4 DEF Continue
<1>6. TypeOK'
  BY <1>1, <1>3, <1>4, <1>5 DEF TypeOK, Pcs
<1>7. CursorsAgree'
  BY <1>2, <1>4 DEF CursorsAgree
<1>8. HeldInItsSlot'
  BY <1>4 DEF IInv, HeldInItsSlot
<1>9. AwaitedNeverHeld' /\ BranchesMatch'
  BY <1>4, <1>6, <1>7, <1>8, AfterSend
<1>10. SentOut' = SentOut \cup {chunk}
  BY <1>1, <1>3, <1>4, SentOutAppend DEF TypeOK
<1>11. NothingDiscarded'
  BY <1>2, <1>4, <1>10 DEF IInv, NothingDiscarded, InHand, Held
<1> QED
  BY <1>6, <1>7, <1>8, <1>9, <1>11 DEF IInv

LEMMA DrainKeepsIInv ==
  ASSUME IInv, Drain
  PROVE  IInv'
<1> DEFINE next == chunks[Slot(last + 1)]
<1>1. TypeOK /\ CursorsAgree
  BY DEF IInv
<1>2. next = awaiting /\ last < first /\ pc = "drain"
  BY DEF Drain, IInv, BranchesMatch
<1>3. awaiting = last + 1 /\ last \in Nat /\ first \in Nat
  BY <1>1 DEF TypeOK, CursorsAgree
<1>4. Slot(last + 1) \in Slots
  BY <1>3, SlotType
<1>5. next \in Csn \ {0}
  BY <1>1, <1>2, <1>3, <1>4 DEF TypeOK, Empty
<1>6. /\ delivered' = Append(delivered, next)
      /\ last' = next /\ awaiting' = awaiting + 1
      /\ chunks' = [chunks EXCEPT ![Slot(last + 1)] = Empty]
      /\ pc' = Continue(last', awaiting', chunks')
      /\ UNCHANGED <<first, chunk, dispatchQueue, consumed, offered, accepted>>
  BY DEF Drain, Send
<1>7. pc' \in {"drain", "select"}
  BY <1>6 DEF Continue
<1>8. \A at \in Slots :
        chunks'[at] = IF at = Slot(last + 1) THEN Empty ELSE chunks[at]
  BY <1>1, <1>4, <1>6 DEF TypeOK
<1>9. TypeOK'
  BY <1>1, <1>2, <1>3, <1>4, <1>5, <1>6, <1>7 DEF TypeOK, Pcs
<1>10. CursorsAgree'
  BY <1>2, <1>3, <1>6 DEF CursorsAgree
<1>11. HeldInItsSlot'
  BY <1>6, <1>8 DEF IInv, HeldInItsSlot
<1>12. AwaitedNeverHeld' /\ BranchesMatch'
  BY <1>6, <1>9, <1>10, <1>11, AfterSend
<1>13. SentOut' = SentOut \cup {next}
  BY <1>1, <1>5, <1>6, SentOutAppend DEF TypeOK
<1>14. Held \subseteq Held' \cup {next}
  BY <1>8 DEF Held
<1>15. NothingDiscarded'
  BY <1>2, <1>6, <1>13, <1>14 DEF IInv, NothingDiscarded, InHand
<1> QED
  BY <1>9, <1>10, <1>11, <1>12, <1>15 DEF IInv

-----------------------------------------------------------------------------
LEMMA DispatchKeepsIInv ==
  ASSUME IInv, Dispatch
  PROVE  IInv'
BY DropDetachedKeepsIInv, HoldKeepsIInv, CollideOrMatchKeepsIInv,
   EvictKeepsIInv, DeliverKeepsIInv, DrainKeepsIInv DEF Dispatch

LEMMA NextKeepsIInv ==
  ASSUME IInv, [Next]_vars
  PROVE  IInv'
BY OfferKeepsIInv, ConsumeKeepsIInv, DispatchKeepsIInv, StopKeepsIInv,
   StutterKeepsIInv DEF Next

(* The inductive invariant holds whatever the restorer sends, in whatever  *)
(* order and how often.                                                    *)
THEOREM Invariance == Spec => []IInv
<1>1. Init => IInv
  BY InitIInv
<1>2. IInv /\ [Next]_vars => IInv'
  BY NextKeepsIInv
<1> QED
  BY <1>1, <1>2, PTL DEF Spec

(* No nil slot is dereferenced, and nothing but chunks that came in is     *)
(* held or sent (lines 129-133, 169-172).                                  *)
THEOREM TypeCorrect == Spec => []TypeOK
<1>1. IInv => TypeOK
  BY DEF IInv
<1> QED
  BY <1>1, Invariance, PTL

(* first - last never wraps (line 149), and awaiting is last + 1.          *)
THEOREM CursorsAlwaysAgree == Spec => []CursorsAgree
<1>1. IInv => CursorsAgree
  BY DEF IInv
<1> QED
  BY <1>1, Invariance, PTL

(* The dispatcher never waits for a chunk it already holds (lines 149-164). *)
THEOREM NoNeedlessWait == Spec => []AwaitedNeverHeld
<1>1. IInv => AwaitedNeverHeld
  BY DEF IInv
<1> QED
  BY <1>1, Invariance, PTL

(* An accepted chunk is delivered, held or in hand (lines 119-174).        *)
THEOREM NoAcceptedChunkLost == Spec => []NothingDiscarded
<1>1. IInv => NothingDiscarded
  BY DEF IInv
<1> QED
  BY <1>1, Invariance, PTL

-----------------------------------------------------------------------------
(* A chunk that is offered once is delivered at most once: it moves from   *)
(* the queue through the hand or a slot to the client and is never left    *)
(* behind in one of them.                                                  *)

LEMMA QueueReceives ==
  ASSUME IInv, NEW c \in Csn, Receive(c)
  PROVE  /\ c \in Queued /\ Queued' \subseteq Queued
         /\ (\A i, j \in 1 .. Len(dispatchQueue) :
               dispatchQueue[i] = dispatchQueue[j] => i = j)
            => /\ c \notin Queued'
               /\ \A i, j \in 1 .. Len(dispatchQueue') :
                    dispatchQueue'[i] = dispatchQueue'[j] => i = j
<1>1. dispatchQueue \in Seq(Csn) /\ dispatchQueue # << >>
  BY DEF Receive, IInv, TypeOK
<1>2. Len(dispatchQueue) \in Nat /\ Len(dispatchQueue) >= 1
  BY <1>1, EmptySeq
<1>3. c = dispatchQueue[1] /\ dispatchQueue' = Tail(dispatchQueue)
  BY <1>1 DEF Receive
<1>4. /\ Len(dispatchQueue') = Len(dispatchQueue) - 1
      /\ \A i \in 1 .. Len(dispatchQueue') :
           i + 1 \in 1 .. Len(dispatchQueue)
             /\ dispatchQueue'[i] = dispatchQueue[i + 1]
  BY <1>1, <1>2, <1>3
<1>5. c \in Queued
  BY <1>2, <1>3 DEF Queued
<1>6. Queued' \subseteq Queued
  BY <1>4 DEF Queued
<1>7. ASSUME \A i, j \in 1 .. Len(dispatchQueue) :
               dispatchQueue[i] = dispatchQueue[j] => i = j
      PROVE  /\ c \notin Queued'
             /\ \A i, j \in 1 .. Len(dispatchQueue') :
                  dispatchQueue'[i] = dispatchQueue'[j] => i = j
  <2>1. 1 \in 1 .. Len(dispatchQueue)
    BY <1>2
  <2>2. \A i \in 1 .. Len(dispatchQueue') : dispatchQueue'[i] # c
    <3> SUFFICES ASSUME NEW i \in 1 .. Len(dispatchQueue')
                 PROVE  dispatchQueue'[i] # c
      OBVIOUS
    <3>1. i + 1 \in 1 .. Len(dispatchQueue) /\ i + 1 # 1
          /\ dispatchQueue'[i] = dispatchQueue[i + 1]
      BY <1>4
    <3> QED
      BY <1>3, <1>7, <2>1, <3>1
  <2>3. \A i, j \in 1 .. Len(dispatchQueue') :
          dispatchQueue'[i] = dispatchQueue'[j] => i = j
    BY <1>4, <1>7
  <2> QED
    BY <2>2, <2>3 DEF Queued
<1> QED
  BY <1>5, <1>6, <1>7

(* A chunk comes from the queue: it is dropped, held or taken in hand.     *)
LEMMA AcceptKeepsOnce ==
  ASSUME OnceInv, IInv', NEW c \in Csn,
         DropDetached(c) \/ Hold(c) \/ Collide(c) \/ Match(c)
  PROVE  OnceInv'
<1>1. IInv /\ Receive(c) /\ OnlyOffered /\ OnlyAccepted
  BY DEF OnceInv, DropDetached, Hold, Collide, Match, Accept
<1>2. TypeOK /\ pc = "select"
      /\ UNCHANGED <<delivered, consumed, offered>> /\ SentOut' = SentOut
  BY <1>1 DEF Receive, IInv, SentOut
<1>3. InHand = {}
  BY <1>2 DEF InHand
<1>4. c \in Queued /\ Queued' \subseteq Queued
  BY <1>1, QueueReceives
<1>5. \/ /\ accepted' = accepted \cup {c} /\ Held' = Held \cup {c}
         /\ InHand' = {}
      \/ /\ accepted' = accepted \cup {c} /\ Held' = Held
         /\ InHand' = {c}
      \/ accepted' = accepted /\ Held' = Held /\ InHand' = {}
  <2>1. CASE DropDetached(c)
    BY <1>3, <2>1 DEF DropDetached, state, Held, InHand
  <2>2. CASE Hold(c)
    <3>1. /\ c # Empty /\ Slot(c) \in Slots /\ chunks[Slot(c)] = Empty
          /\ chunks' = [chunks EXCEPT ![Slot(c)] = c] /\ pc' = "select"
          /\ accepted' = accepted \cup {c}
      BY <1>1, <2>2, AcceptFacts, SlotType DEF Hold, Accept, Empty
    <3>2. \A at \in Slots : chunks'[at] = IF at = Slot(c) THEN c ELSE chunks[at]
      BY <1>2, <3>1 DEF TypeOK
    <3>3. Held' = Held \cup {c}
      BY <3>1, <3>2 DEF Held
    <3> QED
      BY <3>1, <3>3 DEF InHand
  <2>3. CASE Collide(c) \/ Match(c)
    BY <2>3 DEF Collide, Match, Accept, Held, InHand
  <2> QED
    BY <2>1, <2>2, <2>3
<1>6. OnlyOffered' /\ OnlyAccepted'
  BY <1>1, <1>2, <1>3, <1>4, <1>5 DEF OnlyOffered, OnlyAccepted
<1>7. ASSUME OfferedOnce' PROVE EachOnce'
  <2>1. EachOnce
    BY <1>2, <1>7 DEF OnceInv, OfferedOnce
  <2>2. /\ c \notin Queued'
        /\ \A i, j \in 1 .. Len(dispatchQueue') :
             dispatchQueue'[i] = dispatchQueue'[j] => i = j
    BY <1>1, <2>1, QueueReceives DEF EachOnce
  <2>3. c \notin accepted /\ c \notin Held /\ c \notin SentOut
    BY <1>1, <1>4, <2>1 DEF EachOnce, OnlyAccepted
  <2>4. Queued' \cap accepted' = {}
    BY <1>4, <1>5, <2>1, <2>2 DEF EachOnce
  <2>5. SentOut' \cap (Held' \cup InHand') = {} /\ Held' \cap InHand' = {}
    BY <1>2, <1>3, <1>5, <2>1, <2>3 DEF EachOnce
  <2>6. \A i, j \in 1 .. Len(delivered') : delivered'[i] = delivered'[j] => i = j
    BY <1>2, <2>1 DEF EachOnce
  <2> QED
    BY <2>2, <2>4, <2>5, <2>6 DEF EachOnce
<1> QED
  BY <1>6, <1>7 DEF OnceInv

(* A chunk that was held or in hand is sent, and leaves where it was. *)
LEMMA SendKeepsOnce ==
  ASSUME OnceInv, IInv', NEW c \in Csn, c \in Held \cup InHand,
         delivered' = Append(delivered, c),
         UNCHANGED <<dispatchQueue, offered, accepted>>,
         Held' \subseteq Held \cup InHand, InHand' = {},
         EachOnce => c \notin Held'
  PROVE  OnceInv'
<1>1. TypeOK /\ OnlyOffered /\ OnlyAccepted
  BY DEF OnceInv, IInv
<1>2. delivered \in Seq(Csn)
  BY <1>1 DEF TypeOK
<1>3. SentOut' = SentOut \cup {c}
  BY <1>2, SentOutAppend
<1>4. Queued' = Queued
  BY DEF Queued
<1>5. OnlyOffered' /\ OnlyAccepted'
  BY <1>1, <1>3, <1>4 DEF OnlyOffered, OnlyAccepted
<1>6. ASSUME OfferedOnce' PROVE EachOnce'
  <2>1. EachOnce
    BY <1>6 DEF OnceInv, OfferedOnce
  <2>2. c \notin SentOut /\ c \notin Held'
    BY <2>1 DEF EachOnce
  <2>3. SentOut' \cap (Held' \cup InHand') = {} /\ Held' \cap InHand' = {}
    BY <1>3, <2>1, <2>2 DEF EachOnce
  <2>4. /\ Len(delivered) \in Nat /\ Len(delivered') = Len(delivered) + 1
        /\ \A i \in 1 .. Len(delivered) : delivered'[i] = delivered[i]
        /\ delivered'[Len(delivered) + 1] = c
    BY <1>2
  <2>5. \A i \in 1 .. Len(delivered) : delivered[i] # c
    BY <2>2 DEF SentOut
  <2>6. \A i, j \in 1 .. Len(delivered') : delivered'[i] = delivered'[j] => i = j
    BY <2>1, <2>4, <2>5 DEF EachOnce
  <2> QED
    BY <1>4, <2>1, <2>3, <2>6 DEF EachOnce
<1> QED
  BY <1>5, <1>6 DEF OnceInv

LEMMA DispatchKeepsOnce ==
  ASSUME OnceInv, IInv', Dispatch
  PROVE  OnceInv'
<1>1. IInv /\ TypeOK
  BY DEF OnceInv, IInv
<1>2. CASE Evict
  <2> DEFINE old == chunks[Slot(chunk)]
  <2>1. /\ chunk # Empty /\ old # Empty /\ pc = "evict"
    BY <1>1, <1>2 DEF Evict, IInv, BranchesMatch
  <2>2. chunk \in Nat /\ Slot(chunk) \in Slots
    BY <1>1, <2>1, SlotType, CsnAssumption DEF TypeOK, Empty
  <2>3. old \in Csn /\ old \in Held /\ InHand = {chunk}
    BY <1>1, <2>1, <2>2 DEF TypeOK, Held, InHand, Empty
  <2>4. /\ delivered' = Append(delivered, old)
        /\ chunks' = [chunks EXCEPT ![Slot(chunk)] = chunk]
        /\ pc' \in {"drain", "select"}
        /\ UNCHANGED <<dispatchQueue, offered, accepted>>
    BY <1>2 DEF Evict, Send, Continue
  <2>5. \A at \in Slots :
          chunks'[at] = IF at = Slot(chunk) THEN chunk ELSE chunks[at]
    BY <1>1, <2>2, <2>4 DEF TypeOK
  <2>6. Held' \subseteq Held \cup InHand /\ InHand' = {}
    BY <2>3, <2>4, <2>5 DEF Held, InHand
  <2>7. EachOnce => old \notin Held'
    <3> SUFFICES ASSUME EachOnce, NEW at \in Slots, chunks'[at] = old
                 PROVE  FALSE
      BY DEF Held
    <3>1. old # chunk
      BY <2>3 DEF EachOnce
    <3>2. at # Slot(chunk) /\ chunks[at] = old
      BY <2>5, <3>1
    <3>3. Slot(old) = at /\ Slot(old) = Slot(chunk)
      BY <1>1, <2>1, <2>2, <3>2 DEF IInv, HeldInItsSlot
    <3> QED
      BY <3>2, <3>3
  <2> QED
    BY <2>3, <2>4, <2>6, <2>7, SendKeepsOnce
<1>3. CASE Deliver
  <2>1. chunk # Empty /\ pc = "deliver"
    BY <1>1, <1>3 DEF Deliver, IInv, BranchesMatch
  <2>2. chunk \in Csn /\ InHand = {chunk}
    BY <1>1, <2>1 DEF TypeOK, InHand
  <2>3. /\ delivered' = Append(delivered, chunk) /\ chunks' = chunks
        /\ pc' \in {"drain", "select"}
        /\ UNCHANGED <<dispatchQueue, offered, accepted>>
    BY <1>3 DEF Deliver, Send, Continue
  <2>4. Held' = Held /\ InHand' = {}
    BY <2>3 DEF Held, InHand
  <2>5. EachOnce => chunk \notin Held'
    BY <2>2, <2>4 DEF EachOnce
  <2> QED
    BY <2>2, <2>3, <2>4, <2>5, SendKeepsOnce
<1>4. CASE Drain
  <2> DEFINE next == chunks[Slot(last + 1)]
  <2>1. /\ next = awaiting /\ pc = "drain" /\ awaiting = last + 1
        /\ last \in Nat
    BY <1>1, <1>4 DEF Drain, IInv, BranchesMatch, CursorsAgree, TypeOK
  <2>2. Slot(last + 1) \in Slots
    BY <2>1, SlotType
  <2>3. next \in Csn /\ next \in Held /\ next # Empty
    BY <1>1, <2>1, <2>2 DEF TypeOK, Held, Empty
  <2>4. /\ delivered' = Append(delivered, next)
        /\ chunks' = [chunks EXCEPT ![Slot(last + 1)] = Empty]
        /\ pc' \in {"drain", "select"}
        /\ UNCHANGED <<dispatchQueue, offered, accepted>>
    BY <1>4 DEF Drain, Send, Continue
  <2>5. \A at \in Slots :
          chunks'[at] = IF at = Slot(last + 1) THEN Empty ELSE chunks[at]
    BY <1>1, <2>2, <2>4 DEF TypeOK
  <2>6. Held' \subseteq Held /\ InHand' = {}
    BY <2>4, <2>5 DEF Held, InHand
  <2>7. next \notin Held'
    <3> SUFFICES ASSUME NEW at \in Slots, chunks'[at] = next PROVE FALSE
      BY DEF Held
    <3>1. at # Slot(last + 1) /\ chunks[at] = next
      BY <2>3, <2>5
    <3>2. Slot(next) = at /\ Slot(next) = Slot(last + 1)
      BY <1>1, <2>2, <2>3, <3>1 DEF IInv, HeldInItsSlot
    <3> QED
      BY <3>1, <3>2
  <2> QED
    BY <2>3, <2>4, <2>6, <2>7, SendKeepsOnce
<1> QED
  BY <1>2, <1>3, <1>4, AcceptKeepsOnce DEF Dispatch

LEMMA OfferKeepsOnce ==
  ASSUME OnceInv, IInv', NEW c \in Csn, Offer(c)
  PROVE  OnceInv'
<1>1. TypeOK /\ OnlyOffered /\ OnlyAccepted
  BY DEF OnceInv, IInv
<1>2. /\ dispatchQueue \in Seq(Csn) /\ dispatchQueue' = Append(dispatchQueue, c)
      /\ offered \in [Csn -> Nat]
      /\ offered' = [offered EXCEPT ![c] = offered[c] + 1]
      /\ UNCHANGED <<state, pc, delivered, consumed, accepted>>
  BY <1>1 DEF Offer, TypeOK
<1>3. Held' = Held /\ InHand' = InHand /\ SentOut' = SentOut
  BY <1>2 DEF state, Held, InHand, SentOut
<1>4. /\ Len(dispatchQueue) \in Nat
      /\ Len(dispatchQueue') = Len(dispatchQueue) + 1
      /\ \A i \in 1 .. Len(dispatchQueue) : dispatchQueue'[i] = dispatchQueue[i]
      /\ dispatchQueue'[Len(dispatchQueue) + 1] = c
  BY <1>2
<1>5. Queued' \subseteq Queued \cup {c} /\ Queued \subseteq Csn
  <2> SUFFICES ASSUME NEW i \in 1 .. Len(dispatchQueue')
               PROVE  dispatchQueue'[i] \in Queued \cup {c}
    BY <1>2 DEF Queued
  <2>1. i \in 1 .. Len(dispatchQueue) \/ i = Len(dispatchQueue) + 1
    BY <1>4
  <2> QED
    BY <1>4, <2>1 DEF Queued
<1>6. \A d \in Csn : offered'[d] >= offered[d] /\ offered'[c] > 0
  BY <1>2
<1>7. accepted \subseteq Csn
  BY <1>1 DEF TypeOK
<1>8. OnlyOffered' /\ OnlyAccepted'
  <2>1. \A d \in Queued' \cup accepted' : offered'[d] > 0
    <3> SUFFICES ASSUME NEW d \in Queued \cup accepted PROVE offered'[d] > 0
      BY <1>2, <1>5, <1>6
    <3>1. offered[d] > 0 /\ d \in Csn
      BY <1>1, <1>5, <1>7 DEF OnlyOffered
    <3>2. offered[d] \in Nat /\ offered'[d] \in Nat
      BY <1>2, <3>1
    <3> QED
      BY <1>6, <3>1, <3>2
  <2> QED
    BY <1>1, <1>2, <1>3, <2>1 DEF OnlyOffered, OnlyAccepted
<1>9. ASSUME OfferedOnce' PROVE EachOnce'
  <2>1. offered'[c] <= 1
    BY <1>9 DEF OfferedOnce
  <2>2. offered[c] = 0
    BY <1>2, <2>1
  <2>3. OfferedOnce
    <3> SUFFICES ASSUME NEW d \in Csn PROVE offered[d] <= 1
      BY DEF OfferedOnce
    <3>1. offered'[d] <= 1 /\ offered[d] \in Nat /\ offered'[d] \in Nat
      BY <1>2, <1>9 DEF OfferedOnce
    <3> QED
      BY <1>6, <3>1
  <2>4. EachOnce
    BY <2>3 DEF OnceInv
  <2>5. c \notin Queued /\ c \notin accepted
    BY <1>1, <2>2 DEF OnlyOffered
  <2>6. \A i \in 1 .. Len(dispatchQueue) : dispatchQueue[i] # c
    BY <2>5 DEF Queued
  <2>7. \A i, j \in 1 .. Len(dispatchQueue') :
          dispatchQueue'[i] = dispatchQueue'[j] => i = j
    BY <1>4, <2>4, <2>6 DEF EachOnce
  <2>8. Queued' \cap accepted' = {}
    BY <1>2, <1>5, <2>4, <2>5 DEF EachOnce
  <2> QED
    BY <1>2, <1>3, <2>4, <2>7, <2>8 DEF EachOnce
<1> QED
  BY <1>8, <1>9 DEF OnceInv

LEMMA NextKeepsOnce ==
  ASSUME OnceInv, [Next]_vars
  PROVE  OnceInv'
<1>1. IInv'
  BY NextKeepsIInv DEF OnceInv
<1>2. CASE Consume \/ Stop \/ UNCHANGED vars
  <2>1. /\ UNCHANGED <<chunks, dispatchQueue, delivered, offered, accepted>>
        /\ InHand' = InHand \/ InHand' = {}
    BY <1>2 DEF Consume, Stop, vars, state, InHand
  <2>2. Held' = Held /\ SentOut' = SentOut /\ Queued' = Queued
    BY <2>1 DEF Held, SentOut, Queued
  <2>3. OnlyOffered' /\ OnlyAccepted'
    BY <2>1, <2>2 DEF OnceInv, OnlyOffered, OnlyAccepted
  <2>4. OfferedOnce' => EachOnce'
    BY <2>1, <2>2 DEF OnceInv, OfferedOnce, EachOnce
  <2> QED
    BY <1>1, <2>3, <2>4 DEF OnceInv
<1> QED
  BY <1>1, <1>2, DispatchKeepsOnce, OfferKeepsOnce DEF Next

LEMMA InitOnce == Init => OnceInv
<1> SUFFICES ASSUME Init PROVE OnceInv
  OBVIOUS
<1>1. Held = {} /\ InHand = {} /\ SentOut = {} /\ Queued = {}
  BY DEF Init, Held, InHand, SentOut, Queued
<1>2. OnlyOffered /\ OnlyAccepted
  BY <1>1 DEF Init, OnlyOffered, OnlyAccepted
<1>3. EachOnce
  BY <1>1 DEF Init, EachOnce
<1> QED
  BY <1>2, <1>3, InitIInv DEF OnceInv

(* Whatever the restorer sends, only what it sent is held or delivered,    *)
(* and what it sends once is delivered at most once (decoder.go:119-174).  *)
THEOREM DeliversOnce == Spec => []OnceInv
<1>1. OnceInv /\ [Next]_vars => OnceInv'
  BY NextKeepsOnce
<1> QED
  BY <1>1, InitOnce, PTL DEF Spec

-----------------------------------------------------------------------------
(* The window. *)

(* No chunk is ever found in the slot of another: the branch of line 123   *)
(* that gives up on the awaited chunk is taken for real losses only.       *)
NoCollision == pc # "evict"

(* What makes the stream gapless, as an inductive invariant: whatever is   *)
(* queued or held is one of the Size chunks after the last delivered one,  *)
(* and every chunk is in one place only.                                   *)
InReach(c) == last < c /\ c <= last + Size /\ offered[c] > 0

StreamAtLast  == last = Stream!Newest
SentUpToLast  == \A c \in Csn \ {0} : c <= last => offered[c] > 0
HeldInReach   == \A c \in Held : InReach(c)
InHandInReach == pc = "deliver" => InReach(chunk) /\ chunk \notin Held
QueuedInReach ==
  \A i \in 1 .. Len(dispatchQueue) :
    /\ InReach(dispatchQueue[i])
    /\ dispatchQueue[i] \notin Held \cup InHand
QueuedOnce ==
  \A i, j \in 1 .. Len(dispatchQueue) :
    dispatchQueue[i] = dispatchQueue[j] => i = j

WindowInv ==
  /\ IInv
  /\ NoCollision
  /\ StreamAtLast
  /\ SentUpToLast
  /\ HeldInReach
  /\ InHandInReach
  /\ QueuedInReach
  /\ QueuedOnce

(* Two chunks within reach never share a slot. *)
LEMMA OneChunkPerSlot ==
  ASSUME TypeOK, NEW c \in Nat, NEW d \in Nat, InReach(c), InReach(d),
         Slot(c) = Slot(d)
  PROVE  c = d
<1>1. last \in Nat /\ Size \in Nat \ {0}
  BY SizeAssumption DEF TypeOK
<1>2. c - d < Size /\ d - c < Size
  BY <1>1 DEF InReach
<1> QED
  BY <1>1, <1>2, RemainderTellsApart DEF Slot

(* What is sent becomes the newest element of the stream. *)
LEMMA NewestAppend ==
  ASSUME NEW S, delivered \in Seq(S), NEW c \in S,
         delivered' = Append(delivered, c)
  PROVE  (Stream!Newest)' = c
<1>1. delivered' # << >> /\ delivered'[Len(delivered')] = c
  OBVIOUS
<1> QED
  BY <1>1 DEF Stream!Newest

LEMMA InitWindowInv == Init => WindowInv /\ Stream!Init
<1> SUFFICES ASSUME Init PROVE WindowInv /\ Stream!Init
  OBVIOUS
<1>1. IInv
  BY InitIInv
<1>2. Held = {} /\ HeldInReach
  BY DEF Init, Held, HeldInReach
<1>3. Len(dispatchQueue) = 0
  BY DEF Init
<1>4. QueuedInReach /\ QueuedOnce
  BY <1>3 DEF QueuedInReach, QueuedOnce
<1>5. StreamAtLast /\ Stream!Init
  BY DEF Init, StreamAtLast, Stream!Newest, Stream!Init
<1>6. NoCollision /\ InHandInReach
  BY DEF Init, NoCollision, InHandInReach
<1>7. SentUpToLast
  BY CsnAssumption DEF Init, SentUpToLast
<1> QED
  BY <1>1, <1>2, <1>4, <1>5, <1>6, <1>7 DEF WindowInv

-----------------------------------------------------------------------------
(* Steps that touch nothing the window speaks of, but perhaps pc. *)
LEMMA QuietStep ==
  ASSUME WindowInv, IInv',
         UNCHANGED <<last, chunks, chunk, dispatchQueue, delivered, offered>>,
         pc' = pc \/ pc' = "stopped"
  PROVE  WindowInv'
<1>1. Held' = Held /\ InHand' \subseteq InHand
  BY DEF Held, InHand
<1>2. StreamAtLast' /\ SentUpToLast'
  BY DEF WindowInv, StreamAtLast, SentUpToLast, Stream!Newest
<1>3. HeldInReach' /\ InHandInReach' /\ NoCollision'
  BY <1>1 DEF WindowInv, HeldInReach, InHandInReach, InReach, NoCollision
<1>4. QueuedInReach' /\ QueuedOnce'
  BY <1>1 DEF WindowInv, QueuedInReach, QueuedOnce, InReach
<1> QED
  BY <1>2, <1>3, <1>4 DEF WindowInv

(* The chunk that is sent to the dispatcher is new: everything queued, held *)
(* or in hand was sent before.                                              *)
LEMMA OfferKeepsWindow ==
  ASSUME WindowInv, NEW c \in Csn, InWindow(c), Offer(c)
  PROVE  WindowInv'
<1>1. IInv /\ TypeOK
  BY DEF WindowInv, IInv
<1>2. IInv'
  BY <1>1, OfferKeepsIInv
<1>3. c \in Nat /\ c > 0 /\ c # 0
  BY CsnAssumption DEF InWindow
<1>4. /\ dispatchQueue' = Append(dispatchQueue, c)
      /\ offered[c] = 0 /\ c <= last + Size
      /\ UNCHANGED <<awaiting, first, last, chunks, chunk, pc, delivered>>
  BY DEF Offer, state, InWindow
<1>5. last < c
  BY <1>1, <1>3, <1>4 DEF WindowInv, SentUpToLast, TypeOK
<1>6. \A d \in Csn : offered'[d] = IF d = c THEN 1 ELSE offered[d]
  BY <1>1, <1>4 DEF Offer, TypeOK
<1>7. Held' = Held /\ InHand' = InHand
  BY <1>4 DEF Held, InHand
<1>8. c \notin Held /\ Held \subseteq Csn
  <2>1. Held \subseteq Csn
    BY <1>1 DEF Held, TypeOK
  <2>2. \A d \in Held : offered[d] > 0
    BY DEF WindowInv, HeldInReach, InReach
  <2> QED
    BY <2>1, <2>2, <1>4
<1>9. c \notin InHand
  BY <1>4 DEF WindowInv, InHandInReach, NoCollision, InHand, InReach
<1>10. \A d \in Csn : InReach(d) => InReach(d)'
  BY <1>4, <1>6 DEF InReach
<1>11. InReach(c)'
  BY <1>4, <1>5, <1>6 DEF InReach
<1>12. StreamAtLast' /\ NoCollision'
  BY <1>4 DEF WindowInv, StreamAtLast, Stream!Newest, NoCollision
<1>13. SentUpToLast'
  BY <1>4, <1>6 DEF WindowInv, SentUpToLast
<1>14. HeldInReach'
  BY <1>7, <1>8, <1>10 DEF WindowInv, HeldInReach
<1>15. InHandInReach'
  <2> SUFFICES ASSUME pc = "deliver" PROVE InReach(chunk)' /\ chunk \notin Held
    BY <1>4, <1>7 DEF InHandInReach
  <2>1. chunk \in Csn
    BY <1>1 DEF IInv, BranchesMatch, TypeOK, Empty
  <2> QED
    BY <2>1, <1>4, <1>6 DEF WindowInv, InHandInReach, InReach
<1>16. Len(dispatchQueue) \in Nat /\ Len(dispatchQueue') = Len(dispatchQueue) + 1
  BY <1>1, <1>4 DEF TypeOK
<1>17. \A i \in 1 .. Len(dispatchQueue) :
         dispatchQueue'[i] = dispatchQueue[i] /\ dispatchQueue[i] \in Csn
  BY <1>1, <1>4 DEF TypeOK
<1>18. dispatchQueue'[Len(dispatchQueue) + 1] = c
  BY <1>1, <1>4 DEF TypeOK
<1>19. \A i \in 1 .. Len(dispatchQueue) :
         dispatchQueue[i] # c /\ InReach(dispatchQueue[i])
  BY <1>4 DEF WindowInv, QueuedInReach, InReach
<1>20. QueuedInReach'
  <2> SUFFICES ASSUME NEW i \in 1 .. Len(dispatchQueue')
               PROVE  /\ InReach(dispatchQueue[i])'
                      /\ dispatchQueue'[i] \notin Held' \cup InHand'
    BY DEF QueuedInReach
  <2>1. CASE i = Len(dispatchQueue) + 1
    BY <2>1, <1>7, <1>8, <1>9, <1>11, <1>18 DEF InReach
  <2>2. CASE i \in 1 .. Len(dispatchQueue)
    BY <2>2, <1>7, <1>10, <1>17, <1>19 DEF WindowInv, QueuedInReach, InReach
  <2> QED
    BY <2>1, <2>2, <1>16
<1>21. QueuedOnce'
  <2> SUFFICES ASSUME NEW i \in 1 .. Len(dispatchQueue'),
                      NEW j \in 1 .. Len(dispatchQueue'),
                      dispatchQueue'[i] = dispatchQueue'[j]
               PROVE  i = j
    BY DEF QueuedOnce
  <2>1. CASE i \in 1 .. Len(dispatchQueue) /\ j \in 1 .. Len(dispatchQueue)
    BY <2>1, <1>17 DEF WindowInv, QueuedOnce
  <2> QED
    BY <2>1, <1>16, <1>17, <1>18, <1>19
<1> QED
  BY <1>2, <1>12, <1>13, <1>14, <1>15, <1>20, <1>21 DEF WindowInv

-----------------------------------------------------------------------------
(* Receiving. *)

(* The chunk at the head of the queue is within reach, and in no other     *)
(* place than the head of the queue.                                       *)
LEMMA HeadOfQueue ==
  ASSUME WindowInv, NEW c \in Csn, Receive(c)
  PROVE  /\ InReach(c) /\ c \notin Held
         /\ \A i \in 1 .. Len(dispatchQueue') :
              /\ i + 1 \in 1 .. Len(dispatchQueue)
              /\ dispatchQueue'[i] = dispatchQueue[i + 1]
              /\ dispatchQueue'[i] # c
         /\ QueuedOnce'
<1>1. /\ dispatchQueue # << >> /\ c = Head(dispatchQueue)
      /\ dispatchQueue' = Tail(dispatchQueue)
  BY DEF Receive
<1>2. dispatchQueue \in Seq(Csn)
  BY DEF WindowInv, IInv, TypeOK
<1>3. Len(dispatchQueue) \in Nat \ {0} /\ dispatchQueue[1] = c
  BY <1>1, <1>2
<1>4. InReach(c) /\ c \notin Held
  BY <1>3 DEF WindowInv, QueuedInReach
<1>5. \A i \in 1 .. Len(dispatchQueue') :
        /\ i + 1 \in 1 .. Len(dispatchQueue)
        /\ dispatchQueue'[i] = dispatchQueue[i + 1]
  BY <1>1, <1>2, <1>3
<1>6. \A i, j \in 1 .. Len(dispatchQueue) :
        dispatchQueue[i] = dispatchQueue[j] => i = j
  BY DEF WindowInv, QueuedOnce
<1>7. \A i \in 1 .. Len(dispatchQueue') : dispatchQueue'[i] # c
  BY <1>3, <1>5, <1>6
<1>8. QueuedOnce'
  BY <1>5, <1>6 DEF QueuedOnce
<1> QED
  BY <1>4, <1>5, <1>7, <1>8

(* Nothing within reach is detached: lines 107-117 drop no chunk. *)
LEMMA NothingDetached ==
  ASSUME WindowInv, NEW c \in Csn, DropDetached(c)
  PROVE  FALSE
<1>1. InReach(c) /\ c \in Nat
  BY HeadOfQueue, CsnAssumption DEF DropDetached
<1>2. last \in Nat
  BY DEF WindowInv, IInv, TypeOK
<1> QED
  BY <1>1, <1>2 DEF DropDetached, Detached, InReach

(* Nothing within reach finds its slot taken. *)
LEMMA NothingCollides ==
  ASSUME WindowInv, NEW c \in Csn, Collide(c)
  PROVE  FALSE
<1>1. TypeOK /\ c \in Nat
  BY CsnAssumption DEF WindowInv, IInv
<1>2. Receive(c) /\ chunks[Slot(c)] # Empty
  BY DEF Collide, Accept
<1>3. InReach(c) /\ c \notin Held
  BY <1>2, HeadOfQueue
<1> DEFINE d == chunks[Slot(c)]
<1>4. Slot(c) \in Slots
  BY <1>1, SlotType
<1>5. d \in Held /\ d \in Nat
  BY <1>1, <1>2, <1>4, HeldIsNat DEF Held
<1>6. InReach(d)
  BY <1>5 DEF WindowInv, HeldInReach
<1>7. Slot(d) = Slot(c)
  BY <1>2, <1>4 DEF WindowInv, IInv, HeldInItsSlot
<1>8. d = c
  BY <1>1, <1>3, <1>5, <1>6, <1>7, OneChunkPerSlot
<1> QED
  BY <1>3, <1>5, <1>8

LEMMA HoldKeepsWindow ==
  ASSUME WindowInv, NEW c \in Csn, Hold(c)
  PROVE  WindowInv'
<1>1. IInv /\ TypeOK /\ IInv'
  BY HoldKeepsIInv DEF WindowInv, IInv
<1>2. Receive(c)
  BY DEF Hold, Accept
<1>3. /\ InReach(c) /\ c \notin Held
      /\ \A i \in 1 .. Len(dispatchQueue') :
           /\ i + 1 \in 1 .. Len(dispatchQueue)
           /\ dispatchQueue'[i] = dispatchQueue[i + 1]
           /\ dispatchQueue'[i] # c
      /\ QueuedOnce'
  BY <1>2, HeadOfQueue
<1>4. /\ pc' = "select"
      /\ chunks' = [chunks EXCEPT ![Slot(c)] = c]
      /\ UNCHANGED <<awaiting, last, delivered, consumed, offered>>
  BY DEF Hold, Accept, Receive
<1>5. Held' \subseteq Held \cup {c} /\ InHand' = {}
  BY <1>1, <1>4 DEF Held, InHand, TypeOK
<1>6. StreamAtLast' /\ SentUpToLast' /\ NoCollision' /\ InHandInReach'
  BY <1>4 DEF WindowInv, StreamAtLast, SentUpToLast, NoCollision,
              InHandInReach, Stream!Newest
<1>7. HeldInReach'
  BY <1>3, <1>4, <1>5 DEF WindowInv, HeldInReach, InReach
<1>8. QueuedInReach'
  BY <1>3, <1>4, <1>5 DEF WindowInv, QueuedInReach, InReach
<1> QED
  BY <1>1, <1>3, <1>6, <1>7, <1>8 DEF WindowInv

LEMMA MatchKeepsWindow ==
  ASSUME WindowInv, NEW c \in Csn, Match(c)
  PROVE  WindowInv'
<1>1. IInv /\ TypeOK /\ IInv'
  BY CollideOrMatchKeepsIInv DEF WindowInv, IInv
<1>2. Receive(c)
  BY DEF Match, Accept
<1>3. /\ InReach(c) /\ c \notin Held
      /\ \A i \in 1 .. Len(dispatchQueue') :
           /\ i + 1 \in 1 .. Len(dispatchQueue)
           /\ dispatchQueue'[i] = dispatchQueue[i + 1]
           /\ dispatchQueue'[i] # c
      /\ QueuedOnce'
  BY <1>2, HeadOfQueue
<1>4. /\ pc' = "deliver" /\ chunk' = c
      /\ UNCHANGED <<awaiting, last, chunks, delivered, consumed, offered>>
  BY DEF Match, Accept, Receive
<1>5. Held' = Held /\ InHand' = {c}
  BY <1>4 DEF Held, InHand
<1>6. StreamAtLast' /\ SentUpToLast' /\ NoCollision'
  BY <1>4 DEF WindowInv, StreamAtLast, SentUpToLast, NoCollision, Stream!Newest
<1>7. HeldInReach' /\ InHandInReach'
  BY <1>3, <1>4, <1>5 DEF WindowInv, HeldInReach, InHandInReach, InReach
<1>8. QueuedInReach'
  BY <1>3, <1>4, <1>5 DEF WindowInv, QueuedInReach, InReach
<1> QED
  BY <1>1, <1>3, <1>6, <1>7, <1>8 DEF WindowInv

-----------------------------------------------------------------------------
(* Sending: the chunk sent is last + 1, and it was in one place only. *)

(* What a send of chunk last + 1 preserves once that chunk is gone. *)
LEMMA SendSuccessor ==
  ASSUME WindowInv, IInv', last + 1 \in Csn, offered[last + 1] > 0,
         delivered' = Append(delivered, last + 1), last' = last + 1,
         Held' \subseteq Held \ {last + 1},
         \A i \in 1 .. Len(dispatchQueue) : dispatchQueue[i] # last + 1,
         pc' \in {"drain", "select"}, UNCHANGED <<dispatchQueue, offered>>
  PROVE  WindowInv' /\ Stream!Successor
<1>1. IInv /\ TypeOK /\ last \in Nat
  BY DEF WindowInv, IInv, TypeOK
<1>2. Stream!Newest = last
  BY DEF WindowInv, StreamAtLast
<1>3. Stream!Successor
  BY <1>2 DEF Stream!Successor
<1>4. StreamAtLast'
  <2>1. delivered \in Seq(Csn \ {0}) /\ last + 1 \in Csn \ {0}
    BY <1>1 DEF TypeOK
  <2> QED
    BY <2>1, NewestAppend DEF StreamAtLast
<1>5. SentUpToLast'
  <2> SUFFICES ASSUME NEW c \in Csn \ {0}, c <= last + 1 PROVE offered[c] > 0
    BY DEF SentUpToLast
  <2>1. c \in Nat
    BY CsnAssumption
  <2>2. c <= last \/ c = last + 1
    BY <1>1, <2>1
  <2> QED
    BY <2>2 DEF WindowInv, SentUpToLast
<1>6. \A c \in Nat : InReach(c) /\ c # last + 1 => InReach(c)'
  BY <1>1, SizeAssumption DEF InReach
<1>7. Held \subseteq Nat
  BY <1>1, HeldIsNat DEF Held
<1>8. HeldInReach'
  BY <1>6, <1>7 DEF WindowInv, HeldInReach
<1>9. QueuedInReach'
  <2> SUFFICES ASSUME NEW i \in 1 .. Len(dispatchQueue)
               PROVE  /\ InReach(dispatchQueue[i])'
                      /\ dispatchQueue[i] \notin Held' \cup InHand'
    BY DEF QueuedInReach
  <2>1. dispatchQueue[i] \in Nat
    <3>1. dispatchQueue[i] \in Csn
      BY <1>1 DEF TypeOK
    <3> QED
      BY <3>1, CsnAssumption
  <2>2. InReach(dispatchQueue[i]) /\ dispatchQueue[i] \notin Held
    BY DEF WindowInv, QueuedInReach
  <2>3. InHand' = {}
    BY DEF InHand
  <2> QED
    BY <1>6, <2>1, <2>2, <2>3 DEF InReach
<1>10. QueuedOnce' /\ NoCollision' /\ InHandInReach'
  BY DEF WindowInv, QueuedOnce, NoCollision, InHandInReach
<1> QED
  BY <1>3, <1>4, <1>5, <1>8, <1>9, <1>10 DEF WindowInv

LEMMA DeliverKeepsWindow ==
  ASSUME WindowInv, Deliver
  PROVE  WindowInv' /\ Stream!Successor
<1>1. IInv /\ TypeOK /\ IInv' /\ pc = "deliver"
  BY DeliverKeepsIInv DEF WindowInv, IInv, Deliver
<1>2. chunk = last + 1 /\ chunk \in Csn
  BY <1>1 DEF IInv, BranchesMatch, CursorsAgree, TypeOK, Empty
<1>3. /\ delivered' = Append(delivered, last + 1) /\ last' = last + 1
      /\ chunks' = chunks /\ UNCHANGED <<dispatchQueue, offered>>
      /\ pc' \in {"drain", "select"}
  BY <1>2 DEF Deliver, Send, Continue
<1>4. offered[last + 1] > 0 /\ last + 1 \notin Held
  BY <1>1, <1>2 DEF WindowInv, InHandInReach, InReach
<1>5. \A i \in 1 .. Len(dispatchQueue) : dispatchQueue[i] # last + 1
  BY <1>1, <1>2 DEF WindowInv, QueuedInReach, InHand
<1>6. Held' \subseteq Held \ {last + 1}
  BY <1>3, <1>4 DEF Held
<1> QED
  BY <1>1, <1>2, <1>3, <1>4, <1>5, <1>6, SendSuccessor

LEMMA DrainKeepsWindow ==
  ASSUME WindowInv, Drain
  PROVE  WindowInv' /\ Stream!Successor
<1>1. IInv /\ TypeOK /\ IInv' /\ pc = "drain"
  BY DrainKeepsIInv DEF WindowInv, IInv, Drain
<1>2. chunks[Slot(last + 1)] = last + 1 /\ last \in Nat
  BY <1>1 DEF IInv, BranchesMatch, CursorsAgree, TypeOK
<1>3. Slot(last + 1) \in Slots
  BY <1>2, SlotType
<1>4. last + 1 \in Held /\ last + 1 \in Csn
  BY <1>1, <1>2, <1>3 DEF Held, Empty, TypeOK
<1>5. /\ delivered' = Append(delivered, last + 1) /\ last' = last + 1
      /\ chunks' = [chunks EXCEPT ![Slot(last + 1)] = Empty]
      /\ UNCHANGED <<dispatchQueue, offered>>
      /\ pc' \in {"drain", "select"}
  BY <1>2 DEF Drain, Send, Continue
<1>6. offered[last + 1] > 0
  BY <1>4 DEF WindowInv, HeldInReach, InReach
<1>7. \A i \in 1 .. Len(dispatchQueue) : dispatchQueue[i] # last + 1
  BY <1>4 DEF WindowInv, QueuedInReach
<1>8. \A at \in Slots :
        chunks'[at] = IF at = Slot(last + 1) THEN Empty ELSE chunks[at]
  BY <1>1, <1>3, <1>5 DEF TypeOK
<1>9. \A at \in Slots : chunks[at] = last + 1 => at = Slot(last + 1)
  BY <1>2 DEF WindowInv, IInv, HeldInItsSlot, Empty
<1>10. Held' \subseteq Held \ {last + 1}
  BY <1>8, <1>9 DEF Held
<1> QED
  BY <1>1, <1>4, <1>5, <1>6, <1>7, <1>10, SendSuccessor

-----------------------------------------------------------------------------
LEMMA WindowStep ==
  ASSUME WindowInv, [WindowNext]_windowVars, ~ strayed'
  PROVE  WindowInv' /\ [Stream!Successor]_delivered
<1>1. IInv
  BY DEF WindowInv
<1>2. CASE Feed
  <2>1. PICK c \in Csn : Offer(c) /\ strayed' = (strayed \/ ~ InWindow(c))
    BY <1>2 DEF Feed
  <2> QED
    BY <2>1, OfferKeepsWindow DEF Offer
<1>3. CASE Take
  BY <1>1, <1>3, ConsumeKeepsIInv, QuietStep DEF Take, Consume, state
<1>4. CASE Stop
  BY <1>1, <1>4, StopKeepsIInv, QuietStep DEF Stop, state
<1>5. CASE UNCHANGED windowVars
  BY <1>1, <1>5, StutterKeepsIInv, QuietStep DEF windowVars, vars
<1>6. CASE Dispatch
  <2>1. CASE \E c \in Csn : DropDetached(c) \/ Collide(c)
    BY <2>1, NothingDetached, NothingCollides
  <2>2. CASE \E c \in Csn : Hold(c) \/ Match(c)
    BY <2>2, HoldKeepsWindow, MatchKeepsWindow
       DEF Hold, Match, Accept, Receive
  <2>3. CASE Evict
    BY <2>3 DEF Evict, WindowInv, NoCollision
  <2>4. CASE Deliver \/ Drain
    BY <2>4, DeliverKeepsWindow, DrainKeepsWindow
  <2> QED
    BY <1>6, <2>1, <2>2, <2>3, <2>4 DEF Dispatch
<1> QED
  BY <1>2, <1>3, <1>4, <1>5, <1>6 DEF WindowNext, Order

(* A stream that has strayed stays so. *)
LEMMA StrayedStays ==
  ASSUME [WindowNext]_windowVars, ~ strayed'
  PROVE  ~ strayed
BY DEF WindowNext, windowVars, Feed, Take, Order

(* As long as the dispatcher is fed within its window, whatever is queued  *)
(* or held lies within Size of the last chunk delivered.                   *)
THEOREM WindowInvariance == WindowSpec => [](strayed \/ WindowInv)
<1>1. WindowInit => WindowInv
  BY InitWindowInv DEF WindowInit
<1>2. (strayed \/ WindowInv) /\ [WindowNext]_windowVars
        => (strayed \/ WindowInv)'
  BY WindowStep, StrayedStays
<1> QED
  BY <1>1, <1>2, PTL DEF WindowSpec

(* The eviction of lines 123-133 is unreachable within the window. *)
THEOREM NeverCollides == WindowSpec => [](strayed \/ NoCollision)
<1>1. WindowInv => NoCollision
  BY DEF WindowInv
<1> QED
  BY <1>1, WindowInvariance, PTL

(* The dispatcher implements the gapless stream as long as it is fed       *)
(* within the window: chunk 1, 2, 3, ... reach resultQueue in this order,  *)
(* none missing and none twice.                                            *)
THEOREM WindowImplementsGaplessStream == WindowSpec => GaplessStream
<1>1. WindowInit => Stream!Init
  BY InitWindowInv DEF WindowInit
<1>2. (strayed \/ WindowInv) /\ [WindowNext]_windowVars
        => [~ strayed' => Stream!Successor]_delivered
  BY WindowStep, StrayedStays
<1> QED
  BY <1>1, <1>2, WindowInvariance, PTL DEF WindowSpec, GaplessStream

-----------------------------------------------------------------------------
(* Whatever is fed: the collision is the only leap. *)

LastInv == IInv /\ StreamAtLast

(* A send outside the collision: what is sent is last + 1.                 *)
LEMMA SendIsSuccessor ==
  ASSUME LastInv, Deliver \/ Drain
  PROVE  Stream!Successor /\ last + 1 \in Csn \ {0} /\ last' = last + 1
<1>1. IInv /\ TypeOK /\ last \in Nat /\ Stream!Newest = last
  BY DEF LastInv, IInv, TypeOK, StreamAtLast
<1>2. CASE Deliver
  <2>1. chunk = last + 1 /\ chunk \in Csn
    BY <1>1, <1>2 DEF Deliver, IInv, BranchesMatch, CursorsAgree, TypeOK, Empty
  <2> QED
    BY <1>1, <1>2, <2>1 DEF Deliver, Send, Stream!Successor
<1>3. CASE Drain
  <2>1. chunks[Slot(last + 1)] = last + 1
    BY <1>1, <1>3 DEF Drain, IInv, BranchesMatch, CursorsAgree, TypeOK
  <2>2. Slot(last + 1) \in Slots
    BY <1>1, SlotType
  <2>3. last + 1 \in Csn
    BY <1>1, <2>1, <2>2 DEF TypeOK, Empty
  <2> QED
    BY <1>1, <1>3, <2>1, <2>3 DEF Drain, Send, Stream!Successor
<1> QED
  BY <1>2, <1>3

(* The collision sends the chunk that holds the slot, and last follows.    *)
LEMMA EvictKeepsLast ==
  ASSUME LastInv, Evict
  PROVE  StreamAtLast'
<1>1. IInv /\ TypeOK
  BY DEF LastInv, IInv
<1>2. chunk \in Csn /\ chunks[Slot(chunk)] # Empty
  BY <1>1 DEF Evict, IInv, BranchesMatch, TypeOK, Empty
<1>3. Slot(chunk) \in Slots
  BY <1>2, SlotType, CsnAssumption
<1>4. chunks[Slot(chunk)] \in Csn \ {0}
  BY <1>1, <1>2, <1>3 DEF TypeOK, Empty
<1>5. delivered \in Seq(Csn \ {0})
  BY <1>1 DEF TypeOK
<1>6. /\ delivered' = Append(delivered, chunks[Slot(chunk)])
      /\ last' = chunks[Slot(chunk)]
  BY DEF Evict, Send
<1> QED
  BY <1>4, <1>5, <1>6, NewestAppend DEF StreamAtLast

LEMMA LastStep ==
  ASSUME LastInv, [Next]_vars
  PROVE  LastInv' /\ [pc # "evict" => Stream!Successor]_delivered
<1>1. IInv /\ IInv' /\ last = Stream!Newest
  BY NextKeepsIInv DEF LastInv, StreamAtLast
<1>2. CASE UNCHANGED <<last, delivered>>
  BY <1>1, <1>2 DEF LastInv, StreamAtLast, Stream!Newest
<1>3. CASE Evict
  BY <1>1, <1>3, EvictKeepsLast DEF LastInv, Evict
<1>4. CASE Deliver \/ Drain
  <2>1. Stream!Successor /\ last + 1 \in Csn \ {0} /\ last' = last + 1
    BY <1>4, SendIsSuccessor
  <2>2. delivered \in Seq(Csn \ {0})
    BY <1>1 DEF IInv, TypeOK
  <2>3. delivered' = Append(delivered, last + 1)
    BY <1>1, <2>1 DEF Stream!Successor
  <2> QED
    BY <1>1, <2>1, <2>2, <2>3, NewestAppend DEF LastInv, StreamAtLast
<1>5. CASE UNCHANGED vars \/ Consume \/ Stop \/ \E c \in Csn : Offer(c)
  BY <1>2, <1>5 DEF vars, state, Consume, Stop, Offer
<1>6. CASE \E c \in Csn : DropDetached(c) \/ Hold(c) \/ Collide(c) \/ Match(c)
  BY <1>2, <1>6 DEF DropDetached, Hold, Collide, Match, Accept, Receive, state
<1> QED
  BY <1>3, <1>4, <1>5, <1>6 DEF Next, Dispatch

(* Whatever the restorer sends, in whatever order and how often, a chunk   *)
(* reaches resultQueue out of turn (a gap, a repetition or a step back) in *)
(* one place only, the send of line 129 after a collision; the two other   *)
(* sends continue the stream with the next number.                         *)
THEOREM OnlyCollisionsLeap == Spec => [][pc # "evict" => Stream!Successor]_delivered
<1>1. Init => LastInv
  BY InitWindowInv DEF LastInv, WindowInv
<1>2. LastInv /\ [Next]_vars
        => LastInv' /\ [pc # "evict" => Stream!Successor]_delivered
  BY LastStep
<1> QED
  BY <1>1, <1>2, PTL DEF Spec

=============================================================================
