------------------------------ MODULE RingProofs ------------------------------
(***************************************************************************)
(* The ring is a bounded queue and loses no wake-up, for every number of   *)
(* readers, writers and cells.                                             *)
(*                                                                         *)
(* The invariant adds to the types and to NoLostWakeup where each item     *)
(* lies (ItemsInPlace).  The refinement is then arithmetic on the cursors: *)
(* what the ring holds are the numbers after last up to first.             *)
(***************************************************************************)
EXTENDS Ring, FiniteSetTheorems, DataLemmas

(* Item n, as long as it is in the ring, lies in the cell its number       *)
(* selects (ring.go:41, 66).                                               *)
ItemsInPlace == \A n \in last + 1 .. first : buf[Cell(n)] = n

RingInv == TypeOK /\ ItemsInPlace /\ NoLostWakeup

-----------------------------------------------------------------------------
(* Sets of goroutines. *)

(* Waking a goroutine of some kind and putting another away adds to the    *)
(* woken ones of that kind, if the other one is not of that kind.          *)
LEMMA WakeOne ==
  ASSUME NEW kind, IsFiniteSet(kind), NEW set, NEW w \in kind \ set,
         NEW t, t \notin kind
  PROVE  /\ Cardinality(set \cap kind) \in Nat
         /\ Cardinality(((set \ {t}) \cup {w}) \cap kind)
              = Cardinality(set \cap kind) + 1
<1>1. IsFiniteSet(set \cap kind) /\ Cardinality(set \cap kind) \in Nat
  BY FS_Intersection, FS_CardinalityType
<1>2. ((set \ {t}) \cup {w}) \cap kind = (set \cap kind) \cup {w}
  OBVIOUS
<1> QED
  BY <1>1, <1>2, FS_AddElement

LEMMA PutOneAway ==
  ASSUME NEW kind, IsFiniteSet(kind), NEW set, NEW t, NEW others,
         others \cap kind = {}
  PROVE  /\ Cardinality(set \cap kind) \in Nat
         /\ Cardinality(((set \ {t}) \cup others) \cap kind) \in Nat
         /\ Cardinality(((set \ {t}) \cup others) \cap kind)
              >= Cardinality(set \cap kind) - 1
<1>1. IsFiniteSet(set \cap kind) /\ Cardinality(set \cap kind) \in Nat
  BY FS_Intersection, FS_CardinalityType
<1>2. ((set \ {t}) \cup others) \cap kind = (set \cap kind) \ {t}
  OBVIOUS
<1>3. \A S : IsFiniteSet(S) =>
             /\ Cardinality(S \ {t}) \in Nat
             /\ Cardinality(S \ {t}) >= Cardinality(S) - 1
  <2> SUFFICES ASSUME NEW S, IsFiniteSet(S)
               PROVE  /\ Cardinality(S \ {t}) \in Nat
                      /\ Cardinality(S \ {t}) >= Cardinality(S) - 1
    OBVIOUS
  <2>1. Cardinality(S) \in Nat
    BY FS_CardinalityType
  <2>2. /\ IsFiniteSet(S \ {t})
        /\ Cardinality(S \ {t}) =
             IF t \in S THEN Cardinality(S) - 1 ELSE Cardinality(S)
    BY FS_RemoveElement
  <2>3. Cardinality(S \ {t}) \in Nat
    BY <2>2, FS_CardinalityType
  <2> QED
    BY <2>1, <2>2, <2>3
<1> QED
  BY <1>1, <1>2, <1>3
-----------------------------------------------------------------------------
LEMMA InitRingInv == Init => RingInv
<1> SUFFICES ASSUME Init PROVE RingInv
  OBVIOUS
<1>1. TypeOK
  BY SizeAssumption, WritesAssumption DEF Init, TypeOK, Count, Cells, Empty, Item
<1>2. ItemsInPlace /\ NoLostWakeup
  BY DEF Init, ItemsInPlace, NoLostWakeup
<1> QED
  BY <1>1, <1>2 DEF RingInv

(* What the invariant says of the cursors and the cells. *)
LEMMA Cursors ==
  ASSUME TypeOK
  PROVE  /\ Size \in Nat \ {0} /\ MaxWrites \in Nat
         /\ first \in Nat /\ last \in Nat
         /\ last <= first /\ first <= last + Size
         /\ \A n \in Nat : Cell(n) \in Cells
<1>1. \A n \in Nat : n % Size \in 0 .. Size - 1
  BY SizeAssumption, DivMod
<1> QED
  BY <1>1, SizeAssumption, WritesAssumption DEF TypeOK, Count, Cell, Cells

(* Two items that are Size numbers apart at most do not share a cell. *)
LEMMA CellsApart ==
  ASSUME TypeOK, NEW m \in Nat, NEW n \in Nat, m < n, n - m < Size
  PROVE  Cell(m) # Cell(n)
<1> SUFFICES ASSUME m % Size = n % Size PROVE FALSE
  BY DEF Cell
<1>1. m - n < Size
  BY SizeAssumption
<1>2. m = n
  BY <1>1, SizeAssumption, RemainderTellsApart
<1> QED
  BY <1>2

(* The oldest item is what a read returns. *)
LEMMA ReadsOldest ==
  ASSUME RingInv, Count # 0
  PROVE  buf[Cell(last + 1)] = last + 1 /\ last + 1 \in Item
BY Cursors DEF RingInv, ItemsInPlace, Count, TypeOK, Item

LEMMA SignalsRead ==
  ASSUME NEW others, SignalRead(others)
  PROVE  \/ newRead = {} /\ newRead' = {} /\ woken' = others
         \/ \E w \in newRead :
              newRead' = newRead \ {w} /\ woken' = others \cup {w}
BY DEF SignalRead

LEMMA SignalsWrite ==
  ASSUME NEW others, SignalWrite(others)
  PROVE  \/ newWrite = {} /\ newWrite' = {} /\ woken' = others
         \/ \E r \in newWrite :
              newWrite' = newWrite \ {r} /\ woken' = others \cup {r}
BY DEF SignalWrite

-----------------------------------------------------------------------------
(* One lemma for each action. *)

LEMMA TakeKeeps ==
  ASSUME RingInv, NEW t \in Readers, Take(t)
  PROVE  RingInv'
<1>1. TypeOK /\ Count \in 0 .. Size /\ Count # 0
  BY DEF RingInv, TypeOK, Take
<1>2. PICK awake \in SUBSET newRead :
        /\ newRead' = newRead \ awake
        /\ woken' = (woken \ {t}) \cup awake
        /\ newRead = {} \/ \E w \in newRead : awake = {w}
  <2>1. CASE newRead = {} /\ newRead' = {} /\ woken' = woken \ {t}
    BY <2>1
  <2>2. ASSUME NEW w \in newRead, newRead' = newRead \ {w},
               woken' = (woken \ {t}) \cup {w}
        PROVE  \E awake \in SUBSET newRead :
                 /\ newRead' = newRead \ awake
                 /\ woken' = (woken \ {t}) \cup awake
                 /\ newRead = {} \/ \E v \in newRead : awake = {v}
    BY <2>2
  <2> QED
    BY <2>1, <2>2, SignalsRead DEF Take
<1>3. TypeOK'
  <2>1. Count' = Count - 1 /\ Count' \in 0 .. Size /\ last' \in Nat
    BY <1>1, Cursors DEF Take, Count
  <2>2. read' \in Seq(Item)
    BY <1>1, ReadsOldest DEF Take, TypeOK
  <2>3. /\ newRead' \in SUBSET Writers
        /\ woken' \in SUBSET ((Readers \cup Writers)
                               \ (newWrite' \cup newRead'))
    BY <1>1, <1>2, ThreadsAssumption DEF Take, TypeOK
  <2> QED
    BY <1>1, <2>1, <2>2, <2>3 DEF Take, TypeOK
<1>4. ItemsInPlace'
  BY <1>1, Cursors DEF Take, RingInv, ItemsInPlace
<1>5. NoLostWakeup'
  <2>1. Count' = Count - 1
    BY <1>1, Cursors DEF Take, Count
  <2>2. newWrite' # {} => Count' <= Cardinality(woken' \cap Readers)
    <3>1. awake \cap Readers = {}
      BY <1>1, <1>2, ThreadsAssumption DEF TypeOK
    <3>2. /\ Cardinality(woken' \cap Readers) \in Nat
          /\ Cardinality(woken' \cap Readers)
               >= Cardinality(woken \cap Readers) - 1
          /\ Cardinality(woken \cap Readers) \in Nat
      BY <1>2, <3>1, PutOneAway, ThreadsAssumption
    <3> QED
      BY <1>1, <2>1, <3>2 DEF Take, RingInv, NoLostWakeup
  <2>3. newRead' # {} => Size - Count' <= Cardinality(woken' \cap Writers)
    <3> SUFFICES ASSUME newRead' # {}
                 PROVE  Size - Count' <= Cardinality(woken' \cap Writers)
      OBVIOUS
    <3>1. PICK w \in newRead : woken' = (woken \ {t}) \cup {w}
      BY <1>2
    <3>2. w \in Writers \ woken /\ t \notin Writers
      BY <1>1, ThreadsAssumption DEF TypeOK
    <3>3. /\ Cardinality(woken \cap Writers) \in Nat
          /\ Cardinality(woken' \cap Writers)
               = Cardinality(woken \cap Writers) + 1
      BY <3>1, <3>2, WakeOne, ThreadsAssumption
    <3>4. Size - Count <= Cardinality(woken \cap Writers)
      BY DEF RingInv, NoLostWakeup
    <3> QED
      BY <1>1, <2>1, <3>3, <3>4, SizeAssumption
  <2> QED
    BY <2>2, <2>3 DEF NoLostWakeup
<1> QED
  BY <1>3, <1>4, <1>5 DEF RingInv

LEMMA AwaitWriteKeeps ==
  ASSUME RingInv, NEW t \in Readers, AwaitWrite(t)
  PROVE  RingInv'
<1>1. TypeOK'
  BY ThreadsAssumption DEF RingInv, TypeOK, AwaitWrite, Runs, Count
<1>2. ItemsInPlace'
  BY DEF RingInv, ItemsInPlace, AwaitWrite
<1>3. NoLostWakeup'
  <2>1. Count = 0 /\ Count' = Count
    BY DEF AwaitWrite, Count
  <2>2. Cardinality(woken' \cap Readers) \in Nat
    BY ThreadsAssumption, FS_Intersection, FS_CardinalityType
  <2>3. woken' \cap Writers = woken \cap Writers
    BY ThreadsAssumption DEF AwaitWrite
  <2>4. newWrite' # {} => Count' <= Cardinality(woken' \cap Readers)
    BY <2>1, <2>2
  <2>5. newRead' # {} => Size - Count' <= Cardinality(woken' \cap Writers)
    <3>1. newRead' = newRead
      BY DEF AwaitWrite
    <3> QED
      BY <2>1, <2>3, <3>1 DEF RingInv, NoLostWakeup
  <2> QED
    BY <2>4, <2>5 DEF NoLostWakeup
<1> QED
  BY <1>1, <1>2, <1>3 DEF RingInv

(* A cell that is written holds no item that is still to be read.          *)
LEMMA WriteKeepsPlaces ==
  ASSUME RingInv, first' = first + 1, last' \in {last, last + 1},
         Count' <= Size, first < MaxWrites,
         buf' = [buf EXCEPT ![Cell(first + 1)] = first + 1]
  PROVE  /\ ItemsInPlace'
         /\ buf' \in [Cells -> Item \cup {Empty}]
<1>1. TypeOK /\ ItemsInPlace
  BY DEF RingInv
<1>2. /\ first \in Nat /\ last \in Nat /\ Size \in Nat \ {0}
      /\ first + 1 \in Item /\ MaxWrites \in Nat
      /\ Cell(first + 1) \in Cells
  BY <1>1, Cursors DEF Item
<1>3. ItemsInPlace'
  <2> SUFFICES ASSUME NEW n \in last' + 1 .. first + 1
               PROVE  buf'[Cell(n)] = n
    BY DEF ItemsInPlace, Cell
  <2>1. n \in Nat /\ n >= last + 1 /\ n <= first + 1 /\ first + 1 - n < Size
    <3>1. CASE last' = last
      BY <1>2, <3>1 DEF Count
    <3>2. CASE last' = last + 1
      BY <1>2, <3>2 DEF Count
    <3> QED
      BY <3>1, <3>2
  <2>2. CASE n = first + 1
    BY <1>1, <1>2, <2>2 DEF TypeOK
  <2>3. CASE n # first + 1
    <3>1. n \in last + 1 .. first /\ n < first + 1 /\ Cell(n) \in Cells
      BY <1>1, <1>2, <2>1, <2>3, Cursors
    <3>2. Cell(n) # Cell(first + 1)
      BY <1>1, <1>2, <2>1, <3>1, CellsApart
    <3> QED
      BY <1>1, <1>2, <2>1, <3>1, <3>2 DEF TypeOK, ItemsInPlace
  <2> QED
    BY <2>2, <2>3
<1> QED
  BY <1>1, <1>2, <1>3 DEF TypeOK

LEMMA PutKeeps ==
  ASSUME RingInv, NEW t \in Writers, Put(t)
  PROVE  RingInv'
<1>1. TypeOK /\ Count \in 0 .. Size /\ Count # Size
  BY DEF RingInv, TypeOK, Put
<1>2. PICK awake \in SUBSET newWrite :
        /\ newWrite' = newWrite \ awake
        /\ woken' = (woken \ {t}) \cup awake
        /\ newWrite = {} \/ \E r \in newWrite : awake = {r}
  <2>1. CASE newWrite = {} /\ newWrite' = {} /\ woken' = woken \ {t}
    BY <2>1
  <2>2. ASSUME NEW r \in newWrite, newWrite' = newWrite \ {r},
               woken' = (woken \ {t}) \cup {r}
        PROVE  \E awake \in SUBSET newWrite :
                 /\ newWrite' = newWrite \ awake
                 /\ woken' = (woken \ {t}) \cup awake
                 /\ newWrite = {} \/ \E q \in newWrite : awake = {q}
    BY <2>2
  <2> QED
    BY <2>1, <2>2, SignalsWrite DEF Put
<1>3. Count' = Count + 1 /\ Count' \in 0 .. Size
  BY <1>1, Cursors DEF Put, Count
<1>4. ItemsInPlace' /\ buf' \in [Cells -> Item \cup {Empty}]
  BY <1>1, <1>3, WriteKeepsPlaces, Cursors DEF Put
<1>5. TypeOK'
  <2>1. /\ newWrite' \in SUBSET Readers
        /\ woken' \in SUBSET ((Readers \cup Writers)
                               \ (newWrite' \cup newRead'))
    BY <1>1, <1>2, ThreadsAssumption DEF Put, TypeOK
  <2>2. first' \in 0 .. MaxWrites
    BY <1>1, Cursors DEF Put
  <2> QED
    BY <1>1, <1>3, <1>4, <2>1, <2>2 DEF Put, TypeOK
<1>6. NoLostWakeup'
  <2>1. newRead' # {} => Size - Count' <= Cardinality(woken' \cap Writers)
    <3>1. awake \cap Writers = {}
      BY <1>1, <1>2, ThreadsAssumption DEF TypeOK
    <3>2. /\ Cardinality(woken' \cap Writers) \in Nat
          /\ Cardinality(woken' \cap Writers)
               >= Cardinality(woken \cap Writers) - 1
          /\ Cardinality(woken \cap Writers) \in Nat
      BY <1>2, <3>1, PutOneAway, ThreadsAssumption
    <3> QED
      BY <1>1, <1>3, <3>2, SizeAssumption DEF Put, RingInv, NoLostWakeup
  <2>2. newWrite' # {} => Count' <= Cardinality(woken' \cap Readers)
    <3> SUFFICES ASSUME newWrite' # {}
                 PROVE  Count' <= Cardinality(woken' \cap Readers)
      OBVIOUS
    <3>1. PICK r \in newWrite : woken' = (woken \ {t}) \cup {r}
      BY <1>2
    <3>2. r \in Readers \ woken /\ t \notin Readers
      BY <1>1, ThreadsAssumption DEF TypeOK
    <3>3. /\ Cardinality(woken \cap Readers) \in Nat
          /\ Cardinality(woken' \cap Readers)
               = Cardinality(woken \cap Readers) + 1
      BY <3>1, <3>2, WakeOne, ThreadsAssumption
    <3>4. Count <= Cardinality(woken \cap Readers)
      BY DEF RingInv, NoLostWakeup
    <3> QED
      BY <1>1, <1>3, <3>3, <3>4
  <2> QED
    BY <2>1, <2>2 DEF NoLostWakeup
<1> QED
  BY <1>4, <1>5, <1>6 DEF RingInv

LEMMA OverwriteKeeps ==
  ASSUME RingInv, NEW t \in Writers, Overwrite(t)
  PROVE  RingInv'
<1>1. TypeOK /\ Count' = Count /\ Count' \in 0 .. Size
  BY Cursors DEF RingInv, TypeOK, Overwrite, Count
<1>2. ItemsInPlace' /\ buf' \in [Cells -> Item \cup {Empty}]
  BY <1>1, WriteKeepsPlaces, Cursors DEF Overwrite
<1>3. first' \in 0 .. MaxWrites /\ last' \in Nat
  BY <1>1, Cursors DEF Overwrite
<1>4. TypeOK'
  BY <1>1, <1>2, <1>3 DEF Overwrite, TypeOK
<1>5. NoLostWakeup'
  BY <1>1 DEF RingInv, NoLostWakeup, Overwrite
<1> QED
  BY <1>2, <1>4, <1>5 DEF RingInv

LEMMA AwaitReadKeeps ==
  ASSUME RingInv, NEW t \in Writers, AwaitRead(t)
  PROVE  RingInv'
<1>1. TypeOK'
  BY ThreadsAssumption DEF RingInv, TypeOK, AwaitRead, Runs, Count
<1>2. ItemsInPlace'
  BY DEF RingInv, ItemsInPlace, AwaitRead
<1>3. NoLostWakeup'
  <2>1. Size - Count = 0 /\ Count' = Count
    BY SizeAssumption DEF AwaitRead, Count
  <2>2. Cardinality(woken' \cap Writers) \in Nat
    BY ThreadsAssumption, FS_Intersection, FS_CardinalityType
  <2>3. woken' \cap Readers = woken \cap Readers
    BY ThreadsAssumption DEF AwaitRead
  <2>4. newRead' # {} => Size - Count' <= Cardinality(woken' \cap Writers)
    BY <2>1, <2>2
  <2>5. newWrite' # {} => Count' <= Cardinality(woken' \cap Readers)
    <3>1. newWrite' = newWrite
      BY DEF AwaitRead
    <3> QED
      BY <2>1, <2>3, <3>1 DEF RingInv, NoLostWakeup
  <2> QED
    BY <2>4, <2>5 DEF NoLostWakeup
<1> QED
  BY <1>1, <1>2, <1>3 DEF RingInv

-----------------------------------------------------------------------------
LEMMA NextKeeps == RingInv /\ [Next]_vars => RingInv'
<1> SUFFICES ASSUME RingInv, [Next]_vars PROVE RingInv'
  OBVIOUS
<1>1. ASSUME NEW t \in Readers, Read(t) PROVE RingInv'
  BY <1>1, TakeKeeps, AwaitWriteKeeps DEF Read
<1>2. ASSUME NEW t \in Writers, Write(t) PROVE RingInv'
  BY <1>2, PutKeeps, OverwriteKeeps, AwaitReadKeeps DEF Write
<1>3. CASE UNCHANGED vars
  BY <1>3 DEF vars, RingInv, TypeOK, ItemsInPlace, NoLostWakeup, Count, Cell
<1> QED
  BY <1>1, <1>2, <1>3 DEF Next

(* The inductive invariant of the ring (ring.go:31-69).                    *)
THEOREM Invariance == Spec => []RingInv
BY InitRingInv, NextKeeps, PTL DEF Spec

(* The cursors never drift apart by more than the cells, so the unsigned   *)
(* first - last of ring.go:35 and 54 is the number of items, and a woken   *)
(* goroutine does not wait.                                                *)
THEOREM TypeCorrect == Spec => []TypeOK
BY Invariance, PTL DEF RingInv

(* While readers wait, every item in the ring has a reader that was woken  *)
(* for it, and while writers wait, every free cell has a writer, whatever  *)
(* order the goroutines get the mutex in (ring.go:40, 46, 61, 67).         *)
THEOREM WakeupsReachSomebody == Spec => []NoLostWakeup
BY Invariance, PTL DEF RingInv

-----------------------------------------------------------------------------
(* The refinement.  What is in the ring are consecutive numbers.           *)
Numbered == Count \in Nat /\ Contents = [i \in 1 .. Count |-> last + i]

LEMMA HoldsNumbers == RingInv => Numbered
<1> SUFFICES ASSUME RingInv PROVE Numbered
  OBVIOUS
<1>1. Count \in Nat
  BY DEF RingInv, TypeOK
<1>2. ASSUME NEW i \in 1 .. Count PROVE buf[Cell(last + i)] = last + i
  BY <1>1, Cursors DEF RingInv, ItemsInPlace, Count
<1> QED
  BY <1>1, <1>2 DEF Contents, Numbered

LEMMA WithoutOldest ==
  ASSUME NEW n \in Nat \ {0}, NEW m \in Nat
  PROVE  Tail([i \in 1 .. n |-> m + i]) = [i \in 1 .. n - 1 |-> m + 1 + i]
OBVIOUS

LEMMA WithNewest ==
  ASSUME NEW n \in Nat, NEW m \in Nat
  PROVE  Append([i \in 1 .. n |-> m + i], m + (n + 1))
           = [i \in 1 .. n + 1 |-> m + i]
OBVIOUS

LEMMA InitQueue == Init => Queue!Init
BY DEF Init, Queue!Init, Contents, Count

LEMMA TakeTakes ==
  ASSUME RingInv, Numbered, Numbered', NEW t \in Readers, Take(t)
  PROVE  Queue!Take
<1>1. /\ Count \in Nat /\ Count # 0 /\ last \in Nat
      /\ Count' = Count - 1 /\ last' = last + 1
  BY Cursors DEF RingInv, Take, Count, TypeOK
<1>2. /\ Contents = [i \in 1 .. Count |-> last + i]
      /\ Contents' = [i \in 1 .. Count - 1 |-> last + 1 + i]
  BY <1>1 DEF Numbered
<1>3. Contents # << >> /\ Head(Contents) = last + 1
  BY <1>1, <1>2
<1>4. Contents' = Tail(Contents)
  BY <1>1, <1>2, WithoutOldest
<1>5. read' = Append(read, last + 1)
  BY <1>1, ReadsOldest DEF Take
<1> QED
  BY <1>3, <1>4, <1>5 DEF Queue!Take

LEMMA PutPuts ==
  ASSUME RingInv, Numbered, Numbered', NEW t \in Writers, Put(t)
  PROVE  \E x \in Item : Queue!Put(x)
<1>1. /\ Count \in Nat /\ Count < Size /\ last \in Nat /\ first \in Nat
      /\ Count' = Count + 1 /\ last' = last /\ first + 1 = last + (Count + 1)
      /\ first + 1 \in Item
  <2>1. /\ Count \in 0 .. Size /\ Count # Size
        /\ last' = last /\ first' = first + 1 /\ first < MaxWrites
    BY DEF RingInv, TypeOK, Put
  <2>2. first \in Nat /\ last \in Nat /\ Size \in Nat /\ MaxWrites \in Nat
    BY Cursors DEF RingInv
  <2> QED
    BY <2>1, <2>2 DEF Count, Item
<1>2. /\ Contents = [i \in 1 .. Count |-> last + i]
      /\ Contents' = [i \in 1 .. Count + 1 |-> last + i]
  BY <1>1 DEF Numbered
<1>3. Len(Contents) = Count
  BY <1>1, <1>2
<1>4. Contents' = Append(Contents, first + 1)
  <2>1. Append([i \in 1 .. Count |-> last + i], last + (Count + 1))
          = [i \in 1 .. Count + 1 |-> last + i]
    BY <1>1, WithNewest
  <2> QED
    BY <1>1, <1>2, <2>1
<1> QED
  BY <1>1, <1>3, <1>4 DEF Queue!Put, Put

LEMMA OverwriteDisplaces ==
  ASSUME RingInv, Numbered, Numbered', NEW t \in Writers, Overwrite(t)
  PROVE  \E x \in Item : Queue!Displace(x)
<1>1. /\ Count \in Nat \ {0} /\ Count = Size /\ last \in Nat
      /\ first \in Nat /\ Count' = Count /\ last' = last + 1
      /\ first + 1 = last + 1 + Count /\ first + 1 \in Item
  BY Cursors DEF RingInv, Overwrite, Count, TypeOK, Item
<1>2. /\ Contents = [i \in 1 .. Count |-> last + i]
      /\ Contents' = [i \in 1 .. Count |-> last + 1 + i]
  BY <1>1 DEF Numbered
<1>3. Len(Contents) = Count
  BY <1>1, <1>2
<1>4. Tail(Contents) = [i \in 1 .. Count - 1 |-> (last + 1) + i]
  BY <1>1, <1>2, WithoutOldest
<1>5. Contents' = Append(Tail(Contents), first + 1)
  <2>1. Append([i \in 1 .. Count - 1 |-> (last + 1) + i],
               (last + 1) + (Count - 1 + 1))
          = [i \in 1 .. Count - 1 + 1 |-> (last + 1) + i]
    BY <1>1, WithNewest
  <2>2. first + 1 = (last + 1) + (Count - 1 + 1) /\ Count - 1 + 1 = Count
    BY <1>1
  <2> QED
    BY <1>2, <1>4, <2>1, <2>2
<1> QED
  BY <1>1, <1>3, <1>5 DEF Queue!Displace, Overwrite

LEMMA NextImplements ==
  ASSUME RingInv, Numbered, Numbered', [Next]_vars
  PROVE  [Queue!Next]_<<Contents, read>>
<1>1. ASSUME NEW t \in Readers, Read(t)
      PROVE  [Queue!Next]_<<Contents, read>>
  <2>1. CASE Take(t)
    BY <2>1, TakeTakes DEF Queue!Next
  <2>2. CASE AwaitWrite(t)
    BY <2>2 DEF AwaitWrite, Contents, Count, Cell
  <2> QED
    BY <1>1, <2>1, <2>2 DEF Read
<1>2. ASSUME NEW t \in Writers, Write(t)
      PROVE  [Queue!Next]_<<Contents, read>>
  <2>1. CASE Put(t)
    BY <2>1, PutPuts DEF Queue!Next
  <2>2. CASE Overwrite(t)
    BY <2>2, OverwriteDisplaces DEF Queue!Next
  <2>3. CASE AwaitRead(t)
    BY <2>3 DEF AwaitRead, Contents, Count, Cell
  <2> QED
    BY <1>2, <2>1, <2>2, <2>3 DEF Write
<1>3. CASE UNCHANGED vars
  BY <1>3 DEF vars, Contents, Count, Cell
<1> QED
  BY <1>1, <1>2, <1>3 DEF Next

(* The cells and cursors implement the bounded queue: items come out in    *)
(* the order they were written, none twice, and only an overwriting call   *)
(* on a full ring makes one disappear.                                     *)
THEOREM RingImplementsQueue == Spec => IsBoundedQueue
<1>1. RingInv /\ Numbered /\ Numbered' /\ [Next]_vars
        => [Queue!Next]_<<Contents, read>>
  BY NextImplements
<1> QED
  BY <1>1, InitQueue, Invariance, HoldsNumbers, PTL DEF Spec, IsBoundedQueue, Queue!Spec
=============================================================================
