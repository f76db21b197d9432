--------------------------------- MODULE Ring ---------------------------------
(***************************************************************************)
(* The ring buffer (src/src/buffer/ring.go) with several goroutines that   *)
(* read and write it.                                                      *)
(*                                                                         *)
(* An operation runs with the mutex held from its start, or from the end   *)
(* of a Wait, to its end or the next Wait, so that is one step.  Wait      *)
(* enters the set of the condition's waiters and gives the mutex back in   *)
(* one step; Signal moves one of them, whichever, to woken, where it       *)
(* competes for the mutex with everybody else.                             *)
(*                                                                         *)
(* Items are numbered in the order they are written.                       *)
(***************************************************************************)
EXTENDS Integers, Sequences, FiniteSets

CONSTANTS
  Readers,   \* goroutines that call Read
  Writers,   \* goroutines that call Write
  Size,      \* len(buf)
  MaxWrites  \* bound: how many items are written

ASSUME SizeAssumption == Size \in Nat \ {0}
ASSUME ThreadsAssumption ==
  IsFiniteSet(Readers) /\ IsFiniteSet(Writers) /\ Readers \cap Writers = {}
ASSUME WritesAssumption == MaxWrites \in Nat

VARIABLES
  buf,       \* Ring.buf
  first,     \* Ring.first: the number of the newest item
  last,      \* Ring.last: the number of the newest item that left
  newWrite,  \* the readers waiting for a write (line 40)
  newRead,   \* the writers waiting for a read (line 61)
  woken,     \* the signalled ones that have not run yet
  read       \* the items returned by Read so far (history)

vars == <<buf, first, last, newWrite, newRead, woken, read>>

Item == 1 .. MaxWrites

Empty == 0

Cell(n) == n % Size

Cells == 0 .. Size - 1

Count == first - last

Init ==
  /\ buf = [i \in Cells |-> Empty]
  /\ first = 0
  /\ last = 0
  /\ newWrite = {}
  /\ newRead = {}
  /\ woken = {}
  /\ read = << >>

-----------------------------------------------------------------------------
(* Thread t starts an operation, or goes on with one after its Wait. *)
Runs(t) == t \notin newWrite \cup newRead

SignalRead(others) ==
  IF newRead = {} THEN newRead' = {} /\ woken' = others
  ELSE \E w \in newRead : newRead' = newRead \ {w} /\ woken' = others \cup {w}

(* Mutant: a write signals readers only if the ring was not empty. *)
SignalWriteWhenFilled(others) ==
  IF newWrite = {} \/ Count = 0 THEN newWrite' = newWrite /\ woken' = others
  ELSE \E r \in newWrite :
         newWrite' = newWrite \ {r} /\ woken' = others \cup {r}

SignalWrite(others) ==
  IF newWrite = {} THEN newWrite' = {} /\ woken' = others
  ELSE \E r \in newWrite :
         newWrite' = newWrite \ {r} /\ woken' = others \cup {r}

(* Lines 35-47: an item is taken. *)
Take(t) ==
  /\ Runs(t)
  /\ Count # 0
  /\ last' = last + 1
  /\ read' = Append(read, buf[Cell(last + 1)])
  /\ SignalRead(woken \ {t})
  /\ UNCHANGED <<buf, first, newWrite>>

(* Lines 35-41, wait = TRUE.  With wait = FALSE nothing changes: a call    *)
(* with wait = FALSE never waits, so t has not been woken.                 *)
AwaitWrite(t) ==
  /\ Runs(t)
  /\ Count = 0
  /\ newWrite' = newWrite \cup {t}
  /\ woken' = woken \ {t}
  /\ UNCHANGED <<buf, first, last, newRead, read>>

(* Lines 66-68. *)
Put(t) ==
  /\ Runs(t)
  /\ first < MaxWrites
  /\ Count # Size
  /\ first' = first + 1
  /\ buf' = [buf EXCEPT ![Cell(first + 1)] = first + 1]
  /\ SignalWrite(woken \ {t})
  /\ UNCHANGED <<last, newRead, read>>

(* Mutant: the oldest item is not skipped. *)
OverwriteKeepingLast(t) ==
  /\ Runs(t) /\ t \notin woken
  /\ first < MaxWrites
  /\ Count = Size
  /\ first' = first + 1
  /\ last' = last
  /\ buf' = [buf EXCEPT ![Cell(first + 1)] = first + 1]
  /\ UNCHANGED <<newWrite, newRead, woken, read>>

(* Lines 54-59, overwrite = TRUE; such a call never waits. *)
Overwrite(t) ==
  /\ Runs(t) /\ t \notin woken
  /\ first < MaxWrites
  /\ Count = Size
  /\ first' = first + 1
  /\ last' = last + 1
  /\ buf' = [buf EXCEPT ![Cell(first + 1)] = first + 1]
  /\ UNCHANGED <<newWrite, newRead, woken, read>>

(* Lines 54-62, overwrite = FALSE. *)
AwaitRead(t) ==
  /\ Runs(t)
  /\ first < MaxWrites
  /\ Count = Size
  /\ newRead' = newRead \cup {t}
  /\ woken' = woken \ {t}
  /\ UNCHANGED <<buf, first, last, newWrite, read>>

-----------------------------------------------------------------------------
Read(t) == Take(t) \/ AwaitWrite(t)

Write(t) == Put(t) \/ Overwrite(t) \/ AwaitRead(t)

Next ==
  \/ \E t \in Readers : Read(t)
  \/ \E t \in Writers : Write(t)

Spec == Init /\ [][Next]_vars

(* A signalled goroutine gets the mutex sooner or later (Go's mutex does   *)
(* not starve a waiter); nobody has to call Read or Write.                 *)
FairSpec ==
  /\ Spec
  /\ \A t \in Readers : WF_vars(t \in woken /\ Read(t))
  /\ \A t \in Writers : WF_vars(t \in woken /\ Write(t))

-----------------------------------------------------------------------------
(* The cursors never drift apart by more than the cells, so the unsigned   *)
(* first - last of lines 35 and 54 is the number of items.                 *)
TypeOK ==
  /\ buf \in [Cells -> Item \cup {Empty}]
  /\ first \in 0 .. MaxWrites
  /\ last \in Nat
  /\ Count \in 0 .. Size
  /\ newWrite \in SUBSET Readers
  /\ newRead \in SUBSET Writers
  /\ woken \in SUBSET ((Readers \cup Writers) \ (newWrite \cup newRead))
  /\ read \in Seq(Item)

(* The items in the ring, the oldest first. *)
Contents == [i \in 1 .. Count |-> buf[Cell(last + i)]]

Queue == INSTANCE BoundedQueue WITH queue <- Contents, taken <- read

(* The cells and cursors are a bounded queue: items come out in the order  *)
(* they were written, none twice, and only an overwriting call on a full   *)
(* ring makes one disappear.                                               *)
IsBoundedQueue == Queue!Spec

(* No wake-up is lost: while readers wait, each item in the ring has a     *)
(* reader that was woken for it, and while writers wait, each free cell    *)
(* has a writer.                                                           *)
NoLostWakeup ==
  /\ newWrite # {} => Count <= Cardinality(woken \cap Readers)
  /\ newRead # {} => Size - Count <= Cardinality(woken \cap Writers)

(* A reader does not wait for ever beside an item. *)
WaitersServed == (newWrite # {} /\ Count # 0) ~> (newWrite = {} \/ Count = 0)
=============================================================================
