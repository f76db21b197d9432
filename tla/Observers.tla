------------------------------- MODULE Observers -------------------------------
(***************************************************************************)
(* How a client shows its traffic: an observer around the socket's reader  *)
(* and one around its writer (src/src/observer/reader.go and writer.go,    *)
(* the same code twice) count the bytes that pass and report once per      *)
(* interval; Report (src/src/reporter.go) sends a line on a channel of its *)
(* own, and a single goroutine prints one line of each channel in turn     *)
(* (src/cmd/client/main.go:47-63).                                         *)
(*                                                                         *)
(* A line is the total and the delta it was made of; the rounding to kbit  *)
(* and mbit is left out.  Time is not modelled: an observer may report     *)
(* again at once or as late as it likes.  The print loop ends only if the  *)
(* terminal returns io.EOF, which the library uilive never does.           *)
(***************************************************************************)
EXTENDS Integers, Sequences

CONSTANTS
  Cap,       \* cap(readerOutput) and cap(writerOutput), main.go:42-43
  Width,     \* the number of values of a counter, 2^64
  Passing,   \* how many bytes one Read or Write may pass
  MaxBytes   \* bound: how many bytes are read and how many written

ASSUME ObserversAssumption ==
  /\ Cap \in Nat \ {0} /\ Width \in Nat \ {0}
  /\ Passing \subseteq Nat \ {0}
  /\ MaxBytes \in Nat

Observer == {"reader", "writer"}

VARIABLES
  passed,      \* how many bytes were really read and written (history)
  total,       \* *total, shared with Read and Write through atomics
  totalBefore, \* totalBefore
  pc,          \* "select" (line 37 of reader.go), "report" (in the channel
               \* send of Report) or "returned"
  loaded,      \* the local variable total
  done,        \* the observers that were closed
  output,      \* readerOutput and writerOutput
  turn,        \* the channel the print loop receives from
  shown,       \* the total printed last (history)
  added        \* the sum of the deltas printed (history)

observerVars == <<totalBefore, pc, loaded>>
printVars == <<turn, shown, added>>
vars == <<passed, total, observerVars, done, output, printVars>>

Zero == [o \in Observer |-> 0]

Init ==
  /\ passed = Zero /\ total = Zero /\ totalBefore = Zero /\ loaded = Zero
  /\ pc = [o \in Observer |-> "select"]
  /\ done = {}
  /\ output = [o \in Observer |-> << >>]
  /\ turn = "reader"
  /\ shown = Zero /\ added = Zero

-----------------------------------------------------------------------------
(* Read and Write: reader.go:57-62, writer.go:57-62. *)
Pass(o, n) ==
  /\ passed[o] + n <= MaxBytes
  /\ passed' = [passed EXCEPT ![o] = @ + n]
  /\ total' = [total EXCEPT ![o] = (@ + n) % Width]
  /\ UNCHANGED <<observerVars, done, output, printVars>>

(* Close: reader.go:64-67, once.  The print loop is not told. *)
Close(o) ==
  /\ o \notin done
  /\ done' = done \cup {o}
  /\ UNCHANGED <<passed, total, observerVars, output, printVars>>

(* Lines 38-40. *)
Return(o) ==
  /\ pc[o] = "select" /\ o \in done
  /\ pc' = [pc EXCEPT ![o] = "returned"]
  /\ UNCHANGED <<passed, total, totalBefore, loaded, done, output, printVars>>

(* Line 41. *)
Load(o) ==
  /\ pc[o] = "select" /\ o \notin done
  /\ loaded' = [loaded EXCEPT ![o] = total[o]]
  /\ pc' = [pc EXCEPT ![o] = "report"]
  /\ UNCHANGED <<passed, total, totalBefore, done, output, printVars>>

(* Lines 42-47: bits.Sub64 and its borrow. *)
Delta(o) == IF loaded[o] >= totalBefore[o] THEN loaded[o] - totalBefore[o]
                                           ELSE 0

(* Mutant: what passed during the report is not reported. *)
ReportAndReload(o) ==
  /\ pc[o] = "report"
  /\ Len(output[o]) < Cap
  /\ output' = [output EXCEPT
                  ![o] = Append(@, [total |-> loaded[o], delta |-> Delta(o)])]
  /\ totalBefore' = [totalBefore EXCEPT ![o] = total[o]]
  /\ pc' = [pc EXCEPT ![o] = "select"]
  /\ UNCHANGED <<passed, total, loaded, done, printVars>>

(* Lines 44-49 and reporter.go:20. *)
Report(o) ==
  /\ pc[o] = "report"
  /\ Len(output[o]) < Cap
  /\ output' = [output EXCEPT
                  ![o] = Append(@, [total |-> loaded[o], delta |-> Delta(o)])]
  /\ totalBefore' = [totalBefore EXCEPT ![o] = loaded[o]]
  /\ pc' = [pc EXCEPT ![o] = "select"]
  /\ UNCHANGED <<passed, total, loaded, done, printVars>>

(* Mutant: one channel is printed, the other is not received from. *)
SameAgain(o) == o

Other(o) == IF o = "reader" THEN "writer" ELSE "reader"

(* Lines 51-61. *)
PrintLine ==
  /\ output[turn] # << >>
  /\ LET line == Head(output[turn]) IN
       /\ shown' = [shown EXCEPT ![turn] = line.total]
       /\ added' = [added EXCEPT ![turn] = @ + line.delta]
  /\ output' = [output EXCEPT ![turn] = Tail(@)]
  /\ turn' = Other(turn)
  /\ UNCHANGED <<passed, total, observerVars, done>>

Observe(o) == Return(o) \/ Load(o) \/ Report(o)

Next ==
  \/ \E o \in Observer : \/ \E n \in Passing : Pass(o, n)
                         \/ Close(o)
                         \/ Observe(o)
  \/ PrintLine

Spec == Init /\ [][Next]_vars

(* Both observers and the print loop are goroutines that run while they    *)
(* can (reader.go:35, writer.go:35, main.go:47).                           *)
FairSpec ==
  /\ Spec
  /\ \A o \in Observer : WF_vars(Observe(o))
  /\ WF_vars(PrintLine)

-----------------------------------------------------------------------------
(* The deltas that are printed add up to the total printed with them: no   *)
(* byte is shown twice or left out, though bytes pass between the loading  *)
(* of the total and the moment it is remembered, however long the report   *)
(* is held up (reader.go:41-48).  When the counter wraps a delta is shown  *)
(* as 0 (line 46); even then no more is shown than has passed.             *)
ReportsAddUp ==
  \A o \in Observer :
    /\ added[o] <= passed[o]
    /\ passed[o] < Width => added[o] = shown[o]

(* Each report reaches the terminal: what has passed is shown in the end,  *)
(* though one goroutine serves both channels and a full one holds its      *)
(* observer up.  (As long as neither is closed: the print loop waits for   *)
(* the closed one for ever.)                                               *)
TrafficIsShown == []<>(done # {} \/ shown = total)

(* An observer that is closed ends even if that finds it in a report; the  *)
(* print loop comes round to it as long as the other one goes on.  (When   *)
(* both are closed it may be held in its report for ever.)                 *)
ClosedEnds ==
  \A o \in Observer : []<>(done = {o} => pc[o] = "returned")
=============================================================================
