--------------------------- MODULE ObserversProofs ---------------------------
(***************************************************************************)
(* The deltas a client prints add up, for every size of the channels, of   *)
(* the counters and of what passes at once (ReportsAddUp).                 *)
(*                                                                         *)
(* An observer knows its totals only modulo Width.  The invariant speaks   *)
(* of the numbers behind them: how many bytes had passed at the report     *)
(* before (before) and when the total was last loaded (now).  The lines    *)
(* that wait in the channel lead from what was printed to what had passed  *)
(* before, line by line, exactly as long as the counter has not wrapped    *)
(* and with something left out when it has (LeadTo).                       *)
(***************************************************************************)
EXTENDS Observers, DataLemmas

Counts == 0 .. Width - 1

TypeOK ==
  /\ passed \in [Observer -> Nat]
  /\ total \in [Observer -> Counts]
  /\ totalBefore \in [Observer -> Counts]
  /\ pc \in [Observer -> {"select", "report", "returned"}]
  /\ loaded \in [Observer -> Counts]
  /\ output \in [Observer -> Seq([total : Counts, delta : Nat])]
  /\ turn \in Observer
  /\ shown \in [Observer -> Counts]
  /\ added \in [Observer -> Nat]

(* sum are the sums of deltas after each of the lines, of an observer that *)
(* has printed deltas that add up to from and, last, the total last.       *)
LeadTo(sum, lines, from, last, before, exact) ==
  /\ sum \in [0 .. Len(lines) -> Nat]
  /\ sum[0] = from
  /\ \A i \in 1 .. Len(lines) : sum[i] = sum[i - 1] + lines[i].delta
  /\ sum[Len(lines)] <= before
  /\ exact => /\ sum[0] = last
              /\ \A i \in 1 .. Len(lines) : sum[i] = lines[i].total
              /\ sum[Len(lines)] = before

AddsUp(o) ==
  \E before, now \in Nat :
    /\ before <= now /\ now <= passed[o]
    /\ before % Width = totalBefore[o]
    /\ pc[o] = "report" => now % Width = loaded[o]
    /\ \E sum : LeadTo(sum, output[o], added[o], shown[o], before,
                       passed[o] < Width)

Counted == \A o \in Observer : total[o] = passed[o] % Width

IInv ==
  /\ TypeOK
  /\ Counted
  /\ \A o \in Observer : AddsUp(o)

-----------------------------------------------------------------------------
(* The counter. *)

LEMMA Constants ==
  /\ Width \in Nat \ {0} /\ Passing \subseteq Nat \ {0}
  /\ \A a \in Nat : a % Width \in Counts
<1>1. Width \in Nat \ {0} /\ Passing \subseteq Nat \ {0}
  BY ObserversAssumption
<1> QED
  BY <1>1, DivMod DEF Counts

LEMMA NotWrapped ==
  ASSUME NEW a \in Nat, NEW w \in Nat \ {0}, a < w
  PROVE  a % w = a
<1>1. a \in 0 .. w - 1 /\ a = w * 0 + a
  OBVIOUS
<1> QED
  BY <1>1, RemainderIs

LEMMA CountedOn ==
  ASSUME NEW a \in Nat, NEW n \in Nat, NEW w \in Nat \ {0}
  PROVE  ((a % w) + n) % w = (a + n) % w
<1> DEFINE p == a \div w
           r == a % w
<1>1. a = w * p + r /\ p \in Nat /\ r \in 0 .. w - 1
  BY DivMod
<1> HIDE DEF p, r
<1> DEFINE q == (r + n) \div w
           t == (r + n) % w
<1>2. r + n = w * q + t /\ q \in Nat /\ t \in 0 .. w - 1
  <2>1. r + n \in Nat
    BY <1>1
  <2> QED
    BY <2>1, DivMod
<1>3. t = (r + n) % w
  OBVIOUS
<1> HIDE DEF q, t
<1>4. a + n = w * (p + q) + t
  BY <1>1, <1>2
<1>5. (a + n) % w = t
  <2>1. p + q \in Nat /\ a + n \in Nat
    BY <1>1, <1>2
  <2> QED
    BY <1>2, <1>4, <2>1, RemainderIs
<1> QED
  BY <1>3, <1>5 DEF r

(* What is taken for the bytes between two loads is never more than them.  *)
LEMMA DeltaBounded ==
  ASSUME NEW a \in Nat, NEW b \in Nat, NEW w \in Nat \ {0}, a <= b,
         NEW r, NEW t, a % w = r, b % w = t
  PROVE  t - r <= b - a
<1> DEFINE p == a \div w
           q == b \div w
<1>1. /\ a = w * p + r /\ b = w * q + t
      /\ p \in Nat /\ q \in Nat /\ r \in 0 .. w - 1 /\ t \in 0 .. w - 1
  BY DivMod
<1> HIDE DEF p, q
<1>2. w * p \in Nat /\ w * q \in Nat
  BY <1>1
<1>3. ~ (p > q)
  BY <1>1, <1>2, MultiplesApart
<1>4. w * q >= w * p
  <2>1. CASE p = q
    BY <1>2, <2>1
  <2>2. CASE q > p
    BY <1>1, <1>2, <2>2, MultiplesApart
  <2> QED
    BY <1>1, <1>3, <2>1, <2>2
<1> QED
  BY <1>1, <1>2, <1>4

-----------------------------------------------------------------------------
(* The lines in a channel. *)

(* The sums grow along the lines. *)
LEMMA SumsGrow ==
  ASSUME NEW lines \in Seq([total : Counts, delta : Nat]),
         NEW from \in Nat, NEW last, NEW before \in Nat, NEW exact,
         NEW sum, LeadTo(sum, lines, from, last, before, exact)
  PROVE  from <= before
<1> DEFINE n == Len(lines)
           S == {i \in Nat : i <= n => sum[i] >= from}
<1>1. n \in Nat /\ \A i \in 1 .. n : lines[i].delta \in Nat
  <2>1. ASSUME NEW T, NEW seq \in Seq(T)
        PROVE  Len(seq) \in Nat /\ \A i \in 1 .. Len(seq) : seq[i] \in T
    OBVIOUS
  <2>2. n \in Nat /\ \A i \in 1 .. n : lines[i] \in [total : Counts, delta : Nat]
    BY <2>1
  <2> QED
    BY <2>2
<1>2. /\ sum \in [0 .. n -> Nat] /\ sum[0] = from
      /\ \A i \in 1 .. n : sum[i] = sum[i - 1] + lines[i].delta
      /\ sum[n] <= before
  BY DEF LeadTo
<1> HIDE DEF n
<1>3. 0 \in S
  BY <1>1, <1>2
<1>4. ASSUME NEW i \in Nat, i \in S PROVE i + 1 \in S
  <2> SUFFICES ASSUME i + 1 <= n PROVE sum[i + 1] >= from
    OBVIOUS
  <2>1. /\ i \in 0 .. n /\ i + 1 \in 0 .. n /\ i + 1 \in 1 .. n
        /\ (i + 1) - 1 = i
    BY <1>1
  <2>2. sum[i + 1] = sum[i] + lines[i + 1].delta
    BY <1>2, <2>1
  <2>3. sum[i] \in Nat /\ lines[i + 1].delta \in Nat /\ sum[i] >= from
    BY <1>1, <1>2, <1>4, <2>1
  <2> QED
    BY <2>2, <2>3
<1>5. Nat \subseteq S
  <2> HIDE DEF S
  <2> QED
    BY <1>3, <1>4, Induction
<1> QED
  BY <1>1, <1>2, <1>5

LEMMA LineIsAdded ==
  ASSUME NEW lines \in Seq([total : Counts, delta : Nat]),
         NEW line \in [total : Counts, delta : Nat],
         NEW from, NEW last, NEW before \in Nat, NEW now \in Nat,
         NEW exact \in BOOLEAN,
         NEW sum, LeadTo(sum, lines, from, last, before, exact),
         before + line.delta <= now,
         exact => line.total = now /\ before + line.delta = now
  PROVE  \E longer :
           LeadTo(longer, Append(lines, line), from, last, now, exact)
<1> DEFINE n == Len(lines)
           more == Append(lines, line)
           longer == [i \in 0 .. n + 1 |->
                        IF i = n + 1 THEN sum[n] + line.delta ELSE sum[i]]
<1>1. n \in Nat /\ line.delta \in Nat
  OBVIOUS
<1>2. /\ Len(more) = n + 1 /\ more[n + 1] = line
      /\ \A i \in 1 .. n : more[i] = lines[i]
  OBVIOUS
<1>3. /\ sum \in [0 .. n -> Nat] /\ sum[0] = from
      /\ \A i \in 1 .. n : sum[i] = sum[i - 1] + lines[i].delta
      /\ sum[n] <= before
      /\ exact => /\ sum[0] = last
                  /\ \A i \in 1 .. n : sum[i] = lines[i].total
                  /\ sum[n] = before
  BY DEF LeadTo
<1>4. sum[n] \in Nat
  BY <1>1, <1>3
<1> HIDE DEF n, more
<1>5. longer \in [0 .. n + 1 -> Nat]
  BY <1>1, <1>3, <1>4
<1>6. /\ longer[n + 1] = sum[n] + line.delta
      /\ \A i \in 0 .. n : longer[i] = sum[i]
  BY <1>1
<1> HIDE DEF longer
<1>7. longer[0] = from
  BY <1>1, <1>3, <1>6
<1>8. \A i \in 1 .. n + 1 : longer[i] = longer[i - 1] + more[i].delta
  <2> SUFFICES ASSUME NEW i \in 1 .. n + 1
               PROVE  longer[i] = longer[i - 1] + more[i].delta
    OBVIOUS
  <2>1. CASE i = n + 1
    <3>1. longer[n] = sum[n] /\ i - 1 = n
      BY <1>1, <1>6, <2>1
    <3> QED
      BY <1>2, <1>6, <2>1, <3>1
  <2>2. CASE i # n + 1
    <3>1. i \in 1 .. n /\ i \in 0 .. n /\ i - 1 \in 0 .. n
      BY <1>1, <2>2
    <3> QED
      BY <1>2, <1>3, <1>6, <3>1
  <2> QED
    BY <2>1, <2>2
<1>9. longer[n + 1] <= now
  BY <1>1, <1>3, <1>4, <1>6
<1>10. ASSUME exact
       PROVE  /\ longer[0] = last
              /\ \A i \in 1 .. n + 1 : longer[i] = more[i].total
              /\ longer[n + 1] = now
  <2>1. longer[0] = last
    BY <1>3, <1>7, <1>10
  <2>2. longer[n + 1] = now /\ more[n + 1].total = now
    BY <1>2, <1>3, <1>6, <1>10
  <2>3. ASSUME NEW i \in 1 .. n + 1 PROVE longer[i] = more[i].total
    <3>1. CASE i = n + 1
      BY <2>2, <3>1
    <3>2. CASE i # n + 1
      <4>1. i \in 1 .. n /\ i \in 0 .. n
        BY <1>1, <3>2
      <4> QED
        BY <1>2, <1>3, <1>6, <1>10, <4>1
    <3> QED
      BY <3>1, <3>2
  <2> QED
    BY <2>1, <2>2, <2>3
<1>11. LeadTo(longer, more, from, last, now, exact)
  BY <1>2, <1>5, <1>7, <1>8, <1>9, <1>10 DEF LeadTo
<1> QED
  BY <1>11 DEF more

LEMMA LineIsTaken ==
  ASSUME NEW lines \in Seq([total : Counts, delta : Nat]), lines # << >>,
         NEW from \in Nat, NEW last, NEW before \in Nat,
         NEW exact \in BOOLEAN,
         NEW sum, LeadTo(sum, lines, from, last, before, exact)
  PROVE  \E shorter :
           LeadTo(shorter, Tail(lines), from + Head(lines).delta,
                  Head(lines).total, before, exact)
<1> DEFINE n == Len(lines)
           rest == Tail(lines)
           shorter == [i \in 0 .. n - 1 |-> sum[i + 1]]
<1>1. /\ n \in Nat \ {0} /\ Len(rest) = n - 1 /\ Head(lines) = lines[1]
      /\ \A i \in 1 .. n - 1 : rest[i] = lines[i + 1]
  OBVIOUS
<1>2. /\ sum \in [0 .. n -> Nat] /\ sum[0] = from
      /\ \A i \in 1 .. n : sum[i] = sum[i - 1] + lines[i].delta
      /\ sum[n] <= before
      /\ exact => /\ \A i \in 1 .. n : sum[i] = lines[i].total
                  /\ sum[n] = before
  BY DEF LeadTo
<1> HIDE DEF n, rest
<1>3. \A i \in 0 .. n - 1 : i + 1 \in 0 .. n
  BY <1>1
<1>4. shorter \in [0 .. n - 1 -> Nat]
  BY <1>2, <1>3
<1>5. \A i \in 0 .. n - 1 : shorter[i] = sum[i + 1]
  OBVIOUS
<1> HIDE DEF shorter
<1>6. shorter[0] = sum[1] /\ shorter[n - 1] = sum[n]
  <2>1. 0 \in 0 .. n - 1 /\ n - 1 \in 0 .. n - 1 /\ 0 + 1 = 1
        /\ (n - 1) + 1 = n
    BY <1>1
  <2>2. shorter[0] = sum[0 + 1] /\ shorter[n - 1] = sum[(n - 1) + 1]
    BY <1>5, <2>1
  <2> QED
    BY <2>1, <2>2
<1>7. shorter[0] = from + Head(lines).delta
  <2>1. 1 \in 1 .. n /\ 1 - 1 = 0
    BY <1>1
  <2>2. sum[1] = sum[1 - 1] + lines[1].delta
    BY <1>2, <2>1
  <2> QED
    BY <1>1, <1>2, <1>6, <2>1, <2>2
<1>8. \A i \in 1 .. n - 1 : shorter[i] = shorter[i - 1] + rest[i].delta
  <2> SUFFICES ASSUME NEW i \in 1 .. n - 1
               PROVE  shorter[i] = shorter[i - 1] + rest[i].delta
    OBVIOUS
  <2>1. /\ i + 1 \in 1 .. n /\ (i + 1) - 1 = i /\ (i - 1) + 1 = i
        /\ i \in 0 .. n - 1 /\ i - 1 \in 0 .. n - 1
    BY <1>1
  <2>2. sum[i + 1] = sum[(i + 1) - 1] + lines[i + 1].delta
    BY <1>2, <2>1
  <2>3. shorter[i] = sum[i + 1] /\ shorter[i - 1] = sum[(i - 1) + 1]
    BY <1>5, <2>1
  <2> QED
    BY <1>1, <2>1, <2>2, <2>3
<1>9. ASSUME exact
      PROVE  /\ shorter[0] = Head(lines).total
             /\ \A i \in 1 .. n - 1 : shorter[i] = rest[i].total
             /\ shorter[n - 1] = before
  <2>1. 1 \in 1 .. n
    BY <1>1
  <2>2. shorter[0] = Head(lines).total
    BY <1>1, <1>2, <1>6, <1>9, <2>1
  <2>3. ASSUME NEW i \in 1 .. n - 1 PROVE shorter[i] = rest[i].total
    <3>1. i + 1 \in 1 .. n /\ i \in 0 .. n - 1
      BY <1>1
    <3> QED
      BY <1>1, <1>2, <1>5, <1>9, <3>1
  <2> QED
    BY <1>2, <1>6, <1>9, <2>2, <2>3
<1>10. LeadTo(shorter, rest, from + Head(lines).delta, Head(lines).total,
              before, exact)
  BY <1>1, <1>2, <1>4, <1>6, <1>7, <1>8, <1>9 DEF LeadTo
<1> QED
  BY <1>10 DEF rest

-----------------------------------------------------------------------------
(* The steps. *)

LEMMA InitIInv == Init => IInv
<1> SUFFICES ASSUME Init PROVE IInv
  OBVIOUS
<1>1. Width \in Nat \ {0} /\ 0 \in Counts /\ 0 % Width = 0
  BY Constants, NotWrapped DEF Counts
<1>2. TypeOK
  BY <1>1 DEF Init, Zero, TypeOK, Observer
<1>3. Counted
  BY <1>1 DEF Init, Zero, Counted
<1>4. ASSUME NEW o \in Observer PROVE AddsUp(o)
  <2>1. /\ passed[o] = 0 /\ totalBefore[o] = 0 /\ pc[o] = "select"
        /\ output[o] = << >> /\ added[o] = 0 /\ shown[o] = 0
    BY <1>4 DEF Init, Zero
  <2> DEFINE sum == [i \in 0 .. 0 |-> 0]
  <2>2. LeadTo(sum, << >>, 0, 0, 0, 0 < Width)
    BY DEF LeadTo
  <2> QED
    BY <1>1, <2>1, <2>2 DEF AddsUp
<1> QED
  BY <1>2, <1>3, <1>4 DEF IInv

(* A step that touches neither the channel nor what was remembered, and    *)
(* under which no more than before is said of the loaded total.            *)
LEMMA AddsUpStays ==
  ASSUME IInv, NEW o \in Observer, passed'[o] \in Nat,
         passed'[o] >= passed[o], totalBefore'[o] = totalBefore[o],
         output'[o] = output[o], added'[o] = added[o], shown'[o] = shown[o],
         pc'[o] = "report" => pc[o] = "report" /\ loaded'[o] = loaded[o]
  PROVE  AddsUp(o)'
<1>1. AddsUp(o) /\ passed[o] \in Nat /\ Width \in Nat
  BY Constants DEF IInv, TypeOK
<1>2. PICK before \in Nat, now \in Nat :
        /\ before <= now /\ now <= passed[o]
        /\ before % Width = totalBefore[o]
        /\ pc[o] = "report" => now % Width = loaded[o]
        /\ \E sum : LeadTo(sum, output[o], added[o], shown[o], before,
                           passed[o] < Width)
  BY <1>1 DEF AddsUp
<1>3. PICK sum : LeadTo(sum, output[o], added[o], shown[o], before,
                        passed[o] < Width)
  BY <1>2
<1>4. passed'[o] < Width => passed[o] < Width
  BY <1>1
<1>5. LeadTo(sum, output'[o], added'[o], shown'[o], before,
             passed'[o] < Width)
  BY <1>3, <1>4 DEF LeadTo
<1>6. /\ before <= now /\ now <= passed'[o]
      /\ before % Width = totalBefore'[o]
      /\ pc'[o] = "report" => now % Width = loaded'[o]
  BY <1>1, <1>2
<1> QED
  BY <1>5, <1>6 DEF AddsUp

LEMMA PassKeeps ==
  ASSUME IInv, NEW o \in Observer, NEW n \in Passing, Pass(o, n)
  PROVE  IInv'
<1>1. /\ Width \in Nat \ {0} /\ n \in Nat /\ passed[o] \in Nat
      /\ \A a \in Nat : a % Width \in Counts
  BY Constants DEF IInv, TypeOK
<1>2. total[o] = passed[o] % Width /\ passed[o] % Width \in Nat
  BY <1>1 DEF IInv, Counted, Counts
<1>3. /\ passed' = [passed EXCEPT ![o] = passed[o] + n]
      /\ total' = [total EXCEPT ![o] = (total[o] + n) % Width]
  BY DEF Pass
<1>4. (total[o] + n) % Width = (passed[o] + n) % Width
  BY <1>1, <1>2, CountedOn
<1>5. passed[o] + n \in Nat /\ (passed[o] + n) % Width \in Counts
  BY <1>1, SMTT(30)
<1>6. TypeOK'
  <2>1. passed' \in [Observer -> Nat]
    BY <1>3, <1>5 DEF IInv, TypeOK
  <2>2. (total[o] + n) % Width \in Counts
    BY <1>4, <1>5
  <2>3. total' \in [Observer -> Counts]
    BY <1>3, <2>2 DEF IInv, TypeOK
  <2> QED
    BY <2>1, <2>3 DEF Pass, IInv, TypeOK, observerVars, printVars
<1>7. Counted'
  BY <1>3, <1>4 DEF IInv, TypeOK, Counted
<1>8. ASSUME NEW p \in Observer PROVE AddsUp(p)'
  <2>1. passed[p] \in Nat
    BY DEF IInv, TypeOK
  <2>2. passed'[p] = IF p = o THEN passed[p] + n ELSE passed[p]
    BY <1>3 DEF IInv, TypeOK
  <2>3. passed'[p] \in Nat /\ passed'[p] >= passed[p]
    BY <1>1, <2>1, <2>2
  <2> QED
    BY <2>1, <2>3, AddsUpStays DEF Pass, observerVars, printVars
<1> QED
  BY <1>6, <1>7, <1>8 DEF IInv

LEMMA CloseKeeps ==
  ASSUME IInv, NEW o \in Observer, Close(o)
  PROVE  IInv'
<1>1. TypeOK' /\ Counted'
  BY DEF Close, IInv, TypeOK, Counted, observerVars, printVars
<1>2. ASSUME NEW p \in Observer PROVE AddsUp(p)'
  <2>1. passed[p] \in Nat
    BY DEF IInv, TypeOK
  <2> QED
    BY <2>1, AddsUpStays DEF Close, observerVars, printVars
<1> QED
  BY <1>1, <1>2 DEF IInv

LEMMA ReturnKeeps ==
  ASSUME IInv, NEW o \in Observer, Return(o)
  PROVE  IInv'
<1>1. TypeOK' /\ Counted'
  BY DEF Return, IInv, TypeOK, Counted, printVars
<1>2. ASSUME NEW p \in Observer PROVE AddsUp(p)'
  <2>1. passed[p] \in Nat
    BY DEF IInv, TypeOK
  <2>2. pc'[p] = "report" => pc[p] = "report"
    BY DEF Return, IInv, TypeOK
  <2> QED
    BY <2>1, <2>2, AddsUpStays DEF Return, printVars
<1> QED
  BY <1>1, <1>2 DEF IInv

LEMMA LoadKeeps ==
  ASSUME IInv, NEW o \in Observer, Load(o)
  PROVE  IInv'
<1>1. /\ loaded' = [loaded EXCEPT ![o] = total[o]]
      /\ pc' = [pc EXCEPT ![o] = "report"]
      /\ UNCHANGED <<passed, total, totalBefore, done, output, printVars>>
  BY DEF Load
<1>2. TypeOK' /\ Counted'
  BY <1>1 DEF IInv, TypeOK, Counted, printVars
<1>3. ASSUME NEW p \in Observer PROVE AddsUp(p)'
  <2>1. passed[p] \in Nat
    BY DEF IInv, TypeOK
  <2>2. CASE p # o
    <3>1. pc'[p] = pc[p] /\ loaded'[p] = loaded[p]
      BY <1>1, <2>2 DEF IInv, TypeOK
    <3> QED
      BY <1>1, <2>1, <3>1, AddsUpStays DEF printVars
  <2>3. CASE p = o
    <3>1. PICK before \in Nat, now \in Nat :
            /\ before <= now /\ now <= passed[o]
            /\ before % Width = totalBefore[o]
            /\ \E sum : LeadTo(sum, output[o], added[o], shown[o], before,
                               passed[o] < Width)
      BY DEF IInv, AddsUp
    <3>2. loaded'[o] = passed[o] % Width
      BY <1>1 DEF IInv, TypeOK, Counted
    <3>3. before <= passed[o]
      BY <2>1, <2>3, <3>1
    <3> QED
      BY <1>1, <2>1, <2>3, <3>1, <3>2, <3>3 DEF AddsUp, printVars
  <2> QED
    BY <2>2, <2>3
<1> QED
  BY <1>2, <1>3 DEF IInv

(* The report is the step the property is about: what is remembered is     *)
(* what was reported, and no more than what has passed since.              *)
LEMMA ReportKeeps ==
  ASSUME IInv, NEW o \in Observer, Report(o)
  PROVE  IInv'
<1> DEFINE line == [total |-> loaded[o], delta |-> Delta(o)]
<1>1. /\ pc[o] = "report"
      /\ output' = [output EXCEPT ![o] = Append(output[o], line)]
      /\ totalBefore' = [totalBefore EXCEPT ![o] = loaded[o]]
      /\ pc' = [pc EXCEPT ![o] = "select"]
      /\ UNCHANGED <<passed, total, loaded, done, printVars>>
  BY DEF Report
<1>2. /\ loaded[o] \in Nat /\ totalBefore[o] \in Nat
      /\ loaded[o] \in Counts
      /\ output[o] \in Seq([total : Counts, delta : Nat])
      /\ passed[o] \in Nat /\ Width \in Nat \ {0}
  <2>1. /\ loaded[o] \in Counts /\ totalBefore[o] \in Counts
        /\ output[o] \in Seq([total : Counts, delta : Nat])
        /\ passed[o] \in Nat
    BY DEF IInv, TypeOK
  <2>2. Width \in Nat \ {0}
    BY Constants
  <2>3. loaded[o] \in Nat /\ totalBefore[o] \in Nat
    BY <2>1, <2>2 DEF Counts
  <2> QED
    BY <2>1, <2>2, <2>3
<1>3. Delta(o) \in Nat /\ line \in [total : Counts, delta : Nat]
  BY <1>2 DEF Delta
<1>4. TypeOK' /\ Counted'
  <2>1. Append(output[o], line) \in Seq([total : Counts, delta : Nat])
    BY <1>2, <1>3
  <2> HIDE DEF line
  <2> QED
    BY <1>1, <1>2, <2>1 DEF IInv, TypeOK, Counted, printVars
<1>5. AddsUp(o)'
  <2>1. PICK before \in Nat, now \in Nat :
          /\ before <= now /\ now <= passed[o]
          /\ before % Width = totalBefore[o]
          /\ pc[o] = "report" => now % Width = loaded[o]
          /\ \E sum : LeadTo(sum, output[o], added[o], shown[o], before,
                             passed[o] < Width)
    BY DEF IInv, AddsUp
  <2>2. now % Width = loaded[o]
    BY <1>1, <2>1
  <2>3. before + Delta(o) <= now
    <3>1. loaded[o] - totalBefore[o] <= now - before
      BY <1>2, <2>1, <2>2, DeltaBounded
    <3>2. before <= now
      BY <2>1
    <3> QED
      BY <1>2, <3>1, <3>2 DEF Delta
  <2>4. ASSUME passed[o] < Width
        PROVE  loaded[o] = now /\ before + Delta(o) = now
    <3>1. now < Width /\ before < Width
      BY <1>2, <2>1, <2>4
    <3>2. now % Width = now /\ before % Width = before
      BY <1>2, <3>1, NotWrapped
    <3>3. loaded[o] = now /\ totalBefore[o] = before
      BY <2>1, <2>2, <3>2
    <3>4. before <= now
      BY <2>1
    <3> QED
      BY <3>3, <3>4 DEF Delta
  <2>5. PICK longer : LeadTo(longer, Append(output[o], line), added[o],
                             shown[o], now, passed[o] < Width)
    <3>1. PICK sum : LeadTo(sum, output[o], added[o], shown[o], before,
                            passed[o] < Width)
      BY <2>1
    <3>2. before + line.delta <= now
      BY <2>3
    <3> DEFINE exact == passed[o] < Width
    <3>3. exact => line.total = now /\ before + line.delta = now
      BY <2>4
    <3>4. exact \in BOOLEAN
      OBVIOUS
    <3>5. LeadTo(sum, output[o], added[o], shown[o], before, exact)
      BY <3>1
    <3>6. output[o] \in Seq([total : Counts, delta : Nat])
      BY <1>2
    <3> HIDE DEF line, exact
    <3>7. \E longer : LeadTo(longer, Append(output[o], line), added[o],
                             shown[o], now, exact)
      BY <1>3, <3>2, <3>3, <3>4, <3>5, <3>6, LineIsAdded
    <3> QED
      BY <3>7 DEF exact
  <2>6. /\ output'[o] = Append(output[o], line)
        /\ totalBefore'[o] = loaded[o] /\ pc'[o] = "select"
    BY <1>1 DEF IInv, TypeOK
  <2> HIDE DEF line
  <2> QED
    BY <1>1, <1>2, <2>1, <2>2, <2>5, <2>6 DEF AddsUp, printVars
<1>6. ASSUME NEW p \in Observer, p # o PROVE AddsUp(p)'
  <2>1. /\ output'[p] = output[p] /\ totalBefore'[p] = totalBefore[p]
        /\ pc'[p] = pc[p] /\ passed[p] \in Nat
    BY <1>1, <1>6 DEF IInv, TypeOK
  <2> QED
    BY <1>1, <2>1, AddsUpStays DEF printVars
<1> QED
  BY <1>4, <1>5, <1>6 DEF IInv

LEMMA PrintLineKeeps ==
  ASSUME IInv, PrintLine, NEW o \in Observer, o = turn
  PROVE  IInv'
<1> DEFINE line == Head(output[o])
<1>1. /\ output[o] # << >>
      /\ shown' = [shown EXCEPT ![o] = line.total]
      /\ added' = [added EXCEPT ![o] = added[o] + line.delta]
      /\ output' = [output EXCEPT ![o] = Tail(output[o])]
      /\ turn' = Other(o)
      /\ UNCHANGED <<passed, total, observerVars, done>>
  BY DEF PrintLine, IInv, TypeOK
<1>2. /\ output[o] \in Seq([total : Counts, delta : Nat])
      /\ added[o] \in Nat
  BY DEF IInv, TypeOK
<1>3. /\ line \in [total : Counts, delta : Nat]
      /\ Tail(output[o]) \in Seq([total : Counts, delta : Nat])
  <2>1. ASSUME NEW T, NEW lines \in Seq(T), lines # << >>
        PROVE  Head(lines) \in T /\ Tail(lines) \in Seq(T)
    BY <2>1
  <2> QED
    BY <1>1, <1>2, <2>1
<1>4. line.total \in Counts /\ added[o] + line.delta \in Nat
  BY <1>2, <1>3
<1>5. TypeOK' /\ Counted'
  <2>1. turn' \in Observer
    BY <1>1 DEF Other, Observer
  <2> HIDE DEF line
  <2> QED
    BY <1>1, <1>3, <1>4, <2>1 DEF IInv, TypeOK, Counted, observerVars
<1>6. AddsUp(o)'
  <2>1. PICK before \in Nat, now \in Nat :
          /\ before <= now /\ now <= passed[o]
          /\ before % Width = totalBefore[o]
          /\ pc[o] = "report" => now % Width = loaded[o]
          /\ \E sum : LeadTo(sum, output[o], added[o], shown[o], before,
                             passed[o] < Width)
    BY DEF IInv, AddsUp
  <2>2. PICK shorter : LeadTo(shorter, Tail(output[o]),
                              added[o] + line.delta, line.total, before,
                              passed[o] < Width)
    <3> DEFINE exact == passed[o] < Width
    <3>1. exact \in BOOLEAN
      OBVIOUS
    <3>2. PICK sum : LeadTo(sum, output[o], added[o], shown[o], before,
                            exact)
      BY <2>1
    <3> HIDE DEF exact
    <3>3. \E shorter : LeadTo(shorter, Tail(output[o]),
                              added[o] + line.delta, line.total, before,
                              exact)
      BY <1>1, <1>2, <3>1, <3>2, LineIsTaken
    <3> QED
      BY <3>3 DEF exact
  <2>3. /\ shown'[o] = line.total /\ added'[o] = added[o] + line.delta
        /\ output'[o] = Tail(output[o])
    BY <1>1 DEF IInv, TypeOK
  <2> HIDE DEF line
  <2>4. LeadTo(shorter, output'[o], added'[o], shown'[o], before,
               passed'[o] < Width)
    BY <1>1, <2>2, <2>3
  <2> QED
    BY <1>1, <2>1, <2>4 DEF AddsUp, observerVars
<1>7. ASSUME NEW p \in Observer, p # o PROVE AddsUp(p)'
  <2>1. /\ output'[p] = output[p] /\ shown'[p] = shown[p]
        /\ added'[p] = added[p] /\ passed[p] \in Nat
    BY <1>1, <1>7 DEF IInv, TypeOK
  <2> QED
    BY <1>1, <2>1, AddsUpStays DEF observerVars
<1> QED
  BY <1>5, <1>6, <1>7 DEF IInv

LEMMA NextKeepsIInv == IInv /\ [Next]_vars => IInv'
<1> SUFFICES ASSUME IInv, [Next]_vars PROVE IInv'
  OBVIOUS
<1>1. CASE UNCHANGED vars
  BY <1>1
     DEF vars, observerVars, printVars, IInv, TypeOK, Counted, AddsUp
<1>2. turn \in Observer
  BY DEF IInv, TypeOK
<1> QED
  BY <1>1, <1>2, PassKeeps, CloseKeeps, ReturnKeeps, LoadKeeps, ReportKeeps,
     PrintLineKeeps DEF Next, Observe

-----------------------------------------------------------------------------
(* The inductive invariant of the observers and the print loop. *)
THEOREM Invariance == Spec => []IInv
BY InitIInv, NextKeepsIInv, PTL DEF Spec

(* However long a report is held up and however much passes meanwhile, the *)
(* printed deltas add up to the printed total, and, when the counter has   *)
(* wrapped, to no more than has passed (reader.go:37-62, writer.go:37-62,  *)
(* reporter.go:20, main.go:47-63).                                         *)
THEOREM DeltasAddUp == Spec => []ReportsAddUp
<1>1. IInv => ReportsAddUp
  <2> SUFFICES ASSUME IInv, NEW o \in Observer
               PROVE  /\ added[o] <= passed[o]
                      /\ passed[o] < Width => added[o] = shown[o]
    BY DEF ReportsAddUp
  <2>1. PICK before \in Nat, now \in Nat :
          /\ before <= now /\ now <= passed[o]
          /\ \E sum : LeadTo(sum, output[o], added[o], shown[o], before,
                             passed[o] < Width)
    BY DEF IInv, AddsUp
  <2>2. PICK sum : LeadTo(sum, output[o], added[o], shown[o], before,
                          passed[o] < Width)
    BY <2>1
  <2>3. added[o] <= before
    BY <2>2, SumsGrow DEF IInv, TypeOK
  <2> QED
    BY <2>1, <2>2, <2>3 DEF IInv, TypeOK, LeadTo
<1> QED
  BY <1>1, Invariance, PTL
=============================================================================
