------------------------------ MODULE DataLemmas ------------------------------
(***************************************************************************)
(* Facts about numbers and sequences that the proofs of several components *)
(* rest on.                                                                *)
(*                                                                         *)
(* Remainders: csn % size of the dispatcher's ring (decoder.go:122, 156),  *)
(* the flat index (csn * total + psn) % (lines * total) of the assembler   *)
(* (decoder.go:252-258), the places of the interleaver (encoder.go:109).   *)
(*                                                                         *)
(* Induction over the natural numbers, stated with a set in place of a     *)
(* predicate: a strict subset ordering of finite sets is well founded, so  *)
(* every set of numbers that is not empty has a least element.  With it    *)
(* what FlattenSeq, which is defined by recursion, does to a sequence that *)
(* grows at its end or shrinks at its front.                               *)
(***************************************************************************)
EXTENDS Integers, Sequences, SequencesExt, FiniteSetTheorems,
        SequenceTheorems, TLAPS

(* Division and remainder. *)
LEMMA DivMod ==
  ASSUME NEW a \in Nat, NEW n \in Nat \ {0}
  PROVE  /\ a = n * (a \div n) + (a % n)
         /\ a \div n \in Nat
         /\ a % n \in 0 .. n - 1
<1>1. a = n * (a \div n) + (a % n)
  OBVIOUS
<1>2. a % n \in 0 .. n - 1
  OBVIOUS
<1>3. a \div n \in Int
  OBVIOUS
<1>4. a \div n >= 0
  BY <1>1, <1>2, <1>3
<1> QED
  BY <1>1, <1>2, <1>3, <1>4

(* Different multiples of n are at least n apart. *)
LEMMA MultiplesApart ==
  ASSUME NEW n \in Nat, NEW p \in Nat, NEW q \in Nat, p > q
  PROVE  n * p >= n * q + n
<1>1. n * (p - (q + 1)) >= 0
  OBVIOUS
<1> QED
  BY <1>1

(* Quotient and remainder are determined by their number. *)
LEMMA QuotientUnique ==
  ASSUME NEW n \in Nat, NEW p \in Nat, NEW q \in Nat,
         NEW i \in 0 .. n - 1, NEW j \in 0 .. n - 1, n * p + i = n * q + j
  PROVE  p = q /\ i = j
<1>1. n * p \in Nat /\ n * q \in Nat
  OBVIOUS
<1>2. ~ (p > q)
  BY <1>1, MultiplesApart
<1>3. ~ (q > p)
  BY <1>1, MultiplesApart
<1>4. p = q
  BY <1>2, <1>3
<1> QED
  BY <1>1, <1>4

(* Numbers less than n apart are told apart by their remainder: two chunks *)
(* within one window of the ring never share a slot.                       *)
LEMMA RemainderTellsApart ==
  ASSUME NEW a \in Nat, NEW b \in Nat, NEW n \in Nat \ {0},
         a % n = b % n, a - b < n, b - a < n
  PROVE  a = b
<1> DEFINE p == a \div n
           q == b \div n
           r == a % n
<1>1. /\ a = n * p + r /\ b = n * q + r
      /\ p \in Nat /\ q \in Nat /\ r \in 0 .. n - 1
  BY DivMod
<1> HIDE DEF p, q, r
<1>2. CASE p > q
  BY <1>1, <1>2, MultiplesApart
<1>3. CASE q > p
  BY <1>1, <1>3, MultiplesApart
<1> QED
  BY <1>1, <1>2, <1>3

(* Quotient and remainder are unique. *)
LEMMA RemainderIs ==
  ASSUME NEW a \in Nat, NEW n \in Nat \ {0}, NEW q \in Nat,
         NEW r \in 0 .. n - 1, a = n * q + r
  PROVE  a % n = r
<1> DEFINE p == a \div n
           s == a % n
<1>1. a = n * p + s /\ p \in Nat /\ s \in 0 .. n - 1
  BY DivMod
<1>2. s = a % n
  OBVIOUS
<1> HIDE DEF p, s
<1>3. n * p \in Int /\ n * q \in Int
  BY <1>1
<1>4. ~ (p > q)
  BY <1>1, <1>3, MultiplesApart
<1>5. ~ (q > p)
  BY <1>1, <1>3, MultiplesApart
<1>6. p = q
  BY <1>1, <1>4, <1>5
<1>7. s = r
  BY <1>1, <1>6
<1> QED
  BY <1>2, <1>7

(* The flat index of place i of line c, in a table of l lines of t places, *)
(* is place i of the line that c selects.                                  *)
LEMMA FlatIndex ==
  ASSUME NEW c \in Nat, NEW l \in Nat \ {0}, NEW t \in Nat \ {0},
         NEW i \in 0 .. t - 1
  PROVE  (c * t + i) % (l * t) = (c % l) * t + i
<1> DEFINE q == c \div l
           r == c % l
<1>1. c = l * q + r /\ q \in Nat /\ r \in 0 .. l - 1
  BY DivMod
<1>2. r = c % l
  OBVIOUS
<1> HIDE DEF q, r
<1>3. c * t + i = (l * t) * q + (r * t + i)
  <2>1. c * t = (l * q + r) * t
    BY <1>1
  <2>2. (l * q + r) * t = (l * t) * q + r * t
    BY <1>1
  <2> QED
    BY <2>1, <2>2, <1>1
<1>4. t * l >= t * r + t
  BY <1>1, MultiplesApart
<1>5. r * t + i \in 0 .. (l * t) - 1
  <2>1. r * t \in Nat /\ l * t \in Nat /\ t * l = l * t /\ t * r = r * t
    BY <1>1
  <2> QED
    BY <2>1, <1>4
<1>6. l * t \in Nat \ {0} /\ c * t + i \in Nat
  BY <1>4, <1>1
<1>7. (c * t + i) % (l * t) = r * t + i
  BY <1>1, <1>3, <1>5, <1>6, RemainderIs
<1> QED
  BY <1>2, <1>7

-----------------------------------------------------------------------------
(* Induction. *)

LEMMA LeastElement ==
  ASSUME NEW S \in SUBSET Nat, S # {}
  PROVE  \E n \in S : \A m \in S : n <= m
<1> DEFINE R == StrictSubsetOrdering(Nat)
           T == {1 .. n : n \in S}
<1>1. IsWellFoundedOn(R, FiniteSubsetsOf(Nat))
  BY FS_StrictSubsetOrderingWellFounded
<1>2. T \subseteq FiniteSubsetsOf(Nat) /\ T # {}
  <2>1. ASSUME NEW n \in S PROVE 1 .. n \in FiniteSubsetsOf(Nat)
    <3>1. IsFiniteSet(1 .. n)
      BY FS_Interval
    <3> QED
      BY <3>1 DEF FiniteSubsetsOf
  <2> QED
    BY <2>1
<1>3. \E x \in T : \A y \in T : <<y, x>> \notin R
  <2> HIDE DEF T, R
  <2> QED
    BY <1>1, <1>2, WFMin
<1>4. PICK n \in S : \A m \in S : <<1 .. m, 1 .. n>> \notin R
  BY <1>3
<1>5. ASSUME NEW m \in S, m < n PROVE FALSE
  <2>1. 1 .. m \subseteq 1 .. n /\ n \in 1 .. n /\ n \notin 1 .. m
    BY <1>5
  <2>2. <<1 .. m, 1 .. n>> \in R
    BY <2>1 DEF StrictSubsetOrdering
  <2> QED
    BY <2>2, <1>4
<1> QED
  BY <1>5

LEMMA Induction ==
  ASSUME NEW S, 0 \in S, \A n \in Nat : n \in S => n + 1 \in S
  PROVE  Nat \subseteq S
<1> SUFFICES ASSUME ~ (Nat \subseteq S) PROVE FALSE
  OBVIOUS
<1>1. PICK n \in Nat \ S : \A m \in Nat \ S : n <= m
  <2>1. Nat \ S \in SUBSET Nat /\ Nat \ S # {}
    OBVIOUS
  <2> QED
    BY <2>1, LeastElement
<1>2. n # 0 /\ n - 1 \in Nat
  BY <1>1
<1>3. n - 1 \in S
  BY <1>1, <1>2
<1> QED
  BY <1>1, <1>2, <1>3

(* Induction up to a bound. *)
LEMMA InductionUpTo ==
  ASSUME NEW k \in Nat, NEW S, k # 0 => 1 \in S,
         ASSUME NEW n \in Nat \ {0}, n < k, n \in S PROVE n + 1 \in S
  PROVE  1 .. k \subseteq S
<1> DEFINE R == {n \in Nat : n + 1 <= k => n + 1 \in S}
<1>1. 0 \in R
  OBVIOUS
<1>2. ASSUME NEW n \in Nat, n \in R PROVE n + 1 \in R
  <2> SUFFICES ASSUME (n + 1) + 1 <= k PROVE (n + 1) + 1 \in S
    OBVIOUS
  <2>1. n + 1 \in Nat \ {0} /\ n + 1 < k /\ n + 1 \in S
    BY <1>2
  <2> QED
    BY <2>1
<1>3. Nat \subseteq R
  <2> HIDE DEF R
  <2> QED
    BY <1>1, <1>2, Induction
<1>4. ASSUME NEW i \in 1 .. k PROVE i \in S
  <2>1. i - 1 \in R /\ (i - 1) + 1 = i /\ i <= k
    BY <1>3
  <2> QED
    BY <2>1
<1> QED
  BY <1>4

-----------------------------------------------------------------------------
(* Flattening. *)

(* What the recursion of FlattenSeq computes step by step: element i is    *)
(* the concatenation of the first i sequences.                             *)
Concatenates(f, s) ==
  /\ f[1] = s[1]
  /\ \A i \in Nat \ {0} : i < Len(s) => f[i + 1] = f[i] \o s[i + 1]

LEMMA FlattenConcatenates ==
  ASSUME NEW s, Len(s) \in Nat, Len(s) # 0
  PROVE  \E f : Concatenates(f, s) /\ FlattenSeq(s) = f[Len(s)]
<1> DEFINE Step(g, i) == IF i = 1 THEN s[i] ELSE g[i - 1] \o s[i]
           S == {n \in Nat : \E g : g = [i \in 1 .. n |-> Step(g, i)]}
<1>1. 0 \in S
  <2> DEFINE g == [i \in 1 .. 0 |-> 0]
  <2>1. g = [i \in 1 .. 0 |-> Step(g, i)]
    OBVIOUS
  <2> QED
    BY <2>1
<1>2. ASSUME NEW n \in Nat, n \in S PROVE n + 1 \in S
  <2>1. PICK g : g = [i \in 1 .. n |-> Step(g, i)]
    BY <1>2
  <2> DEFINE h == [i \in 1 .. n + 1 |-> IF i = n + 1 THEN Step(g, i) ELSE g[i]]
  <2>2. ASSUME NEW i \in 1 .. n + 1 PROVE h[i] = Step(h, i)
    <3>1. CASE i = 1 /\ n # 0
      BY <2>1, <3>1
    <3>2. CASE i = 1 /\ n = 0
      BY <2>1, <3>2
    <3>3. CASE i # 1
      <4>1. i - 1 \in 1 .. n /\ i - 1 # n + 1 /\ h[i - 1] = g[i - 1]
        BY <3>3
      <4>2. CASE i = n + 1
        BY <4>1, <4>2
      <4>3. CASE i # n + 1
        <5>1. i \in 1 .. n
          BY <4>3
        <5>2. h[i] = g[i] /\ g[i] = Step(g, i)
          BY <5>1, <4>3, <2>1
        <5> QED
          BY <5>2, <4>1, <3>3
      <4> QED
        BY <4>2, <4>3
    <3> QED
      BY <3>1, <3>2, <3>3
  <2>3. h = [i \in 1 .. n + 1 |-> Step(h, i)]
    BY <2>2
  <2> HIDE DEF h
  <2>4. \E g2 : g2 = [i \in 1 .. n + 1 |-> Step(g2, i)]
    BY <2>3
  <2>5. n + 1 \in Nat
    OBVIOUS
  <2> HIDE DEF Step
  <2> QED
    BY <2>4, <2>5
<1>3. Nat \subseteq S
  <2> HIDE DEF S
  <2> QED
    BY <1>1, <1>2, Induction
<1>4. PICK g : g = [i \in 1 .. Len(s) |-> Step(g, i)]
  BY <1>3
<1> DEFINE f[i \in 1 .. Len(s)] == IF i = 1 THEN s[i] ELSE f[i - 1] \o s[i]
<1>5. f = [i \in 1 .. Len(s) |-> IF i = 1 THEN s[i] ELSE f[i - 1] \o s[i]]
  <2>1. f = CHOOSE h : h = [i \in 1 .. Len(s) |->
                              IF i = 1 THEN s[i] ELSE h[i - 1] \o s[i]]
    BY DEF f
  <2> HIDE DEF f
  <2> QED
    BY <2>1, <1>4
<1>6. FlattenSeq(s) = f[Len(s)]
  BY DEF FlattenSeq, f
<1> HIDE DEF f
<1>7. f[1] = s[1]
  <2>1. 1 \in 1 .. Len(s)
    OBVIOUS
  <2> QED
    BY <1>5, <2>1
<1>8. ASSUME NEW i \in Nat \ {0}, i < Len(s)
      PROVE  f[i + 1] = f[i] \o s[i + 1]
  <2>1. i + 1 \in 1 .. Len(s) /\ i + 1 # 1 /\ (i + 1) - 1 = i
    BY <1>8
  <2> QED
    BY <1>5, <2>1
<1> QED
  BY <1>6, <1>7, <1>8 DEF Concatenates

LEMMA FlattenEmpty == FlattenSeq(<< >>) = << >>
BY DEF FlattenSeq

(* A sequence of sequences is flattened to a sequence. *)
LEMMA ConcatenatesType ==
  ASSUME NEW T, NEW s \in Seq(Seq(T)), NEW f, Concatenates(f, s)
  PROVE  \A i \in 1 .. Len(s) : f[i] \in Seq(T)
<1> DEFINE S == {i \in Nat : f[i] \in Seq(T)}
<1>1. Len(s) \in Nat /\ \A i \in 1 .. Len(s) : s[i] \in Seq(T)
  OBVIOUS
<1>2. Len(s) # 0 => 1 \in S
  <2>1. Len(s) # 0 => 1 \in 1 .. Len(s)
    BY <1>1
  <2> QED
    BY <1>1, <2>1 DEF Concatenates
<1>3. ASSUME NEW n \in Nat \ {0}, n < Len(s), n \in S PROVE n + 1 \in S
  <2>1. n + 1 \in 1 .. Len(s)
    BY <1>1, <1>3
  <2>2. s[n + 1] \in Seq(T) /\ f[n] \in Seq(T)
    BY <1>1, <1>3, <2>1
  <2>3. f[n + 1] = f[n] \o s[n + 1]
    BY <1>3 DEF Concatenates
  <2>4. f[n] \o s[n + 1] \in Seq(T)
    BY <2>2
  <2>5. n + 1 \in Nat
    OBVIOUS
  <2> QED
    BY <2>3, <2>4, <2>5
<1>4. 1 .. Len(s) \subseteq S
  <2> HIDE DEF S
  <2> QED
    BY <1>1, <1>2, <1>3, InductionUpTo
<1> QED
  BY <1>4

LEMMA FlattenType ==
  ASSUME NEW T, NEW s \in Seq(Seq(T))
  PROVE  FlattenSeq(s) \in Seq(T)
<1>1. Len(s) \in Nat
  OBVIOUS
<1>2. CASE Len(s) = 0
  <2>1. s = << >> /\ << >> \in Seq(T)
    BY <1>2
  <2> QED
    BY <2>1, FlattenEmpty
<1>3. CASE Len(s) # 0
  <2>1. Len(s) \in 1 .. Len(s)
    BY <1>1, <1>3
  <2>2. PICK f : Concatenates(f, s) /\ FlattenSeq(s) = f[Len(s)]
    BY <1>1, <1>3, FlattenConcatenates
  <2>3. f[Len(s)] \in Seq(T)
    BY <2>1, <2>2, ConcatenatesType
  <2> QED
    BY <2>2, <2>3
<1> QED
  BY <1>2, <1>3

(* One more sequence at the end. *)
LEMMA FlattenAppend ==
  ASSUME NEW T, NEW s \in Seq(Seq(T)), NEW x \in Seq(T)
  PROVE  FlattenSeq(Append(s, x)) = FlattenSeq(s) \o x
<1> DEFINE t == Append(s, x)
           k == Len(s)
<1>1. t \in Seq(Seq(T)) /\ Len(t) = k + 1 /\ t[k + 1] = x /\ k \in Nat
  OBVIOUS
<1>2. \A i \in 1 .. k : t[i] = s[i]
  OBVIOUS
<1>3. s = << >> <=> k = 0
  OBVIOUS
<1> HIDE DEF t, k
<1>4. PICK g : Concatenates(g, t) /\ FlattenSeq(t) = g[k + 1]
  BY <1>1, FlattenConcatenates
<1>5. CASE k = 0
  <2>1. g[1] = x
    BY <1>1, <1>4, <1>5 DEF Concatenates
  <2>2. << >> \o x = x
    OBVIOUS
  <2> QED
    BY <1>3, <1>4, <1>5, <2>1, <2>2, FlattenEmpty DEF t
<1>6. CASE k # 0
  <2>1. PICK f : Concatenates(f, s) /\ FlattenSeq(s) = f[k]
    BY <1>1, <1>6, FlattenConcatenates DEF k
  <2> DEFINE S == {i \in Nat : f[i] = g[i]}
  <2>2. 1 \in S
    <3>1. 1 \in 1 .. k
      BY <1>1, <1>6
    <3>2. f[1] = s[1] /\ g[1] = t[1]
      BY <1>4, <2>1 DEF Concatenates
    <3> QED
      BY <3>1, <3>2, <1>2
  <2>3. ASSUME NEW n \in Nat \ {0}, n < k, n \in S PROVE n + 1 \in S
    <3>1. n < Len(t) /\ n < Len(s) /\ n + 1 \in 1 .. k
      BY <1>1, <2>3 DEF k
    <3>2. f[n + 1] = f[n] \o s[n + 1] /\ g[n + 1] = g[n] \o t[n + 1]
      BY <3>1, <1>4, <2>1 DEF Concatenates
    <3>3. s[n + 1] = t[n + 1] /\ f[n] = g[n]
      BY <3>1, <1>2, <2>3
    <3>4. f[n + 1] = g[n + 1] /\ n + 1 \in Nat
      BY <3>2, <3>3
    <3> QED
      BY <3>4
  <2>4. 1 .. k \subseteq S
    <3> HIDE DEF S
    <3> QED
      BY <1>1, <2>2, <2>3, InductionUpTo
  <2>5. f[k] = g[k]
    BY <1>1, <1>6, <2>4
  <2>6. g[k + 1] = g[k] \o x
    <3>1. k \in Nat \ {0} /\ k < Len(t)
      BY <1>1, <1>6
    <3> QED
      BY <3>1, <1>1, <1>4 DEF Concatenates
  <2> QED
    BY <1>4, <2>1, <2>5, <2>6 DEF t
<1> QED
  BY <1>5, <1>6

(* The first sequence and the others. *)
LEMMA FlattenHeadTail ==
  ASSUME NEW T, NEW s \in Seq(Seq(T)), s # << >>
  PROVE  FlattenSeq(s) = Head(s) \o FlattenSeq(Tail(s))
<1> DEFINE t == Tail(s)
           h == Head(s)
           k == Len(t)
<1>1. /\ t \in Seq(Seq(T)) /\ k \in Nat /\ Len(s) = k + 1
      /\ h = s[1] /\ h \in Seq(T)
  OBVIOUS
<1>2. \A i \in 1 .. k : t[i] = s[i + 1] /\ t[i] \in Seq(T)
  OBVIOUS
<1> HIDE DEF t, h
<1>3. t = << >> <=> k = 0
  BY <1>1
<1> HIDE DEF k
<1>4. PICK f : Concatenates(f, s) /\ FlattenSeq(s) = f[k + 1]
  BY <1>1, FlattenConcatenates
<1>5. CASE k = 0
  <2>1. f[1] = h
    BY <1>1, <1>4 DEF Concatenates
  <2>2. h \o << >> = h
    BY <1>1, ConcatEmptySeq
  <2>3. FlattenSeq(t) = << >> /\ FlattenSeq(s) = h
    BY <1>3, <1>4, <1>5, <2>1, FlattenEmpty
  <2> QED
    BY <2>2, <2>3 DEF t, h
<1>6. CASE k # 0
  <2>1. PICK g : Concatenates(g, t) /\ FlattenSeq(t) = g[k]
    BY <1>1, <1>6, FlattenConcatenates DEF k
  <2>2. \A i \in 1 .. k : g[i] \in Seq(T)
    BY <1>1, <2>1, ConcatenatesType DEF k
  <2> DEFINE S == {i \in Nat : f[i + 1] = h \o g[i]}
  <2>3. 1 \in S
    <3>1. 1 \in 1 .. k /\ 1 \in Nat \ {0} /\ 1 < Len(s)
      BY <1>1, <1>6
    <3>2. f[1] = s[1] /\ f[1 + 1] = f[1] \o s[1 + 1] /\ g[1] = t[1]
      BY <1>4, <2>1, <3>1 DEF Concatenates
    <3> QED
      BY <3>1, <3>2, <1>1, <1>2
  <2>4. ASSUME NEW n \in Nat \ {0}, n < k, n \in S PROVE n + 1 \in S
    <3>1. /\ n + 1 \in Nat \ {0} /\ n + 1 < Len(s) /\ n < Len(t)
          /\ n + 1 \in 1 .. k /\ n \in 1 .. k
      BY <1>1, <2>4, SMTT(30) DEF k
    <3>2. /\ f[(n + 1) + 1] = f[n + 1] \o s[(n + 1) + 1]
          /\ g[n + 1] = g[n] \o t[n + 1]
      BY <3>1, <1>4, <2>1 DEF Concatenates
    <3>3. t[n + 1] = s[(n + 1) + 1] /\ t[n + 1] \in Seq(T) /\ g[n] \in Seq(T)
      BY <3>1, <1>2, <2>2
    <3>4. \A u, v \in Seq(T) : (h \o u) \o v = h \o (u \o v)
      <4> SUFFICES ASSUME NEW u \in Seq(T), NEW v \in Seq(T)
                   PROVE  (h \o u) \o v = h \o (u \o v)
        OBVIOUS
      <4>1. h \in Seq(T)
        BY <1>1
      <4> HIDE DEF h
      <4> QED
        BY <4>1, ConcatAssociative, SMTT(30)
    <3>5. f[n + 1] = h \o g[n]
      BY <2>4
    <3>6. f[(n + 1) + 1] = h \o g[n + 1]
      <4> DEFINE u == g[n]
                 v == t[n + 1]
      <4>1. u \in Seq(T) /\ v \in Seq(T)
        BY <3>3
      <4>2. f[(n + 1) + 1] = (h \o u) \o v /\ g[n + 1] = u \o v
        BY <3>2, <3>3, <3>5
      <4> HIDE DEF u, v
      <4>3. (h \o u) \o v = h \o (u \o v)
        BY <4>1, <3>4
      <4> QED
        BY <4>2, <4>3
    <3> QED
      BY <3>1, <3>6
  <2>5. 1 .. k \subseteq S
    <3> HIDE DEF S
    <3> QED
      BY <1>1, <2>3, <2>4, InductionUpTo
  <2>6. f[k + 1] = h \o g[k]
    <3>1. k \in 1 .. k
      BY <1>1, <1>6
    <3> QED
      BY <2>5, <3>1
  <2> QED
    BY <1>4, <2>1, <2>6 DEF t, h
<1> QED
  BY <1>5, <1>6
=============================================================================
