--------------------------- MODULE ChunkCodecProofs ---------------------------
(***************************************************************************)
(* A payload survives its way through the parts of a chunk, for every      *)
(* number and size of the parts, every size of the payload and whatever    *)
(* packets are lost or damaged: Marshal and Unmarshal (chunk.go) are each  *)
(* other's inverse, and a damaged packet is never taken for an intact one  *)
(* (packet_v2.go).                                                         *)
(***************************************************************************)
EXTENDS ChunkCodec, DataLemmas

LEMMA Formats ==
  /\ HeaderSize \in Nat /\ DataSize \in Nat /\ Data \in Nat /\ Total \in Nat
  /\ HeaderSize >= 1 /\ DataSize > HeaderSize
  /\ Data >= 1 /\ Data <= Total /\ Total >= 2
BY FormatAssumption, ShardsAssumption

LEMMA MinOfTwo ==
  ASSUME NEW a \in Int, NEW b \in Int
  PROVE  Min({a, b}) = IF a <= b THEN a ELSE b
<1> DEFINE m == IF a <= b THEN a ELSE b
<1>1. m \in {a, b} /\ \A y \in {a, b} : m <= y
  OBVIOUS
<1>2. \A x \in {a, b} : (\A y \in {a, b} : x <= y) => x = m
  OBVIOUS
<1> QED
  BY <1>1, <1>2 DEF Min

-----------------------------------------------------------------------------
(* Marshal.  Parts 0 .. i take this many of n bytes.                       *)
UpTo(n, i) ==
  IF n <= DataSize * (i + 1) - HeaderSize THEN n
                                          ELSE DataSize * (i + 1) - HeaderSize

(* The bytes of part i after those of the parts before. *)
LEMMA UpToNext ==
  ASSUME NEW n \in Nat, NEW i \in Nat
  PROVE  /\ UpTo(n, i) \in Nat /\ UpTo(n, i) <= n
         /\ UpTo(n, 0) <= DataSize - HeaderSize
         /\ DataSize * i \in Nat
         /\ DataSize * (i + 1) = DataSize * i + DataSize
         /\ i # 0 =>
              /\ i - 1 \in Nat
              /\ UpTo(n, i - 1) =
                   IF n <= DataSize * i - HeaderSize
                     THEN n ELSE DataSize * i - HeaderSize
              /\ UpTo(n, i - 1) \in Nat
              /\ DataSize * i - HeaderSize \in Nat
<1>1. DataSize * i \in Nat /\ DataSize * (i + 1) = DataSize * i + DataSize
  BY Formats
<1>2. DataSize * (i + 1) - HeaderSize \in Nat
  BY <1>1, Formats
<1>3. DataSize * (0 + 1) - HeaderSize = DataSize - HeaderSize
  BY Formats
<1>4. ASSUME i # 0
      PROVE  /\ i - 1 \in Nat /\ (i - 1) + 1 = i
             /\ DataSize * i - HeaderSize \in Nat
  <2>1. i - 1 \in Nat /\ (i - 1) + 1 = i
    BY <1>4
  <2>2. DataSize * (i - 1) \in Nat
        /\ DataSize * ((i - 1) + 1) = DataSize * (i - 1) + DataSize
    BY <2>1, Formats
  <2> QED
    BY <2>1, <2>2, Formats
<1> QED
  BY <1>1, <1>2, <1>3, <1>4, Formats DEF UpTo

(* The closed form of the counter of chunk.go:67. *)
LEMMA CopiedIs ==
  ASSUME NEW bytes, NEW n \in Nat, Len(bytes) = n
  PROVE  \A i \in Parts : Copied(bytes)[i] = UpTo(n, i)
<1> DEFINE Taken(g, i) == Min({Len(bytes), Room(i) + IF i = 0 THEN 0 ELSE g[i - 1]})
           g == [i \in Parts |-> UpTo(n, i)]
           c == Copied(bytes)
<1>1. Parts \subseteq Nat /\ \A i \in Parts : i # 0 => i - 1 \in Parts
  BY Formats DEF Parts
<1>2. ASSUME NEW h, NEW i \in Parts, i # 0 => h[i - 1] = UpTo(n, i - 1)
      PROVE  Taken(h, i) = UpTo(n, i)
  <2>1. i \in Nat
    BY <1>1
  <2>2. CASE i = 0
    <3>1. Taken(h, i) = Min({n, DataSize - HeaderSize + 0})
      BY <2>2 DEF Room
    <3>2. Taken(h, i) =
            IF n <= DataSize - HeaderSize THEN n ELSE DataSize - HeaderSize
      BY <3>1, MinOfTwo, Formats
    <3>3. DataSize * (0 + 1) - HeaderSize = DataSize - HeaderSize
      BY Formats
    <3> QED
      BY <2>2, <3>2, <3>3 DEF UpTo
  <2>3. CASE i # 0
    <3> DEFINE u == UpTo(n, i - 1)
    <3>1. u \in Nat /\ DataSize + u \in Int
      <4>1. u \in Nat
        BY <2>1, <2>3, UpToNext
      <4> HIDE DEF u
      <4> QED
        BY <4>1, Formats
    <3>2. Taken(h, i) = Min({n, DataSize + u})
      BY <1>2, <2>3 DEF Room
    <3>3. Taken(h, i) = IF n <= DataSize + u THEN n ELSE DataSize + u
      BY <3>1, <3>2, MinOfTwo
    <3>4. /\ DataSize * i \in Nat
          /\ DataSize * (i + 1) = DataSize * i + DataSize
          /\ u = IF n <= DataSize * i - HeaderSize
                   THEN n ELSE DataSize * i - HeaderSize
      BY <2>1, <2>3, UpToNext
    <3> HIDE DEF u
    <3> QED
      BY <3>1, <3>3, <3>4, Formats DEF UpTo
  <2> QED
    BY <2>2, <2>3
<1>3. g = [i \in Parts |-> Taken(g, i)]
  <2>1. \A i \in Parts : g[i] = Taken(g, i)
    BY <1>1, <1>2
  <2> QED
    BY <2>1
<1>4. c = CHOOSE h : h = [i \in Parts |-> Taken(h, i)]
  BY DEF Copied
<1>5. c = [i \in Parts |-> Taken(c, i)]
  BY <1>3, <1>4
<1> HIDE DEF c, g
<1> DEFINE S == {i \in Nat : i \in Parts => c[i] = UpTo(n, i)}
<1>6. 0 \in S
  BY <1>2, <1>5
<1>7. ASSUME NEW i \in Nat, i \in S
      PROVE  i + 1 \in S
  <2> SUFFICES ASSUME i + 1 \in Parts PROVE c[i + 1] = UpTo(n, i + 1)
    OBVIOUS
  <2>1. (i + 1) - 1 = i /\ i \in Parts
    BY <1>1
  <2>2. c[(i + 1) - 1] = UpTo(n, (i + 1) - 1)
    BY <1>7, <2>1
  <2>3. Taken(c, i + 1) = UpTo(n, i + 1)
    BY <1>2, <2>2
  <2> QED
    BY <1>5, <2>3
<1> HIDE DEF S
<1>8. Nat \subseteq S
  BY <1>6, <1>7, Induction
<1> QED
  BY <1>1, <1>8 DEF S, c

LEMMA PayloadIs ==
  ASSUME NEW n \in Nat
  PROVE  /\ Payload(n) \in Seq(Nat) /\ Len(Payload(n)) = n
         /\ \A j \in 1 .. n : Payload(n)[j] = j
BY DEF Payload

(* A part is as long as a packet, and byte j of part i is the byte of the  *)
(* payload that Unmarshal looks for there (chunk.go:57-72).                *)
LEMMA PartHolds ==
  ASSUME NEW n \in Nat, NEW i \in Parts
  PROVE  /\ Laid(Payload(n), i) \in Seq(Nat)
         /\ Len(Laid(Payload(n), i)) = DataSize
         /\ i = 0 => Laid(Payload(n), i)[1] = n
         /\ \A j \in 1 .. DataSize :
              LET at == DataSize * i - HeaderSize + j
              IN  at \in 1 .. n => Laid(Payload(n), i)[j] = at
<1> DEFINE bytes == Payload(n)
           from == IF i = 0 THEN 0 ELSE UpTo(n, i - 1)
           to == UpTo(n, i)
           body == SubSeq(bytes, from + 1, to)
           head == Header(bytes)
           used == IF i = 0 THEN head \o body ELSE body
           rest == [j \in 1 .. (DataSize - Len(used)) |-> 0]
           p == Laid(bytes, i)
<1>1. /\ bytes \in Seq(Nat) /\ Len(bytes) = n
      /\ \A j \in 1 .. n : bytes[j] = j
  BY PayloadIs
<1>2. i \in Nat /\ (i # 0 => i - 1 \in Parts)
  BY Formats DEF Parts
<1>3. Copied(bytes)[i] = to
  BY <1>1, CopiedIs
<1>4. i # 0 => Copied(bytes)[i - 1] = UpTo(n, i - 1)
  BY <1>1, <1>2, CopiedIs
<1>5. p = used \o rest
  BY <1>3, <1>4 DEF Laid
<1>6. head \in Seq(Nat) /\ Len(head) = HeaderSize /\ head[1] = n
  BY <1>1, Formats DEF Header
<1>7. /\ from \in Nat /\ to \in Nat /\ to <= n
      /\ i = 0 => from = 0 /\ to <= DataSize - HeaderSize
      /\ i # 0 => from <= to /\ to - from <= DataSize
  <2>1. /\ to \in Nat /\ to <= n
        /\ UpTo(n, 0) <= DataSize - HeaderSize
    BY <1>2, UpToNext
  <2>2. CASE i = 0
    BY <2>1, <2>2
  <2>3. CASE i # 0
    <3> DEFINE u == UpTo(n, i - 1)
               k == DataSize * i
    <3>1. u = (IF n <= k - HeaderSize THEN n ELSE k - HeaderSize) /\ u \in Nat
      BY <1>2, <2>3, UpToNext
    <3>2. k \in Nat /\ DataSize * (i + 1) = k + DataSize
      BY <1>2, UpToNext
    <3>3. to = IF n <= k + DataSize - HeaderSize
                 THEN n ELSE k + DataSize - HeaderSize
      <4> DEFINE m == DataSize * (i + 1)
      <4>1. to = IF n <= m - HeaderSize THEN n ELSE m - HeaderSize
        BY DEF UpTo
      <4>2. m = k + DataSize
        BY <3>2
      <4> HIDE DEF to, k, m
      <4> QED
        BY <3>2, <4>1, <4>2, Formats
    <3>4. from = u
      BY <2>3
    <3> HIDE DEF u, k, from, to
    <3> QED
      BY <2>1, <2>3, <3>1, <3>2, <3>3, <3>4, Formats
  <2> QED
    BY <2>2, <2>3
<1>8. \A j \in 1 .. DataSize :
        DataSize * i - HeaderSize + j \in 1 .. n =>
          /\ i = 0 => j > HeaderSize /\ j - HeaderSize <= to
          /\ i # 0 => /\ from = DataSize * i - HeaderSize
                      /\ j <= to - from
  <2> DEFINE k == DataSize * i
  <2>1. k \in Nat /\ DataSize * (i + 1) = k + DataSize
    BY <1>2, UpToNext
  <2>2. to = IF n <= k + DataSize - HeaderSize
               THEN n ELSE k + DataSize - HeaderSize
    <3> DEFINE m == DataSize * (i + 1)
    <3>1. to = IF n <= m - HeaderSize THEN n ELSE m - HeaderSize
      BY DEF UpTo
    <3>2. m = k + DataSize
      BY <2>1
    <3> HIDE DEF to, k, m
    <3> QED
      BY <2>1, <3>1, <3>2, Formats
  <2>3. i # 0 => from = IF n <= k - HeaderSize THEN n ELSE k - HeaderSize
    BY <1>2, UpToNext
  <2>4. i = 0 => k = 0
    BY Formats
  <2> HIDE DEF k, from, to
  <2>5. SUFFICES ASSUME NEW j \in 1 .. DataSize, k - HeaderSize + j \in 1 .. n
                 PROVE  /\ i = 0 => j > HeaderSize /\ j - HeaderSize <= to
                        /\ i # 0 => /\ from = k - HeaderSize
                                    /\ j <= to - from
    BY DEF k
  <2> QED
    BY <2>1, <2>2, <2>3, <2>4, <2>5, Formats
<1> HIDE DEF bytes, from, to
<1>9. /\ body \in Seq(Nat)
      /\ Len(body) = to - from
      /\ \A j \in 1 .. (to - from) : body[j] = from + j
  <2>1. CASE from < to
    <3>1. from + 1 \in 1 .. Len(bytes) /\ to \in 1 .. Len(bytes)
      BY <1>1, <1>7, <2>1
    <3>2. /\ body \in Seq(Nat) /\ Len(body) = to - from
          /\ \A j \in 1 .. (to - from) : body[j] = bytes[from + j]
      BY <1>1, <1>7, <2>1, <3>1
    <3>3. \A j \in 1 .. (to - from) : from + j \in 1 .. n
      BY <1>1, <1>7, <2>1
    <3> QED
      BY <1>1, <3>2, <3>3
  <2>2. CASE ~ (from < to)
    <3>1. from = to
      BY <1>7, <2>2
    <3>2. body = << >>
      BY <1>1, <1>7, <3>1
    <3> QED
      BY <1>7, <3>1, <3>2
  <2> QED
    BY <2>1, <2>2
<1> HIDE DEF body, head
<1>10. used \in Seq(Nat) /\ Len(used) \in Nat /\ Len(used) <= DataSize
  BY <1>2, <1>6, <1>7, <1>9, Formats
<1>11. /\ i = 0 => /\ used[1] = n
                   /\ Len(used) = HeaderSize + to
                   /\ \A j \in 1 .. to : used[HeaderSize + j] = j
       /\ i # 0 => used = body
  <2> SUFFICES ASSUME i = 0
               PROVE  /\ used[1] = n
                      /\ Len(used) = HeaderSize + to
                      /\ \A j \in 1 .. to : used[HeaderSize + j] = j
    OBVIOUS
  <2>1. used = head \o body /\ from = 0
    BY <1>7
  <2>2. used[1] = n
    BY <1>6, <1>9, <2>1, Formats
  <2>3. \A j \in 1 .. to : used[HeaderSize + j] = body[j]
    BY <1>6, <1>7, <1>9, <2>1, Formats
  <2>4. Len(used) = HeaderSize + to
    BY <1>6, <1>7, <1>9, <2>1, Formats
  <2> QED
    <3>1. \A j \in 1 .. to : body[j] = j
      BY <1>7, <1>9, <2>1
    <3> HIDE DEF used
    <3> QED
      BY <2>2, <2>3, <2>4, <3>1
<1> HIDE DEF used
<1>12. /\ rest \in Seq(Nat) /\ Len(rest) = DataSize - Len(used)
  BY <1>10, Formats
<1> HIDE DEF rest
<1>13. /\ p \in Seq(Nat) /\ Len(p) = DataSize
       /\ \A j \in 1 .. Len(used) : p[j] = used[j]
  BY <1>5, <1>10, <1>12, Formats
<1>14. i = 0 => p[1] = n
  BY <1>7, <1>11, <1>13, Formats
<1>15. ASSUME NEW j \in 1 .. DataSize,
              DataSize * i - HeaderSize + j \in 1 .. n
       PROVE  p[j] = DataSize * i - HeaderSize + j
  <2>1. CASE i = 0
    <3>1. j > HeaderSize /\ j - HeaderSize <= to /\ DataSize * i = 0
      BY <1>8, <1>15, <2>1, Formats
    <3>2. j - HeaderSize \in 1 .. to /\ j = HeaderSize + (j - HeaderSize)
      BY <1>7, <3>1, Formats
    <3>3. used[j] = j - HeaderSize /\ j \in 1 .. Len(used)
      BY <1>7, <1>11, <2>1, <3>2, Formats
    <3> QED
      BY <1>13, <3>1, <3>3, Formats
  <2>2. CASE i # 0
    <3>1. from = DataSize * i - HeaderSize /\ j \in 1 .. (to - from)
      BY <1>7, <1>8, <1>15, <2>2
    <3>2. used[j] = from + j /\ j \in 1 .. Len(used)
      BY <1>9, <1>11, <2>2, <3>1
    <3> QED
      BY <1>13, <3>1, <3>2
  <2> QED
    BY <2>1, <2>2
<1> HIDE DEF p
<1>16. /\ p \in Seq(Nat) /\ Len(p) = DataSize /\ (i = 0 => p[1] = n)
       /\ \A j \in 1 .. DataSize :
            DataSize * i - HeaderSize + j \in 1 .. n =>
              p[j] = DataSize * i - HeaderSize + j
  BY <1>13, <1>14, <1>15
<1> QED
  BY <1>16 DEF p, bytes

-----------------------------------------------------------------------------
(* Unmarshal, chunk.go:74-97, undoes Marshal. *)
LEMMA BodyHolds ==
  ASSUME NEW n \in Nat, NEW data,
         data = [i \in 1 .. Data |-> Laid(Payload(n), i - 1)]
  PROVE  /\ data[1][1] = n
         /\ Len(Body(data)) = DataSize * Data - HeaderSize
         /\ Len(Body(data)) >= n => SubSeq(Body(data), 1, n) = Payload(n)
<1> DEFINE s == [data EXCEPT ![1] = SubSeq(@, HeaderSize + 1, DataSize)]
           Good(i, t) ==
             /\ t \in Seq(Nat)
             /\ Len(t) = DataSize * i - HeaderSize
             /\ \A j \in 1 .. Len(t) : j <= n => t[j] = j
<1>1. ASSUME NEW i \in 1 .. Data
      PROVE  /\ data[i] \in Seq(Nat) /\ Len(data[i]) = DataSize
             /\ i = 1 => data[i][1] = n
             /\ \A j \in 1 .. DataSize :
                  LET at == DataSize * (i - 1) - HeaderSize + j
                  IN  at \in 1 .. n => data[i][j] = at
  <2>1. i - 1 \in Parts /\ data[i] = Laid(Payload(n), i - 1)
    BY Formats DEF Parts
  <2>2. i = 1 => i - 1 = 0
    OBVIOUS
  <2> QED
    BY <2>1, <2>2, PartHolds
<1>2. 1 \in 1 .. Data /\ data \in Seq(Seq(Nat)) /\ Len(data) = Data
  BY <1>1, Formats
<1>3. data[1][1] = n
  BY <1>1, <1>2
<1>4. /\ s[1] \in Seq(Nat) /\ Len(s[1]) = DataSize - HeaderSize
      /\ \A j \in 1 .. DataSize - HeaderSize : s[1][j] = data[1][HeaderSize + j]
  <2>1. s[1] = SubSeq(data[1], HeaderSize + 1, DataSize)
    BY <1>2
  <2>2. data[1] \in Seq(Nat) /\ Len(data[1]) = DataSize
    BY <1>1, <1>2
  <2> DEFINE d == data[1]
  <2> HIDE DEF d
  <2>3. HeaderSize + 1 \in 1 .. Len(d) /\ DataSize \in 1 .. Len(d)
    BY <2>2, Formats DEF d
  <2>4. d \in Seq(Nat) /\ Len(d) = DataSize
    BY <2>2 DEF d
  <2> DEFINE t == SubSeq(d, HeaderSize + 1, DataSize)
  <2>5. /\ t \in Seq(Nat) /\ Len(t) = DataSize - HeaderSize
        /\ \A j \in 1 .. DataSize - HeaderSize : t[j] = d[HeaderSize + j]
    <3>1. t \in Seq(Nat)
      BY <2>3, <2>4
    <3>2. /\ Len(t) = DataSize - (HeaderSize + 1) + 1
          /\ \A j \in 1 .. DataSize - (HeaderSize + 1) + 1 :
               t[j] = d[(HeaderSize + 1) + j - 1]
      BY <2>3, <2>4, Formats
    <3>3. DataSize - (HeaderSize + 1) + 1 = DataSize - HeaderSize
      BY Formats
    <3>4. \A j \in 1 .. DataSize - HeaderSize :
            (HeaderSize + 1) + j - 1 = HeaderSize + j
      BY Formats
    <3> HIDE DEF t
    <3> QED
      BY <3>1, <3>2, <3>3, <3>4
  <2> QED
    BY <2>1, <2>5 DEF d
<1>5. \A i \in 1 .. Data : i # 1 => s[i] = data[i]
  BY <1>2
<1>6. s \in Seq(Seq(Nat)) /\ Len(s) = Data /\ Len(s) \in Nat /\ Len(s) # 0
  BY <1>2, <1>4, Formats
<1>7. Body(data) = FlattenSeq(s)
  BY DEF Body
<1> HIDE DEF s
<1>8. PICK f : Concatenates(f, s) /\ FlattenSeq(s) = f[Len(s)]
  BY <1>6, FlattenConcatenates
<1> DEFINE S == {i \in Nat : Good(i, f[i])}
<1>9. 1 \in S
  <2> DEFINE t == s[1]
  <2>1. f[1] = t
    BY <1>8 DEF Concatenates
  <2>2. t \in Seq(Nat) /\ Len(t) = DataSize * 1 - HeaderSize
    BY <1>4, Formats
  <2>3. ASSUME NEW j \in 1 .. Len(t), j <= n PROVE t[j] = j
    <3>1. j \in 1 .. DataSize - HeaderSize /\ HeaderSize + j \in 1 .. DataSize
      BY <2>2, Formats
    <3>2. DataSize * (1 - 1) - HeaderSize + (HeaderSize + j) = j /\ j \in 1 .. n
      BY <2>3, <3>1, Formats
    <3>3. data[1][HeaderSize + j] = j
      BY <1>1, <1>2, <3>1, <3>2
    <3> QED
      BY <1>4, <3>1, <3>3
  <2> HIDE DEF t
  <2> QED
    BY <2>1, <2>2, <2>3
<1>10. ASSUME NEW i \in Nat \ {0}, i < Data, i \in S
       PROVE  i + 1 \in S
  <2> DEFINE a == f[i]
             b == s[i + 1]
             k == DataSize * i - HeaderSize
  <2>1. i + 1 \in 1 .. Data /\ i + 1 # 1 /\ (i + 1) - 1 = i
    BY <1>10, Formats
  <2>2. /\ b \in Seq(Nat) /\ Len(b) = DataSize
        /\ \A j \in 1 .. DataSize : k + j \in 1 .. n => b[j] = k + j
    BY <1>1, <1>5, <2>1
  <2>3. f[i + 1] = a \o b
    BY <1>6, <1>8, <1>10 DEF Concatenates
  <2>4. Good(i, a)
    BY <1>10
  <2>5. k \in Nat /\ DataSize * (i + 1) - HeaderSize = k + DataSize
    <3> DEFINE m == DataSize * i
    <3>1. i \in Nat /\ i # 0
      OBVIOUS
    <3>2. m \in Nat /\ DataSize * (i + 1) = m + DataSize /\ m - HeaderSize \in Nat
      BY <3>1, UpToNext
    <3> HIDE DEF m
    <3>3. DataSize * (i + 1) - HeaderSize = (m - HeaderSize) + DataSize
      BY <3>2, Formats
    <3> QED
      BY <3>2, <3>3 DEF m
  <2> HIDE DEF a, b
  <2>6. a \in Seq(Nat) /\ Len(a) = k
    BY <2>4
  <2> DEFINE t == a \o b
  <2>7. /\ t \in Seq(Nat) /\ Len(t) = k + DataSize
        /\ \A j \in 1 .. k : t[j] = a[j]
        /\ \A j \in 1 .. DataSize : t[k + j] = b[j]
    <3> HIDE DEF k
    <3>1. a \in Seq(Nat) /\ b \in Seq(Nat) /\ Len(a) = k /\ Len(b) = DataSize
          /\ k \in Nat /\ DataSize \in Nat
      BY <2>2, <2>5, <2>6, Formats
    <3>2. t \in Seq(Nat) /\ Len(t) = Len(a) + Len(b)
      BY <3>1, SMTT(30)
    <3>3. \A j \in 1 .. k : t[j] = a[j]
      BY <3>1
    <3>4. ASSUME NEW j \in 1 .. DataSize PROVE t[k + j] = b[j]
      <4>1. k + j \in 1 .. Len(a) + Len(b) /\ ~ (k + j <= Len(a))
            /\ k + j - Len(a) = j
        BY <3>1
      <4> QED
        BY <3>1, <4>1
    <3> QED
      BY <3>1, <3>2, <3>3, <3>4
  <2> HIDE DEF t
  <2>8. ASSUME NEW j \in 1 .. Len(t), j <= n PROVE t[j] = j
    <3>1. CASE j <= k
      <4>1. j \in 1 .. k
        BY <2>7, <2>5, <3>1
      <4> QED
        BY <4>1, <2>4, <2>6, <2>7, <2>8
    <3>2. CASE ~ (j <= k)
      <4> HIDE DEF k
      <4>1. j - k \in 1 .. DataSize /\ k + (j - k) = j /\ j \in 1 .. n
        BY <2>5, <2>7, <2>8, <3>2, Formats
      <4>2. b[j - k] = j
        BY <2>2, <4>1
      <4> QED
        BY <2>7, <4>1, <4>2
    <3> QED
      BY <3>1, <3>2
  <2>9. Good(i + 1, t)
    BY <2>5, <2>7, <2>8
  <2> HIDE DEF Good
  <2>10. f[i + 1] = t
    BY <2>3 DEF t
  <2>11. i + 1 \in Nat /\ Good(i + 1, f[i + 1])
    BY <2>9, <2>10
  <2> QED
    BY <2>11
<1>11. 1 .. Data \subseteq S
  <2> HIDE DEF S
  <2> QED
    BY <1>9, <1>10, Formats, InductionUpTo
<1>12. Good(Data, Body(data))
  <2>1. Data \in 1 .. Data
    BY Formats
  <2>2. Data \in S
    <3> HIDE DEF S
    <3> QED
      BY <1>11, <2>1
  <2> QED
    BY <1>6, <1>7, <1>8, <2>2
<1> DEFINE body == Body(data)
<1> HIDE DEF body
<1>13. Good(Data, body)
  BY <1>12 DEF body
<1>14. ASSUME Len(body) >= n PROVE SubSeq(body, 1, n) = Payload(n)
  <2>1. body \in Seq(Nat) /\ Len(body) \in Nat
    BY <1>13
  <2>2. /\ SubSeq(body, 1, n) \in Seq(Nat) /\ Len(SubSeq(body, 1, n)) = n
        /\ \A j \in 1 .. n : SubSeq(body, 1, n)[j] = body[j]
    BY <1>14, <2>1
  <2>3. \A j \in 1 .. n : body[j] = j
    BY <1>13, <1>14, <2>1
  <2> DEFINE t == SubSeq(body, 1, n)
             u == Payload(n)
  <2>4. t \in Seq(Nat) /\ Len(t) = n /\ \A j \in 1 .. n : t[j] = j
    BY <2>2, <2>3
  <2>5. u \in Seq(Nat) /\ Len(u) = n /\ \A j \in 1 .. n : u[j] = j
    BY PayloadIs
  <2> HIDE DEF t, u
  <2>6. t = u
    BY <2>4, <2>5
  <2> QED
    BY <2>6 DEF t, u
<1> QED
  BY <1>3, <1>13, <1>14 DEF body

-----------------------------------------------------------------------------
(* The whole way. *)
LaidOut(n) ==
  [i \in Parts |-> IF i < Data THEN Laid(Payload(n), i) ELSE Parity]

(* A payload that was sent was not refused, and its parts are what Marshal *)
(* and the erasure code make of it.                                        *)
Sends ==
  pc \in {"sent", "restored", "failed"} =>
    \E n \in Sizes : /\ n <= Data * DataSize
                     /\ payload = Payload(n)
                     /\ parts = LaidOut(n)

(* What is taken for intact is intact. *)
IntactArrive ==
  pc \in {"sent", "restored", "failed"} =>
    \A i \in Parts : Accepts(network[i]) => network[i] = Packet(i, parts[i])

CodecInv ==
  /\ network = [i \in Parts |-> network[i]]
  /\ Sends
  /\ IntactArrive
  /\ NeverAltered

(* No byte of a part is the damaged one. *)
LEMMA PartIs ==
  ASSUME NEW n \in Nat, NEW i \in Parts
  PROVE  /\ LaidOut(n)[i] \in Seq(Int) /\ Len(LaidOut(n)[i]) = DataSize
         /\ LaidOut(n)[i][1] # -2
<1>1. CASE i < Data
  <2> DEFINE p == Laid(Payload(n), i)
  <2>1. p \in Seq(Nat) /\ Len(p) = DataSize
    BY PartHolds
  <2>2. LaidOut(n)[i] = p
    BY <1>1 DEF LaidOut
  <2> HIDE DEF p
  <2>3. 1 \in 1 .. Len(p)
    BY <2>1, Formats
  <2>4. p[1] \in Nat /\ p \in Seq(Int)
    BY <2>1, <2>3
  <2> QED
    BY <2>1, <2>2, <2>4
<1>2. CASE ~ (i < Data)
  <2>1. LaidOut(n)[i] = Parity
    BY <1>2 DEF LaidOut
  <2>2. Parity \in Seq(Int) /\ Len(Parity) = DataSize /\ Parity[1] = -1
    BY Formats DEF Parity
  <2> QED
    BY <2>1, <2>2
<1> QED
  BY <1>1, <1>2

(* The hash tells a packet with another header or another byte from the    *)
(* one that was sent (packet_v2.go:67-80).                                 *)
LEMMA DamageShows ==
  ASSUME NEW i \in Parts, NEW p \in Seq(Int), Len(p) = DataSize, p[1] # -2
  PROVE  /\ ~ Accepts([Packet(i, p) EXCEPT !.part[1] = -2])
         /\ ~ Accepts([Packet(i, p) EXCEPT !.psn = (i + 1) % Total])
<1> DEFINE damaged == [p EXCEPT ![1] = -2]
           other == (i + 1) % Total
<1>1. 1 \in 1 .. Len(p) /\ i \in Nat /\ i \in 0 .. Total - 1
  BY Formats DEF Parts
<1>2. damaged \in Seq(Int) /\ damaged[1] = -2 /\ Len(damaged) = DataSize
  BY <1>1
<1>3. /\ (<<i>> \o p)[2] = p[1] /\ (<<i>> \o p)[1] = i
  BY <1>1
<1>4. (<<i>> \o damaged)[2] = -2
  <2> HIDE DEF damaged
  <2> QED
    BY <1>1, <1>2, Formats
<1>5. other # i /\ other \in Nat
  <2>1. Total \in Nat \ {0} /\ i + 1 \in Nat
    BY <1>1, Formats
  <2>2. CASE i + 1 < Total
    <3>1. i + 1 = Total * 0 + (i + 1) /\ i + 1 \in 0 .. Total - 1 /\ 0 \in Nat
      BY <1>1, <2>1, <2>2
    <3>2. other = i + 1
      BY <2>1, <3>1, RemainderIs
    <3> QED
      BY <1>1, <3>2
  <2>3. CASE ~ (i + 1 < Total)
    <3>1. i + 1 = Total * 1 + 0 /\ 0 \in 0 .. Total - 1 /\ 1 \in Nat
      BY <1>1, <2>1, <2>3, Formats
    <3>2. other = 0
      BY <2>1, <3>1, RemainderIs
    <3> QED
      BY <1>1, <2>3, <3>2, Formats
  <2> QED
    BY <2>2, <2>3
<1>6. (<<other>> \o p)[1] = other
  <2> HIDE DEF other
  <2> QED
    BY <1>1, <1>5
<1>7. [Packet(i, p) EXCEPT !.part[1] = -2] =
        [psn |-> i, part |-> damaged, hash |-> <<i>> \o p]
  <2> DEFINE h == <<i>> \o p
             q == [psn |-> i, part |-> p, hash |-> h]
  <2>1. Packet(i, p) = q
    BY DEF Packet
  <2> HIDE DEF h
  <2>2. [q EXCEPT !.part[1] = -2] = [psn |-> i, part |-> damaged, hash |-> h]
    BY SMTT(30)
  <2> QED
    BY <2>1, <2>2 DEF h
<1>8. [Packet(i, p) EXCEPT !.psn = (i + 1) % Total] =
        [psn |-> other, part |-> p, hash |-> <<i>> \o p]
  <2> DEFINE h == <<i>> \o p
             q == [psn |-> i, part |-> p, hash |-> h]
  <2>1. Packet(i, p) = q
    BY DEF Packet
  <2> HIDE DEF h
  <2>2. [q EXCEPT !.psn = other] = [psn |-> other, part |-> p, hash |-> h]
    OBVIOUS
  <2> QED
    BY <2>1, <2>2 DEF h
<1>9. <<i>> \o p # <<i>> \o damaged
  BY <1>3, <1>4
<1>10. <<i>> \o p # <<other>> \o p
  BY <1>3, <1>5, <1>6
<1> HIDE DEF damaged, other
<1> QED
  BY <1>7, <1>8, <1>9, <1>10 DEF Accepts

LEMMA PacketAccepted ==
  ASSUME NEW i \in Parts, NEW p
  PROVE  Packet(i, p).psn = i /\ Packet(i, p).part = p
BY DEF Packet

(* The line of a chunk that was sent holds its parts. *)
LEMMA ShardsAreParts ==
  ASSUME IntactArrive, pc \in {"sent", "restored", "failed"}
  PROVE  /\ \A psn \in Parts : HasShard(psn) <=> psn \in Arrived
         /\ \A psn \in Parts : Reconstructed(psn) = parts[psn]
<1>1. \A i \in Arrived : network[i] = Packet(i, parts[i]) /\ i \in Parts
  BY DEF IntactArrive, Arrived
<1>2. \A i \in Arrived : network[i].psn = i /\ network[i].part = parts[i]
  BY <1>1, PacketAccepted
<1>3. \A psn \in Parts : HasShard(psn) <=> psn \in Arrived
  BY <1>2 DEF HasShard
<1>4. ASSUME NEW psn \in Parts PROVE Reconstructed(psn) = parts[psn]
  <2>1. CASE HasShard(psn)
    <3>1. psn \in Arrived
      BY <1>3, <2>1
    <3>2. (CHOOSE i \in Arrived : network[i].psn = psn) = psn
      BY <1>2, <3>1
    <3> QED
      BY <1>2, <2>1, <3>1, <3>2 DEF Reconstructed, Shard
  <2>2. CASE ~ HasShard(psn)
    BY <2>2 DEF Reconstructed
  <2> QED
    BY <2>1, <2>2
<1> QED
  BY <1>3, <1>4

(* What Restore makes of the parts. *)
LEMMA RestoreIs ==
  ASSUME CodecInv, pc = "sent"
  PROVE  LET data == [i \in 1 .. Data |-> Reconstructed(i - 1)]
         IN  /\ data[1][1] = Len(payload)
             /\ Len(Body(data)) = DataSize * Data - HeaderSize
             /\ Len(Body(data)) >= Len(payload) =>
                  SubSeq(Body(data), 1, Len(payload)) = payload
<1> DEFINE data == [i \in 1 .. Data |-> Reconstructed(i - 1)]
<1>1. PICK n \in Sizes : payload = Payload(n) /\ parts = LaidOut(n)
  BY DEF CodecInv, Sends
<1>2. n \in Nat /\ Len(payload) = n
  BY <1>1, SizesAssumption, PayloadIs
<1>3. data = [i \in 1 .. Data |-> Laid(Payload(n), i - 1)]
  <2>1. ASSUME NEW i \in 1 .. Data
        PROVE  Reconstructed(i - 1) = Laid(Payload(n), i - 1)
    <3>1. i - 1 \in Parts /\ i - 1 < Data
      BY Formats DEF Parts
    <3>2. Reconstructed(i - 1) = parts[i - 1]
      BY <3>1, ShardsAreParts DEF CodecInv
    <3> QED
      BY <1>1, <3>1, <3>2 DEF LaidOut
  <2> QED
    BY <2>1
<1> HIDE DEF data
<1>4. /\ data[1][1] = n
      /\ Len(Body(data)) = DataSize * Data - HeaderSize
      /\ Len(Body(data)) >= n => SubSeq(Body(data), 1, n) = Payload(n)
  BY <1>2, <1>3, BodyHolds
<1> QED
  BY <1>1, <1>2, <1>4 DEF data

LEMMA CodecInit == Init => CodecInv
BY DEF Init, CodecInv, Sends, IntactArrive, NeverAltered

LEMMA EncodeKeeps ==
  ASSUME CodecInv, NEW n \in Sizes, Encode(n)
  PROVE  CodecInv'
<1>1. n \in Nat
  BY SizesAssumption
<1>2. payload' = Payload(n) /\ pc' \in {"refused", "panicked", "sent"}
  BY DEF Encode
<1>3. CASE pc' = "sent"
  <2>1. parts' = LaidOut(n)
    BY <1>3 DEF Encode, LaidOut
  <2>2. network' = [i \in Parts |-> Packet(i, parts'[i])]
    BY <1>3 DEF Encode
  <2>3. n <= Data * DataSize
    <3>1. Data * DataSize \in Int /\ Len(Payload(n)) = n
      BY <1>1, Formats, PayloadIs
    <3>2. ChunkSize(Payload(n)) =
            IF n <= Data * DataSize THEN n ELSE Data * DataSize
      BY <1>1, <3>1, MinOfTwo DEF ChunkSize
    <3>3. ~ (ChunkSize(Payload(n)) < n)
      BY <1>3 DEF Encode
    <3> QED
      BY <1>1, <3>1, <3>2, <3>3
  <2>4. Sends'
    BY <1>2, <2>1, <2>3 DEF Sends
  <2>5. IntactArrive'
    BY <2>2 DEF IntactArrive
  <2> QED
    BY <1>3, <2>2, <2>4, <2>5 DEF CodecInv, NeverAltered
<1>4. CASE pc' # "sent"
  <2>1. UNCHANGED network
    BY <1>4 DEF Encode
  <2> QED
    BY <1>2, <1>4, <2>1 DEF CodecInv, Sends, IntactArrive, NeverAltered
<1> QED
  BY <1>3, <1>4

LEMMA NetworkKeeps ==
  ASSUME CodecInv, NEW i \in Parts, Lose(i) \/ DamageData(i) \/ DamageHeader(i)
  PROVE  CodecInv'
<1>1. pc = "sent" /\ UNCHANGED <<payload, parts, pc, result>>
  BY DEF Lose, DamageData, DamageHeader
<1>2. Sends' /\ NeverAltered'
  BY <1>1 DEF CodecInv, Sends, NeverAltered
<1>3. PICK n \in Sizes : parts = LaidOut(n)
  BY <1>1 DEF CodecInv, Sends
<1> DEFINE p == parts[i]
<1>4. p \in Seq(Int) /\ Len(p) = DataSize /\ p[1] # -2
  BY <1>3, SizesAssumption, PartIs
<1>5. /\ ~ Accepts([Packet(i, p) EXCEPT !.part[1] = -2])
      /\ ~ Accepts([Packet(i, p) EXCEPT !.psn = (i + 1) % Total])
  <2> HIDE DEF p
  <2> QED
    BY <1>4, DamageShows
<1>6. ~ Accepts(Nil)
  BY DEF Accepts
<1>7. \E x : network' = [network EXCEPT ![i] = x] /\ ~ Accepts(x)
  <2>1. CASE Lose(i)
    BY <2>1, <1>6 DEF Lose
  <2>2. CASE DamageData(i)
    <3>1. network' = [network EXCEPT ![i] = [network[i] EXCEPT !.part[1] = -2]]
      BY <2>2 DEF DamageData
    <3>2. network[i] = Packet(i, p)
      BY <2>2 DEF DamageData
    <3> QED
      BY <1>5, <3>1, <3>2
  <2>3. CASE DamageHeader(i)
    <3>1. network' =
            [network EXCEPT ![i] = [network[i] EXCEPT !.psn = (i + 1) % Total]]
      BY <2>3 DEF DamageHeader
    <3>2. network[i] = Packet(i, p)
      BY <2>3 DEF DamageHeader
    <3> QED
      BY <1>5, <3>1, <3>2
  <2> QED
    BY <2>1, <2>2, <2>3
<1>8. PICK x : network' = [network EXCEPT ![i] = x] /\ ~ Accepts(x)
  BY <1>7
<1>9. network = [j \in Parts |-> network[j]]
  BY DEF CodecInv
<1>10. /\ network'[i] = x
       /\ \A j \in Parts : j # i => network'[j] = network[j]
       /\ network' = [j \in Parts |-> network'[j]]
  BY <1>8, <1>9
<1>11. IntactArrive'
  BY <1>1, <1>8, <1>10 DEF CodecInv, IntactArrive
<1> QED
  BY <1>2, <1>10, <1>11 DEF CodecInv

LEMMA RestoreKeeps ==
  ASSUME CodecInv, Restore
  PROVE  CodecInv'
<1>1. /\ pc = "sent" /\ pc' \in {"restored", "failed"}
      /\ UNCHANGED <<payload, parts, network>>
  BY DEF Restore
<1>2. Sends' /\ IntactArrive'
  BY <1>1 DEF CodecInv, Sends, IntactArrive
<1>3. NeverAltered'
  <2> SUFFICES ASSUME pc' = "restored" PROVE result' = payload
    BY <1>1 DEF NeverAltered
  <2> DEFINE data == [i \in 1 .. Data |-> Reconstructed(i - 1)]
  <2>1. /\ Len(Body(data)) >= data[1][1]
        /\ result' = SubSeq(Body(data), 1, data[1][1])
    BY DEF Restore
  <2>2. /\ data[1][1] = Len(payload)
        /\ Len(Body(data)) >= Len(payload) =>
             SubSeq(Body(data), 1, Len(payload)) = payload
    BY <1>1, RestoreIs
  <2> HIDE DEF data
  <2> QED
    BY <2>1, <2>2
<1> QED
  BY <1>1, <1>2, <1>3 DEF CodecInv

LEMMA CodecStep == CodecInv /\ [Next]_vars => CodecInv'
<1>1. CodecInv /\ UNCHANGED vars => CodecInv'
  BY DEF vars, CodecInv, Sends, IntactArrive, NeverAltered
<1> QED
  BY <1>1, EncodeKeeps, NetworkKeeps, RestoreKeeps DEF Next

THEOREM CodecInvariance == Spec => []CodecInv
BY CodecInit, CodecStep, PTL DEF Spec

(* For every size and number of the parts and every payload: whatever is   *)
(* lost, damaged or given another place, what restore hands on is what     *)
(* NewChunk was given (chunk.go:57-97, packet_v2.go:67-80,                 *)
(* decoder.go:203-216).                                                    *)
THEOREM PayloadNeverAltered == Spec => []NeverAltered
<1>1. CodecInv => NeverAltered
  BY DEF CodecInv
<1> QED
  BY <1>1, CodecInvariance, PTL

(* What encode is given: the aggregator flushes no more bytes than a full  *)
(* buffer holds, IncomingSize (encoder.go:75, 98 and Aggregator, TypeOK),  *)
(* and encode refuses what NewChunk does not take (encoder.go:144).        *)
FlushSizes == \A n \in Sizes : n <= IncomingSize \/ n > Data * DataSize

EnoughInv == CodecInv /\ FlushSizes /\ EnoughSuffices

LEMMA FlushedFits ==
  ASSUME FlushSizes, NEW n \in Sizes, n <= Data * DataSize
  PROVE  /\ n \in Nat /\ n <= DataSize * Data - HeaderSize
         /\ Fits(Payload(n))
<1>1. n \in Nat
  BY SizesAssumption
<1>2. n <= DataSize * Data - HeaderSize
  <2>1. Data * DataSize \in Int
    BY Formats
  <2> QED
    BY <1>1, <2>1 DEF FlushSizes, IncomingSize
<1>3. DataSize * Data <= DataSize * Total
  <2>1. DataSize * (Total - Data) >= 0
    BY Formats
  <2> QED
    BY <2>1, Formats
<1>4. UpTo(n, Total - 1) = n
  <2> DEFINE a == DataSize * Data
             b == DataSize * Total
  <2>1. a \in Int /\ b \in Int /\ a <= b /\ n <= a - HeaderSize
    BY <1>2, <1>3, Formats
  <2>2. DataSize * ((Total - 1) + 1) = b
    BY Formats
  <2> HIDE DEF a, b
  <2>3. n <= b - HeaderSize
    BY <1>1, <2>1, Formats
  <2> QED
    BY <2>2, <2>3 DEF UpTo
<1>5. Total - 1 \in Parts /\ Len(Payload(n)) = n
  BY <1>1, Formats, PayloadIs DEF Parts
<1>6. Copied(Payload(n))[Total - 1] = n
  BY <1>1, <1>4, <1>5, CopiedIs
<1> QED
  BY <1>1, <1>2, <1>5, <1>6 DEF Fits

LEMMA EncodeEnough ==
  ASSUME FlushSizes, NEW n \in Sizes, Encode(n)
  PROVE  EnoughSuffices'
<1>1. pc' \in {"refused", "panicked", "sent"}
  BY DEF Encode
<1>2. ASSUME pc' = "panicked" PROVE FALSE
  <2>1. ~ (ChunkSize(Payload(n)) < n) /\ ~ Fits(Payload(n))
    BY <1>2 DEF Encode
  <2>2. n \in Nat /\ Data * DataSize \in Int /\ Len(Payload(n)) = n
    BY SizesAssumption, Formats, PayloadIs
  <2>3. ChunkSize(Payload(n)) =
          IF n <= Data * DataSize THEN n ELSE Data * DataSize
    BY <2>2, MinOfTwo DEF ChunkSize
  <2>4. n <= Data * DataSize
    BY <2>1, <2>2, <2>3
  <2> QED
    BY <2>1, <2>4, FlushedFits
<1> QED
  BY <1>1, <1>2 DEF EnoughSuffices

LEMMA RestoreEnough ==
  ASSUME EnoughInv, Restore
  PROVE  EnoughSuffices'
<1>1. pc = "sent" /\ pc' \in {"restored", "failed"} /\ network' = network
  BY DEF Restore
<1>2. Arrived' = Arrived
  BY <1>1 DEF Arrived, Accepts
<1>3. {i \in Parts : HasShard(i)} = Arrived
  BY <1>1, ShardsAreParts DEF EnoughInv, CodecInv, Arrived
<1>4. Cardinality(Arrived) \in Nat
  <2>1. IsFiniteSet(Parts) /\ Arrived \subseteq Parts
    BY Formats, FS_Interval DEF Parts, Arrived
  <2> QED
    BY <2>1, FS_Subset, FS_CardinalityType
<1>5. ASSUME pc' = "failed" PROVE Cardinality(Arrived) < Data
  <2> DEFINE data == [i \in 1 .. Data |-> Reconstructed(i - 1)]
  <2>1. ~ (/\ Cardinality({i \in Parts : HasShard(i)}) >= Data
           /\ Len(Body(data)) >= data[1][1])
    BY <1>5 DEF Restore
  <2>2. /\ data[1][1] = Len(payload)
        /\ Len(Body(data)) = DataSize * Data - HeaderSize
    BY <1>1, RestoreIs DEF EnoughInv
  <2>3. PICK n \in Sizes : n <= Data * DataSize /\ payload = Payload(n)
    BY <1>1 DEF EnoughInv, CodecInv, Sends
  <2>4. n \in Nat /\ n <= DataSize * Data - HeaderSize /\ Len(payload) = n
    BY <2>3, FlushedFits, PayloadIs DEF EnoughInv
  <2> HIDE DEF data
  <2>5. Len(Body(data)) >= data[1][1]
    BY <2>2, <2>4, Formats
  <2> DEFINE c == Cardinality(Arrived)
  <2>6. ~ (c >= Data)
    BY <1>3, <2>1, <2>5
  <2>7. c \in Nat
    BY <1>4
  <2> HIDE DEF c
  <2>8. c < Data
    BY <2>6, <2>7, Formats
  <2> QED
    BY <2>8 DEF c
<1> QED
  BY <1>1, <1>2, <1>5 DEF EnoughSuffices

(* Any Data intact packets restore the payload and Marshal never runs out  *)
(* of parts, for every format and every number of parts, whenever the      *)
(* payload fits the aggregator's buffer (chunk.go:22, 57-72,               *)
(* decoder.go:191-216).                                                    *)
THEOREM EnoughPartsSuffice == FlushSizes /\ Spec => []EnoughSuffices
<1>1. FlushSizes /\ Init => EnoughInv
  BY CodecInit DEF EnoughInv, Init, EnoughSuffices
<1>2. EnoughInv /\ [Next]_vars => EnoughInv'
  <2> SUFFICES ASSUME EnoughInv, [Next]_vars PROVE EnoughInv'
    OBVIOUS
  <2>1. CodecInv' /\ FlushSizes'
    BY CodecStep DEF EnoughInv, FlushSizes, IncomingSize
  <2>2. ASSUME NEW n \in Sizes, Encode(n) PROVE EnoughSuffices'
    BY <2>2, EncodeEnough DEF EnoughInv
  <2>3. ASSUME NEW i \in Parts, Lose(i) \/ DamageData(i) \/ DamageHeader(i)
        PROVE  EnoughSuffices'
    BY <2>3 DEF Lose, DamageData, DamageHeader, EnoughSuffices
  <2>4. ASSUME UNCHANGED vars PROVE EnoughSuffices'
    BY <2>4 DEF vars, EnoughInv, EnoughSuffices, Arrived, Accepts
  <2>5. ASSUME Restore PROVE EnoughSuffices'
    BY <2>5, RestoreEnough
  <2>6. EnoughSuffices'
    BY <2>2, <2>3, <2>4, <2>5 DEF Next
  <2> QED
    BY <2>1, <2>6 DEF EnoughInv
<1>3. EnoughInv => EnoughSuffices
  BY DEF EnoughInv
<1> QED
  BY <1>1, <1>2, <1>3, PTL DEF Spec
=============================================================================
