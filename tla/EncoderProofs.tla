----------------------------- MODULE EncoderProofs -----------------------------
(***************************************************************************)
(* The interleaver puts every packet of every block on the wire in the     *)
(* order of Interleaving, for every depth and every number of parts, and   *)
(* that order keeps the packets of one chunk Depth places apart.           *)
(*                                                                         *)
(* The aggregator forgets no byte, since the buffer is empty during a      *)
(* flush (FlushesAll), and its chunks are the written stream: chunks, what *)
(* is flushed, the bytes in hand, the buffer and the queue, one after the  *)
(* other, are what was written (StreamInv).                                *)
(*                                                                         *)
(* The composed encoder implements the aggregator and, until its           *)
(* dispatcherQueue is closed, the interleaver, so that what is proved of   *)
(* the parts holds of the whole.  The parts meet in encodeQueue:           *)
(* Interleaver counts the chunks that were sent to it, Aggregator records  *)
(* them, and both counts agree (OneQueue).  When it is closed nil packets  *)
(* fill the block up; what is left in it is still in order (NilsCollected).*)
(***************************************************************************)
EXTENDS Encoder, DataLemmas

-----------------------------------------------------------------------------
(* The interleaver. *)

(* The inductive invariant.  Block Block is on its way, Sent of its places *)
(* are on the wire; Collected packets have left dispatcherQueue.           *)
Block == Len(wire) \div BlockSize
Sent == Len(wire) % BlockSize
Collected == BlockSize * Block + length

(* dispatcherQueue holds the packets that come next. *)
QueueInOrder ==
  \A i \in 1 .. Len(dispatcherQueue) :
    dispatcherQueue[i] = Queued(Collected + (i - 1))

(* encode is at the packet after those. *)
EncodeAtEnd ==
  encodePc # "stopped" =>
    /\ csn # 0
    /\ (csn - 1) * Total + part = Collected + Len(dispatcherQueue)

(* A block is collected in order ...                                       *)
BlockCollected ==
  length < BlockSize =>
    /\ Sent = 0
    /\ \A n \in Places :
         buf[PlaceOf(n)] = IF n < length THEN Queued(BlockSize * Block + n)
                                         ELSE Nil

(* ... and sent place by place. *)
BlockSending ==
  length = BlockSize =>
    \A at \in Places :
      buf[at] = IF at < Sent THEN Nil ELSE AtPlace(Block, at)

StageMatches ==
  /\ dispatchPc = "select" => length < BlockSize
  /\ dispatchPc = "send" => length = BlockSize

IInv ==
  /\ TypeOK
  /\ QueueInOrder
  /\ EncodeAtEnd
  /\ BlockCollected
  /\ BlockSending
  /\ StageMatches
  /\ WireOrder

LEMMA Sizes ==
  /\ Depth \in Nat \ {0} /\ Total \in Nat \ {0} /\ Total >= 2
  /\ BlockSize \in Nat \ {0}
<1>1. Depth \in Nat \ {0} /\ Total \in Nat \ {0} /\ Total >= 2
  BY DepthAssumption, TotalAssumption
<1>2. Depth * Total >= Depth * 0 + Depth
  BY <1>1, MultiplesApart
<1> QED
  BY <1>1, <1>2 DEF BlockSize

(* The places of a block, its size either way round. *)
LEMMA PlacesAre ==
  ASSUME NEW n \in Places
  PROVE  n \in Nat /\ n \in 0 .. Depth * Total - 1 /\ n \in 0 .. Total * Depth - 1
<1>1. Depth * Total = Total * Depth /\ Depth * Total \in Nat
  BY Sizes
<1> QED
  BY <1>1, Sizes DEF Places, BlockSize

(* The rows and columns of a matrix of n rows and m columns, counted along *)
(* the rows: the row of a number below n * m is below n.                   *)
LEMMA QuotientBelow ==
  ASSUME NEW n \in Nat \ {0}, NEW m \in Nat \ {0}, NEW a \in 0 .. n * m - 1
  PROVE  a \div m \in 0 .. n - 1
<1> DEFINE q == a \div m
           r == a % m
<1>0. n * m \in Int
  OBVIOUS
<1>0a. a \in Nat
  BY <1>0
<1>1. a = m * q + r /\ q \in Nat /\ r \in 0 .. m - 1
  BY <1>0a, DivMod
<1>2. q = a \div m
  OBVIOUS
<1> HIDE DEF q, r
<1>3. n * m \in Int /\ m * q \in Int /\ m * n = n * m
  BY <1>1
<1>4. ~ (q >= n)
  <2>1. SUFFICES ASSUME q >= n PROVE m * q >= m * n
    BY <1>1, <1>3
  <2>2. m * (q - n) >= 0
    BY <2>1, <1>1
  <2> QED
    BY <2>2, <1>1
<1> QED
  BY <1>1, <1>2, <1>4

(* Quotient and remainder of m * q + r. *)
LEMMA QuotientIs ==
  ASSUME NEW m \in Nat \ {0}, NEW q \in Nat, NEW r \in 0 .. m - 1
  PROVE  (m * q + r) \div m = q /\ (m * q + r) % m = r
<1> DEFINE a == m * q + r
           p == a \div m
<1>1. a \in Nat
  OBVIOUS
<1>2. a % m = r
  BY <1>1, RemainderIs
<1>3. a = m * p + (a % m) /\ p \in Nat
  BY <1>1, DivMod
<1>4. p = a \div m
  OBVIOUS
<1> HIDE DEF p
<1>5. m * p = m * q
  BY <1>2, <1>3
<1>6. ~ (p > q) /\ ~ (q > p)
  BY <1>3, <1>5, MultiplesApart
<1> QED
  BY <1>2, <1>3, <1>4, <1>6

(* The transposition: number n of a block goes to column n % Total, row    *)
(* n \div Total.                                                           *)
LEMMA PlaceOfIs ==
  ASSUME NEW n \in Places
  PROVE  /\ n \div Total \in 0 .. Depth - 1
         /\ n % Total \in 0 .. Total - 1
         /\ n = Total * (n \div Total) + (n % Total)
         /\ PlaceOf(n) = Depth * (n % Total) + (n \div Total)
         /\ PlaceOf(n) \in Places
<1> DEFINE q == n \div Total
           r == n % Total
<1>1. n = Total * q + r /\ q \in 0 .. Depth - 1 /\ r \in 0 .. Total - 1
  BY Sizes, PlacesAre, DivMod, QuotientBelow
<1>2. q = n \div Total /\ r = n % Total
  OBVIOUS
<1>3. PlaceOf(n) = (Depth * n + q) % BlockSize
  BY DEF PlaceOf
<1> HIDE DEF q, r
<1>4. Depth * n + q = BlockSize * q + (Depth * r + q)
  <2>1. Depth * (Total * q + r) = (Depth * Total) * q + Depth * r
    BY <1>1, Sizes
  <2> QED
    BY <2>1, <1>1, Sizes DEF BlockSize
<1>5. Depth * r + q \in 0 .. BlockSize - 1
  <2>1. Depth * Total >= Depth * r + Depth
    BY <1>1, Sizes, MultiplesApart
  <2> QED
    BY <2>1, <1>1, Sizes DEF BlockSize
<1>6. Depth * n + q \in Nat
  BY <1>1, Sizes
<1>7. (Depth * n + q) % BlockSize = Depth * r + q
  <2>1. q \in Nat
    BY <1>1, Sizes
  <2> QED
    BY <1>4, <1>5, <1>6, <2>1, Sizes, RemainderIs
<1>8. PlaceOf(n) = Depth * r + q
  BY <1>3, <1>7
<1>9. PlaceOf(n) \in Places
  BY <1>5, <1>8 DEF Places
<1> QED
  BY <1>1, <1>2, <1>8, <1>9

(* Every place of the block is the place of one of its packets. *)
LEMMA PlaceOfOnto ==
  ASSUME NEW at \in Places
  PROVE  \E n \in Places : PlaceOf(n) = at
<1> DEFINE c == at \div Depth
           r == at % Depth
           n == Total * r + c
<1>1. at = Depth * c + r /\ c \in 0 .. Total - 1 /\ r \in 0 .. Depth - 1
  BY Sizes, PlacesAre, DivMod, QuotientBelow
<1> HIDE DEF c, r
<1>2. n \in Places
  <2>1. Total * Depth >= Total * r + Total
    BY <1>1, Sizes, MultiplesApart
  <2>2. Total * Depth = BlockSize
    BY Sizes DEF BlockSize
  <2>3. Total * r \in Nat
    BY <1>1, Sizes
  <2> QED
    BY <2>1, <2>2, <2>3, <1>1, Sizes DEF Places
<1>3. n \div Total = r /\ n % Total = c
  BY <1>1, Sizes, QuotientIs
<1>4. PlaceOf(n) = at
  BY <1>1, <1>2, <1>3, PlaceOfIs
<1> QED
  BY <1>2, <1>4

(* No two packets of a block share a place. *)
LEMMA PlaceOfOneToOne ==
  ASSUME NEW m \in Places, NEW n \in Places, PlaceOf(m) = PlaceOf(n)
  PROVE  m = n
<1> DEFINE q == m \div Total
           r == m % Total
           s == n \div Total
           t == n % Total
<1>1. /\ m = Total * q + r /\ q \in 0 .. Depth - 1 /\ r \in 0 .. Total - 1
      /\ PlaceOf(m) = Depth * r + q
  BY PlaceOfIs
<1>2. /\ n = Total * s + t /\ s \in 0 .. Depth - 1 /\ t \in 0 .. Total - 1
      /\ PlaceOf(n) = Depth * t + s
  BY PlaceOfIs
<1> HIDE DEF q, r, s, t
<1>3. /\ r \in Nat /\ t \in Nat
      /\ (Depth * r + q) \div Depth = r /\ (Depth * r + q) % Depth = q
  <2>1. r \in Nat /\ t \in Nat
    BY <1>1, <1>2, Sizes
  <2> QED
    BY <1>1, <2>1, Sizes, QuotientIs
<1>4. (Depth * t + s) \div Depth = t /\ (Depth * t + s) % Depth = s
  BY <1>2, <1>3, Sizes, QuotientIs
<1> QED
  BY <1>1, <1>2, <1>3, <1>4

(* What lies at the place of number n is packet n of the block. *)
LEMMA PlaceHoldsQueued ==
  ASSUME NEW b \in Nat, NEW n \in Places
  PROVE  Queued(BlockSize * b + n) = AtPlace(b, PlaceOf(n))
<1> DEFINE q == n \div Total
           r == n % Total
<1>1. /\ n = Total * q + r /\ q \in 0 .. Depth - 1 /\ r \in 0 .. Total - 1
      /\ PlaceOf(n) = Depth * r + q
  BY PlaceOfIs
<1> HIDE DEF q, r
<1>2. (Depth * r + q) \div Depth = r /\ (Depth * r + q) % Depth = q
  BY <1>1, Sizes, QuotientIs
<1>3. BlockSize * b + n = Total * (b * Depth + q) + r
  <2>1. Total * (b * Depth + q) = (Depth * Total) * b + Total * q
    BY <1>1, Sizes
  <2> QED
    BY <2>1, <1>1, Sizes DEF BlockSize
<1>4. b * Depth + q \in Nat
  BY <1>1, Sizes
<1> DEFINE row == b * Depth + q
<1>5. row \in Nat
  BY <1>4
<1> HIDE DEF row
<1>6. (Total * row + r) \div Total = row /\ (Total * row + r) % Total = r
  BY <1>1, <1>5, Sizes, QuotientIs
<1>7. /\ (BlockSize * b + n) \div Total = b * Depth + q
      /\ (BlockSize * b + n) % Total = r
  BY <1>3, <1>6 DEF row
<1> QED
  BY <1>1, <1>2, <1>7 DEF Queued, AtPlace

(* The chunk of the packet at number k of the wire, in terms of its block  *)
(* and of k itself.                                                        *)
LEMMA ChunkOnWire ==
  ASSUME NEW k \in Nat
  PROVE  /\ k \div BlockSize \in Nat
         /\ k % Depth \in 0 .. Depth - 1
         /\ OnWire(k).csn = Depth * (k \div BlockSize) + (k % Depth) + 1
<1> DEFINE b == k \div BlockSize
           x == k % BlockSize
           c == x \div Depth
           r == x % Depth
           row == Total * b + c
<1>1. /\ k = BlockSize * b + x
      /\ b \in Nat /\ x \in 0 .. BlockSize - 1
  BY Sizes, DivMod
<1>2. x \in Nat
  BY <1>1, Sizes
<1>3. OnWire(k).csn = b * Depth + r + 1
  BY DEF OnWire, AtPlace
<1>4. b = k \div BlockSize
  OBVIOUS
<1> HIDE DEF b, x
<1>5. x = Depth * c + r /\ c \in Nat /\ r \in 0 .. Depth - 1
  BY <1>2, Sizes, DivMod
<1> HIDE DEF c, r
<1>6. k = Depth * row + r
  <2>1. Depth * (Total * b + c) = (Depth * Total) * b + Depth * c
    BY <1>1, <1>5, Sizes
  <2> QED
    BY <2>1, <1>1, <1>5, Sizes DEF BlockSize
<1>7. row \in Nat
  BY <1>1, <1>5, Sizes
<1> HIDE DEF row
<1>8. k % Depth = r
  BY <1>5, <1>6, <1>7, Sizes, QuotientIs
<1>9. b * Depth = Depth * b
  BY <1>1, Sizes
<1> QED
  BY <1>1, <1>3, <1>4, <1>5, <1>8, <1>9

(* Packets of one chunk are at least Depth apart on the wire, so a burst   *)
(* of up to Depth lost packets hits no chunk twice (encoder.go:109, 114).  *)
THEOREM SameChunkFarApart ==
  ASSUME NEW m \in Nat, NEW n \in Nat, m < n, OnWire(m).csn = OnWire(n).csn
  PROVE  n - m >= Depth
<1> DEFINE b == m \div BlockSize
           d == n \div BlockSize
           r == m % Depth
           s == n % Depth
<1>1. /\ b \in Nat /\ r \in 0 .. Depth - 1
      /\ OnWire(m).csn = Depth * b + r + 1
  BY ChunkOnWire
<1>2. /\ d \in Nat /\ s \in 0 .. Depth - 1
      /\ OnWire(n).csn = Depth * d + s + 1
  BY ChunkOnWire
<1>3. r = m % Depth /\ s = n % Depth
  OBVIOUS
<1> HIDE DEF b, d, r, s
<1>4. Depth * b + r = Depth * d + s
  <2>1. Depth * b \in Int /\ Depth * d \in Int /\ r \in Int /\ s \in Int
    BY <1>1, <1>2, Sizes
  <2>2. Depth * b + r + 1 = Depth * d + s + 1
    BY <1>1, <1>2
  <2> QED
    BY <2>1, <2>2
<1>5. (Depth * b + r) % Depth = r /\ (Depth * d + s) % Depth = s
  BY <1>1, <1>2, Sizes, QuotientIs
<1>6. m % Depth = n % Depth
  BY <1>3, <1>4, <1>5
<1>7. SUFFICES ASSUME n - m < Depth PROVE FALSE
  BY Sizes
<1>8. m - n < Depth
  BY Sizes
<1>9. m = n
  BY <1>6, <1>7, <1>8, Sizes, RemainderTellsApart
<1> QED
  BY <1>9

-----------------------------------------------------------------------------
(* Block and place of the next packet on the wire. *)
LEMMA NextOnWire ==
  ASSUME NEW k \in Nat
  PROVE  /\ k \div BlockSize \in Nat
         /\ k % BlockSize \in Places
         /\ (k % BlockSize) + 1 = BlockSize =>
              /\ (k + 1) \div BlockSize = (k \div BlockSize) + 1
              /\ (k + 1) % BlockSize = 0
         /\ (k % BlockSize) + 1 # BlockSize =>
              /\ (k + 1) \div BlockSize = k \div BlockSize
              /\ (k + 1) % BlockSize = (k % BlockSize) + 1
<1> DEFINE b == k \div BlockSize
           x == k % BlockSize
<1>1. k = BlockSize * b + x /\ b \in Nat /\ x \in 0 .. BlockSize - 1
  BY Sizes, DivMod
<1>2. b = k \div BlockSize /\ x = k % BlockSize
  OBVIOUS
<1> HIDE DEF b, x
<1>3. ASSUME x + 1 = BlockSize
      PROVE  (k + 1) \div BlockSize = b + 1 /\ (k + 1) % BlockSize = 0
  <2>1. BlockSize * (b + 1) = BlockSize * b + BlockSize
    BY <1>1, Sizes
  <2>2. BlockSize * b \in Nat
    BY <1>1, Sizes
  <2>3. k + 1 = BlockSize * (b + 1) + 0
    BY <1>1, <1>3, <2>1, <2>2, Sizes
  <2>4. b + 1 \in Nat /\ 0 \in 0 .. BlockSize - 1
    BY <1>1, Sizes
  <2>5. /\ (BlockSize * (b + 1) + 0) \div BlockSize = b + 1
        /\ (BlockSize * (b + 1) + 0) % BlockSize = 0
    BY ONLY <2>4, Sizes, QuotientIs
  <2> QED
    BY <2>3, <2>5
<1>4. ASSUME x + 1 # BlockSize
      PROVE  (k + 1) \div BlockSize = b /\ (k + 1) % BlockSize = x + 1
  <2>1. BlockSize * b \in Nat
    BY <1>1, Sizes
  <2>2. k + 1 = BlockSize * b + (x + 1)
    BY <1>1, <2>1, Sizes
  <2>3. x + 1 \in 0 .. BlockSize - 1
    BY <1>1, <1>4, Sizes
  <2> QED
    BY <2>2, <2>3, <1>1, Sizes, QuotientIs
<1> QED
  BY <1>1, <1>2, <1>3, <1>4 DEF Places

(* What is put on the wire and in the queue are packets. *)
LEMMA PacketsAre ==
  /\ Nil \notin Packets
  /\ \A n \in Nat : Queued(n) \in Packets
  /\ \A b \in Nat, at \in Places : AtPlace(b, at) \in Packets
<1>1. Nil \notin Packets
  BY DEF Nil, Packets
<1>2. ASSUME NEW n \in Nat PROVE Queued(n) \in Packets
  <2>1. n \div Total \in Nat /\ n % Total \in 0 .. Total - 1
    BY Sizes, DivMod
  <2>2. (n \div Total) + 1 \in Nat \ {0}
    BY <2>1
  <2> QED
    BY <2>1, <2>2 DEF Queued, Packets
<1>3. ASSUME NEW b \in Nat, NEW at \in Places PROVE AtPlace(b, at) \in Packets
  <2>1. at \div Depth \in 0 .. Total - 1 /\ at % Depth \in 0 .. Depth - 1
    BY Sizes, PlacesAre, DivMod, QuotientBelow
  <2>2. b * Depth \in Nat
    BY Sizes
  <2>3. b * Depth + (at % Depth) + 1 \in Nat \ {0}
    BY <2>1, <2>2, Sizes
  <2> QED
    BY <2>1, <2>3 DEF AtPlace, Packets
<1> QED
  BY <1>1, <1>2, <1>3

LEMMA InitHolds == Init => IInv
<1> SUFFICES ASSUME Init PROVE IInv
  OBVIOUS
<1>1. Len(wire) = 0 /\ Len(dispatcherQueue) = 0
  BY DEF Init
<1>2. Block = 0 /\ Sent = 0
  <2>1. (BlockSize * 0 + 0) \div BlockSize = 0 /\ (BlockSize * 0 + 0) % BlockSize = 0
    BY Sizes, QuotientIs
  <2>2. BlockSize * 0 + 0 = 0
    BY Sizes
  <2> QED
    BY <1>1, <2>1, <2>2 DEF Block, Sent
<1>3. Collected = 0
  BY <1>2, Sizes DEF Init, Collected
<1>4. TypeOK
  <2>1. buf \in [Places -> Packets \cup {Nil}]
    BY DEF Init
  <2>2. part \in 0 .. Total - 1 /\ length \in 0 .. BlockSize
    BY Sizes DEF Init
  <2>3. dispatcherQueue \in Seq(Packets) /\ wire \in Seq(Packets)
    BY DEF Init
  <2> QED
    BY <2>1, <2>2, <2>3 DEF Init, TypeOK
<1>5. QueueInOrder /\ WireOrder
  BY <1>1 DEF QueueInOrder, WireOrder
<1>6. EncodeAtEnd
  <2>1. (1 - 1) * Total + 0 = 0
    BY Sizes
  <2> QED
    BY <1>1, <1>3, <2>1 DEF Init, EncodeAtEnd
<1>7. BlockCollected
  BY <1>2, PlaceOfIs, Sizes DEF Init, BlockCollected, Places
<1>8. BlockSending /\ StageMatches
  BY Sizes DEF Init, BlockSending, StageMatches
<1> QED
  BY <1>4, <1>5, <1>6, <1>7, <1>8 DEF IInv

(* Steps that leave queue, block and wire alone. *)
LEMMA AloneKeeps ==
  ASSUME IInv, TypeOK', EncodeAtEnd', StageMatches',
         UNCHANGED <<dispatcherQueue, buf, length, wire>>
  PROVE  IInv'
<1>1. Block' = Block /\ Sent' = Sent /\ Collected' = Collected
  BY DEF Block, Sent, Collected
<1>2. QueueInOrder' /\ WireOrder'
  BY <1>1 DEF IInv, QueueInOrder, WireOrder
<1>3. BlockCollected' /\ BlockSending'
  BY <1>1 DEF IInv, BlockCollected, BlockSending
<1> QED
  BY <1>2, <1>3 DEF IInv

LEMMA SendPartKeeps ==
  ASSUME IInv, SendPart
  PROVE  IInv'
<1> DEFINE k == Len(dispatcherQueue)
<1>1. /\ dispatcherQueue \in Seq(Packets) /\ k \in Nat
      /\ csn \in Nat \ {0} /\ part \in 0 .. Total - 1
      /\ (csn - 1) * Total + part = Collected + k
  BY DEF IInv, TypeOK, EncodeAtEnd, SendPart
<1>2. Block' = Block /\ Sent' = Sent /\ Collected' = Collected
  BY DEF SendPart, Block, Sent, Collected, dispatchVars
<1>3. Block \in Nat /\ Collected \in Nat
  <2>1. Block \in Nat
    BY NextOnWire DEF IInv, TypeOK, Block
  <2>2. BlockSize * Block \in Nat
    BY <2>1, Sizes
  <2> QED
    BY <2>1, <2>2 DEF IInv, TypeOK, Collected
<1>4. [csn |-> csn, psn |-> part] = Queued(Collected + k)
  <2>1. (csn - 1) * Total = Total * (csn - 1) /\ csn - 1 \in Nat
    BY <1>1, Sizes
  <2>2. /\ (Total * (csn - 1) + part) \div Total = csn - 1
        /\ (Total * (csn - 1) + part) % Total = part
    BY <1>1, <2>1, Sizes, QuotientIs
  <2> QED
    BY <1>1, <2>1, <2>2 DEF Queued
<1>5. dispatcherQueue' = Append(dispatcherQueue, Queued(Collected + k))
  BY <1>4 DEF SendPart
<1>6. Queued(Collected + k) \in Packets
  BY <1>1, <1>3, PacketsAre
<1>7. QueueInOrder'
  <2>1. SUFFICES ASSUME NEW i \in 1 .. k + 1
                 PROVE  dispatcherQueue'[i] = Queued(Collected + (i - 1))
    BY <1>1, <1>2, <1>5, SMTT(30) DEF QueueInOrder
  <2>2. CASE i = k + 1
    BY <2>2, <1>1, <1>5
  <2>3. CASE i # k + 1
    BY <2>3, <1>1, <1>5 DEF IInv, QueueInOrder
  <2> QED
    BY <2>2, <2>3
<1>8. EncodeAtEnd'
  <2>1. Len(dispatcherQueue') = k + 1
    BY <1>1, <1>5
  <2>2. CASE part + 1 = Total
    <3>1. part' = 0 /\ csn' = csn + 1
      BY <2>2 DEF SendPart
    <3>2. (csn' - 1) * Total + part' = (csn - 1) * Total + Total
      BY <3>1, <1>1, Sizes
    <3>3. (csn - 1) * Total \in Int
      BY <1>1, Sizes
    <3> QED
      BY <2>1, <2>2, <3>1, <3>2, <3>3, <1>1, <1>2, <1>3 DEF EncodeAtEnd
  <2>3. CASE part + 1 # Total
    <3>1. part' = part + 1 /\ csn' = csn
      BY <2>3 DEF SendPart
    <3>2. (csn - 1) * Total \in Int
      BY <1>1, Sizes
    <3> QED
      BY <2>1, <3>1, <3>2, <1>1, <1>2, <1>3 DEF EncodeAtEnd
  <2> QED
    BY <2>2, <2>3
<1>9. TypeOK'
  BY <1>1, <1>5, <1>6, Sizes DEF IInv, TypeOK, SendPart, dispatchVars
<1>10. /\ BlockCollected' /\ BlockSending' /\ StageMatches' /\ WireOrder'
  BY <1>2 DEF IInv, SendPart, dispatchVars,
     BlockCollected, BlockSending, StageMatches, WireOrder
<1> QED
  BY <1>7, <1>8, <1>9, <1>10 DEF IInv

(* Facts about any state of the invariant. *)
LEMMA CountsAre ==
  ASSUME IInv
  PROVE  /\ Len(wire) \in Nat /\ Block \in Nat /\ Sent \in Places
         /\ Sent \in Nat /\ BlockSize * Block \in Nat
         /\ length \in Nat /\ length <= BlockSize
         /\ Collected \in Nat
<1>1. Len(wire) \in Nat /\ length \in 0 .. BlockSize
  BY DEF IInv, TypeOK
<1>2. Block \in Nat /\ Sent \in Places
  BY <1>1, NextOnWire DEF Block, Sent
<1>3. BlockSize * Block \in Nat
  BY <1>2, Sizes
<1> QED
  BY <1>1, <1>2, <1>3, Sizes DEF Places, Collected

LEMMA CollectKeeps ==
  ASSUME IInv, Collect
  PROVE  IInv'
<1> DEFINE n == length
           q == dispatcherQueue
           base == BlockSize * Block
<1>1. /\ q \in Seq(Packets) /\ q # << >> /\ Len(q) \in Nat /\ 1 \in 1 .. Len(q)
      /\ q' = Tail(q) /\ buf' = [buf EXCEPT ![PlaceOf(n)] = Head(q)]
      /\ length' = n + 1 /\ n \in Places /\ wire' = wire
      /\ buf \in [Places -> Packets \cup {Nil}]
  BY CountsAre, Sizes DEF IInv, TypeOK, StageMatches, Collect, Places
<1>2. /\ Block' = Block /\ Sent' = Sent /\ Sent = 0
      /\ Block \in Nat /\ base \in Nat
      /\ Collected = base + n /\ Collected' = base + n + 1
  BY <1>1, CountsAre DEF IInv, StageMatches, BlockCollected, Collect,
     Block, Sent, Collected
<1>3. Head(q) = Queued(base + n)
  <2>1. q[1] = Queued(Collected + (1 - 1))
    BY <1>1 DEF IInv, QueueInOrder
  <2>2. Collected + (1 - 1) = base + n
    BY <1>2, CountsAre
  <2> QED
    BY <1>1, <2>1, <2>2
<1>4. Queued(base + n) \in Packets
  BY <1>2, CountsAre, PacketsAre
<1>5. PlaceOf(n) \in Places
  BY <1>1, PlaceOfIs
<1>6. TypeOK'
  <2>1. buf' \in [Places -> Packets \cup {Nil}]
    BY <1>1, <1>3, <1>4, <1>5
  <2>2. q' \in Seq(Packets)
    BY <1>1
  <2>3. length' \in 0 .. BlockSize
    BY <1>1, CountsAre, Sizes DEF Places
  <2> QED
    BY <2>1, <2>2, <2>3 DEF IInv, TypeOK, Collect, encodeVars
<1>7. QueueInOrder'
  <2>1. SUFFICES ASSUME NEW i \in 1 .. Len(q')
                 PROVE  q'[i] = Queued(Collected' + (i - 1))
    BY DEF QueueInOrder
  <2>2. q'[i] = q[i + 1] /\ i + 1 \in 1 .. Len(q) /\ i \in Nat
    BY <1>1
  <2>3. q[i + 1] = Queued(Collected + ((i + 1) - 1))
    BY <2>2 DEF IInv, QueueInOrder
  <2>4. Collected + ((i + 1) - 1) = Collected' + (i - 1)
    BY <1>2, <2>2, CountsAre
  <2> QED
    BY <2>2, <2>3, <2>4
<1>8. EncodeAtEnd'
  <2>1. Len(q') = Len(q) - 1
    BY <1>1
  <2>2. Collected' + Len(q') = Collected + Len(q)
    BY <1>1, <1>2, <2>1, CountsAre
  <2> QED
    BY <2>2 DEF IInv, EncodeAtEnd, Collect, encodeVars
<1>9. ASSUME NEW m \in Places
      PROVE  buf'[PlaceOf(m)] = IF m < n + 1 THEN Queued(base + m) ELSE Nil
  <2>1. PlaceOf(m) \in Places
    BY PlaceOfIs
  <2>2. CASE m = n
    BY <1>1, <1>3, <1>5, <2>2, Sizes DEF Places
  <2>3. CASE m # n
    <3>1. buf'[PlaceOf(m)] = buf[PlaceOf(m)]
      BY <1>1, <1>5, <2>1, <2>3, PlaceOfOneToOne
    <3>2. buf[PlaceOf(m)] = IF m < n THEN Queued(base + m) ELSE Nil
      BY <1>1, Sizes DEF IInv, BlockCollected, Places
    <3>3. m < n <=> m < n + 1
      BY <1>1, <2>3, Sizes DEF Places
    <3> QED
      BY <3>1, <3>2, <3>3
  <2> QED
    BY <2>2, <2>3
<1>10. BlockCollected'
  BY <1>1, <1>2, <1>9 DEF BlockCollected
<1>11. BlockSending'
  <2>1. SUFFICES ASSUME n + 1 = BlockSize, NEW at \in Places
                 PROVE  buf'[at] = AtPlace(Block, at)
    BY <1>1, <1>2, Sizes DEF BlockSending, Places
  <2>2. PICK m \in Places : PlaceOf(m) = at
    BY PlaceOfOnto
  <2>3. m < n + 1
    BY <2>1, Sizes DEF Places
  <2>4. buf'[at] = Queued(base + m)
    BY <1>9, <2>2, <2>3
  <2> QED
    BY <1>2, <2>2, <2>4, PlaceHoldsQueued
<1>12. StageMatches'
  BY <1>1, CountsAre, Sizes DEF StageMatches, Collect, Places
<1>13. WireOrder'
  BY <1>1 DEF IInv, WireOrder
<1> QED
  BY <1>6, <1>7, <1>8, <1>10, <1>11, <1>12, <1>13 DEF IInv

LEMMA SendPlaceKeeps ==
  ASSUME IInv, NEW at \in Places, SendPlace(at)
  PROVE  IInv'
<1> DEFINE k == Len(wire)
           base == BlockSize * Block
<1>1. /\ length = BlockSize /\ k \in Nat /\ wire \in Seq(Packets)
      /\ wire' = Append(wire, buf[at]) /\ Len(wire') = k + 1
      /\ buf' = [buf EXCEPT ![at] = Nil]
      /\ buf \in [Places -> Packets \cup {Nil}]
      /\ Block \in Nat /\ Sent \in Places /\ Sent \in Nat /\ base \in Nat
  BY CountsAre DEF IInv, TypeOK, StageMatches, SendPlace
<1>2. \A p \in Places : buf[p] = IF p < Sent THEN Nil ELSE AtPlace(Block, p)
  BY <1>1 DEF IInv, BlockSending
<1>3. \A p \in Places : AtPlace(Block, p) \in Packets /\ AtPlace(Block, p) # Nil
  BY <1>1, PacketsAre
<1>4. at = Sent
  <2>1. at \in FilledIn(buf) /\ \A other \in FilledIn(buf) : at <= other
    BY DEF SendPlace
  <2>2. Sent \in FilledIn(buf)
    BY <1>1, <1>2, <1>3 DEF FilledIn
  <2>3. ~ (at < Sent)
    BY <1>2, <2>1 DEF FilledIn
  <2> QED
    BY <2>1, <2>2, <2>3, <1>1, Sizes DEF Places
<1>5. buf[at] = AtPlace(Block, Sent)
  BY <1>1, <1>2, <1>4
<1>6. WireOrder'
  <2>1. SUFFICES ASSUME NEW n \in 1 .. k + 1
                 PROVE  wire'[n] = OnWire(n - 1)
    BY <1>1 DEF WireOrder
  <2>2. CASE n = k + 1
    <3>1. OnWire(k) = AtPlace(Block, Sent)
      BY DEF OnWire, Block, Sent
    <3> QED
      BY <2>2, <3>1, <1>1, <1>5
  <2>3. CASE n # k + 1
    BY <2>3, <1>1 DEF IInv, WireOrder
  <2> QED
    BY <2>2, <2>3
<1>7. \A p \in Places :
        buf'[p] = IF p < Sent + 1 THEN Nil ELSE AtPlace(Block, p)
  <2>1. SUFFICES ASSUME NEW p \in Places
                 PROVE  buf'[p] = IF p < Sent + 1 THEN Nil ELSE AtPlace(Block, p)
    OBVIOUS
  <2>2. CASE p = Sent
    BY <2>2, <1>1, <1>4
  <2>3. CASE p # Sent
    <3>1. p < Sent <=> p < Sent + 1
      BY <2>3, <1>1, Sizes DEF Places
    <3> QED
      BY <2>3, <3>1, <1>1, <1>2, <1>4
  <2> QED
    BY <2>2, <2>3
<1>8. wire' \in Seq(Packets) /\ buf' \in [Places -> Packets \cup {Nil}]
  BY <1>1, <1>3, <1>5
<1>9. CASE Sent + 1 = BlockSize
  <2>1. \A p \in Places : buf'[p] = Nil
    BY <1>1, <1>7, <1>9, Sizes DEF Places
  <2>2. FilledIn(buf') = {}
    BY <2>1 DEF FilledIn
  <2>3. length' = 0 /\ dispatchPc' = "select"
    BY <2>2 DEF SendPlace
  <2>4. Block' = Block + 1 /\ Sent' = 0
    BY <1>1, <1>9, NextOnWire DEF Block, Sent
  <2>5. Collected' = Collected
    <3>1. BlockSize * (Block + 1) = base + BlockSize
      BY <1>1, Sizes
    <3> QED
      BY <1>1, <2>3, <2>4, <3>1, Sizes DEF Collected
  <2>6. TypeOK'
    BY <1>8, <2>3, Sizes DEF IInv, TypeOK, SendPlace, encodeVars
  <2>7. QueueInOrder' /\ EncodeAtEnd'
    BY <2>5 DEF IInv, QueueInOrder, EncodeAtEnd, SendPlace, encodeVars
  <2>8. BlockCollected'
    <3>1. \A n \in Places : buf'[PlaceOf(n)] = Nil /\ ~ (n < 0)
      BY <2>1, PlaceOfIs, Sizes DEF Places
    <3> QED
      BY <2>3, <2>4, <3>1 DEF BlockCollected
  <2>9. BlockSending' /\ StageMatches'
    BY <2>3, Sizes DEF BlockSending, StageMatches
  <2> QED
    BY <1>6, <2>6, <2>7, <2>8, <2>9 DEF IInv
<1>10. CASE Sent + 1 # BlockSize
  <2>1. Sent + 1 \in Places
    BY <1>1, <1>10, Sizes DEF Places
  <2>2. buf'[Sent + 1] # Nil
    BY <2>1, <1>1, <1>3, <1>7
  <2>3. FilledIn(buf') # {}
    BY <2>1, <2>2 DEF FilledIn
  <2>4. length' = length /\ dispatchPc' = dispatchPc /\ dispatchPc = "send"
    BY <2>3 DEF SendPlace
  <2>5. Block' = Block /\ Sent' = Sent + 1
    BY <1>1, <1>10, NextOnWire DEF Block, Sent
  <2>6. Collected' = Collected
    BY <2>4, <2>5 DEF Collected
  <2>7. TypeOK'
    BY <1>8, <2>4 DEF IInv, TypeOK, SendPlace, encodeVars
  <2>8. QueueInOrder' /\ EncodeAtEnd'
    BY <2>6 DEF IInv, QueueInOrder, EncodeAtEnd, SendPlace, encodeVars
  <2>9. BlockSending'
    BY <1>7, <2>5 DEF BlockSending
  <2>10. BlockCollected' /\ StageMatches'
    BY <1>1, <2>4, Sizes DEF IInv, BlockCollected, StageMatches
  <2> QED
    BY <1>6, <2>7, <2>8, <2>9, <2>10 DEF IInv
<1> QED
  BY <1>9, <1>10

(* Every step keeps the invariant. *)
LEMMA NextKeeps == IInv /\ [Next]_vars => IInv'
<1> SUFFICES ASSUME IInv, [Next]_vars PROVE IInv'
  OBVIOUS
<1> USE DEF IInv, TypeOK, EncodeAtEnd, StageMatches, Block, Collected,
        encodeVars, dispatchVars
<1>1. CASE Flush
  BY <1>1, AloneKeeps DEF Flush
<1>2. CASE Take
  BY <1>2, AloneKeeps DEF Take
<1>3. CASE Cancel
  BY <1>3, AloneKeeps DEF Cancel
<1>4. CASE TakeChunk
  BY <1>4, AloneKeeps DEF TakeChunk
<1>5. CASE SendPart
  BY <1>5, SendPartKeeps
<1>6. CASE StopEncode
  BY <1>6, AloneKeeps DEF StopEncode
<1>7. CASE Collect
  BY <1>7, CollectKeeps
<1>8. CASE \E at \in Places : SendPlace(at)
  BY <1>8, SendPlaceKeeps
<1>9. CASE StopDispatch
  BY <1>9, AloneKeeps DEF StopDispatch
<1>10. CASE UNCHANGED vars
  BY <1>10, AloneKeeps DEF vars
<1> QED
  BY <1>1, <1>2, <1>3, <1>4, <1>5, <1>6, <1>7, <1>8, <1>9, <1>10
     DEF Next, Encode, Dispatch

-----------------------------------------------------------------------------
(* The strengthening holds in every reachable state: what is collected,    *)
(* queued and sent are consecutive parts of the numbered chunks            *)
(* (encoder.go:98-178).                                                    *)
THEOREM Invariance == Spec => []IInv
<1> QED
  BY InitHolds, NextKeeps, PTL DEF Spec

(* The types, and that the block is never counted past its size            *)
(* (encoder.go:113).                                                       *)
THEOREM TypeCorrect == Spec => []TypeOK
<1>1. IInv => TypeOK
  BY DEF IInv
<1> QED
  BY <1>1, Invariance, PTL

(* The wire carries exactly the interleaving of the numbered chunks,       *)
(* whatever the depth, the parts and the capacities (encoder.go:98-178).   *)
THEOREM WireCarriesInterleaving == Spec => []WireOrder
<1>1. IInv => WireOrder
  BY DEF IInv
<1> QED
  BY <1>1, Invariance, PTL

(* No chunk has two packets within Depth places of the wire, so a burst of *)
(* up to Depth lost packets costs each chunk one packet (encoder.go:109).  *)
THEOREM BurstsAreSpread == Spec => []BurstSpread
<1>1. TypeOK /\ WireOrder => BurstSpread
  <2>1. SUFFICES ASSUME TypeOK, WireOrder,
                        NEW m \in 1 .. Len(wire), NEW n \in 1 .. Len(wire),
                        m < n, n - m < Depth
                 PROVE  wire[m].csn # wire[n].csn
    BY DEF BurstSpread
  <2>2. Len(wire) \in Nat
    BY <2>1 DEF TypeOK
  <2>3. m - 1 \in Nat /\ n - 1 \in Nat /\ m - 1 < n - 1
    BY <2>1, <2>2
  <2>4. (n - 1) - (m - 1) < Depth
    BY <2>1, <2>2
  <2>5. wire[m] = OnWire(m - 1) /\ wire[n] = OnWire(n - 1)
    BY <2>1 DEF WireOrder
  <2>6. OnWire(m - 1).csn # OnWire(n - 1).csn
    BY <2>3, <2>4, SameChunkFarApart, Sizes
  <2> QED
    BY <2>5, <2>6
<1> QED
  BY <1>1, TypeCorrect, WireCarriesInterleaving, PTL

-----------------------------------------------------------------------------
(* The encoder. *)

Elements(s) == {s[i] : i \in 1 .. Len(s)}

OneQueue == flushed = Len(chunks) /\ chunks \in Seq(Elements(chunks))

(* Steps that leave encodeQueue and the context alone are steps of the     *)
(* aggregator or none.                                                     *)
LEMMA AggregatorStep ==
  ASSUME OneQueue, [EncoderNext]_encoderVars
  PROVE  [Aggregator!Next]_(Aggregator!vars)
<1> USE DEF vars, aggregatorVars, shutdownVars, Aggregator!vars
<1>1. CASE \E n \in WriteSizes : WriteBytes(n)
  BY <1>1 DEF WriteBytes, Aggregator!Next
<1>2. CASE Expire
  BY <1>2 DEF Expire, Aggregator!Next
<1>3. CASE TakePacket \/ WriteFails
  BY <1>3 DEF TakePacket, WriteFails, Take
<1>4. CASE CancelEncoder
  BY <1>4 DEF CancelEncoder, Cancel, Aggregator!Next, Aggregator!Cancel
<1>5. CASE Aggregate
  BY <1>5 DEF Aggregate, FlushChunk, AggregateAlone, Aggregator!Next,
     Aggregator!Aggregate
<1>6. CASE EncodeChunks
  <2>1. CASE TakeChunk
    BY <1>6, <2>1 DEF EncodeChunks, OneQueue, TakeChunk, Aggregator!Next,
       Aggregator!Encode
  <2>2. CASE TakeNil \/ SendPart \/ StopEncode
    BY <1>6, <2>2 DEF EncodeChunks, TakeNil, SendPart, StopEncode
  <2> QED
    BY <1>6, <2>1, <2>2 DEF EncodeChunks
<1>7. CASE DispatchPackets
  BY <1>7 DEF DispatchPackets, Collect, CollectNils, SendPlace, StopDispatch,
     encodeVars
<1>8. CASE Close \/ Panic
  BY <1>8 DEF Close, Panic
<1>9. CASE UNCHANGED encoderVars
  BY <1>9 DEF encoderVars
<1> QED
  BY <1>1, <1>2, <1>3, <1>4, <1>5, <1>6, <1>7, <1>8, <1>9 DEF EncoderNext

(* No step opens a channel again.                                          *)
LEMMA ClosedStays ==
  ASSUME closed \in Nat, [EncoderNext]_encoderVars
  PROVE  closed' \in Nat /\ (DispatcherClosed => DispatcherClosed')
<1>1. closed' = closed \/ closed' = closed + 1
  BY DEF EncoderNext, encoderVars, shutdownVars, WriteBytes, Expire, TakePacket,
     WriteFails, CancelEncoder, Aggregate, EncodeChunks, DispatchPackets, Close, Panic
<1> QED
  BY <1>1 DEF DispatcherClosed

(* Until dispatcherQueue is closed encode and dispatch are given no nil.   *)
LEMMA InterleaverStep ==
  ASSUME closed \in Nat, [EncoderNext]_encoderVars, ~ DispatcherClosed'
  PROVE  [Next]_vars
<1>1. ~ DispatcherClosed /\ ~ EncodeClosed
  BY ClosedStays DEF DispatcherClosed, EncodeClosed
<1>2. CASE Aggregate
  BY <1>2 DEF Aggregate, FlushChunk, Next
<1>3. CASE EncodeChunks
  BY <1>1, <1>3 DEF EncodeChunks, TakeNil, Next, Encode
<1>4. CASE DispatchPackets
  BY <1>1, <1>4 DEF DispatchPackets, CollectNils, Next, Dispatch
<1>5. CASE TakePacket \/ WriteFails \/ CancelEncoder
  BY <1>5 DEF TakePacket, WriteFails, CancelEncoder, Next
<1>6. CASE \/ \E n \in WriteSizes : WriteBytes(n)
           \/ Expire \/ Close \/ Panic
  BY <1>6 DEF WriteBytes, Expire, Close, Panic
<1>7. CASE UNCHANGED encoderVars
  BY <1>7 DEF encoderVars
<1> QED
  BY <1>2, <1>3, <1>4, <1>5, <1>6, <1>7 DEF EncoderNext

(* The two counts of the chunks in encodeQueue agree.                      *)
LEMMA OneQueueStays ==
  ASSUME OneQueue, [EncoderNext]_encoderVars
  PROVE  OneQueue'
<1>1. CASE FlushChunk
  <2> DEFINE S == Elements(chunks) \cup {agData}
  <2>1. chunks' = Append(chunks, agData) /\ flushed' = flushed + 1
    BY <1>1 DEF FlushChunk, Flush, Aggregator!FlushDone
  <2>2. chunks \in Seq(S)
    <3>1. \A i \in 1 .. Len(chunks) : chunks[i] \in S
      BY DEF Elements
    <3> QED
      BY <3>1 DEF OneQueue
  <2>3. chunks' \in Seq(S) /\ Len(chunks') = Len(chunks) + 1
    BY <2>1, <2>2
  <2>4. \A i \in 1 .. Len(chunks') : chunks'[i] \in Elements(chunks')
    BY DEF Elements
  <2>5. chunks' \in Seq(Elements(chunks'))
    BY <2>3, <2>4
  <2> QED
    BY <2>1, <2>3, <2>5 DEF OneQueue, Elements
<1>2. CASE UNCHANGED <<flushed, chunks>>
  BY <1>2 DEF OneQueue, Elements
<1>3. FlushChunk \/ UNCHANGED <<flushed, chunks>>
  BY DEF EncoderNext, encoderVars, vars, aggregatorVars, shutdownVars,
     WriteBytes, Expire, TakePacket, WriteFails, CancelEncoder, Aggregate,
     AggregateAlone,
     EncodeChunks, DispatchPackets, Close, Panic, Take, Cancel, TakeChunk,
     TakeNil, SendPart, StopEncode, Collect, CollectNils, SendPlace,
     StopDispatch, Aggregator!Write, Aggregator!Expire, Aggregator!Receive,
     Aggregator!Timeout, Aggregator!FlushAbandoned, Aggregator!Stop
<1> QED
  BY <1>1, <1>2, <1>3

-----------------------------------------------------------------------------
(* The numbers of the packets on the wire. *)
LEMMA WireIndexAt ==
  ASSUME NEW b \in Nat, NEW at \in Places
  PROVE  WireIndex(AtPlace(b, at)) = BlockSize * b + at
<1> DEFINE c == at \div Depth
           r == at % Depth
<1>1. at = Depth * c + r /\ c \in Nat /\ r \in 0 .. Depth - 1
  BY Sizes, PlacesAre, DivMod
<1>2. AtPlace(b, at) = [csn |-> b * Depth + r + 1, psn |-> c]
  BY DEF AtPlace
<1> HIDE DEF c, r
<1>3. (b * Depth + r + 1) - 1 = Depth * b + r
  BY <1>1, Sizes
<1>4. (Depth * b + r) \div Depth = b /\ (Depth * b + r) % Depth = r
  BY <1>1, Sizes, QuotientIs
<1>5. WireIndex(AtPlace(b, at)) = BlockSize * b + Depth * c + r
  BY <1>2, <1>3, <1>4 DEF WireIndex
<1>6. BlockSize * b \in Nat /\ Depth * c \in Nat
  BY <1>1, Sizes
<1> QED
  BY <1>1, <1>5, <1>6, Sizes

LEMMA WireIndexOn ==
  ASSUME NEW k \in Nat
  PROVE  WireIndex(OnWire(k)) = k
<1>1. k \div BlockSize \in Nat /\ k % BlockSize \in Places
  BY NextOnWire
<1>2. k = BlockSize * (k \div BlockSize) + (k % BlockSize)
  BY Sizes, DivMod
<1> QED
  BY <1>1, <1>2, WireIndexAt DEF OnWire

LEMMA OrderedIndexes ==
  ASSUME IInv
  PROVE  \A m \in 1 .. Len(wire) : m \in Nat /\ WireIndex(wire[m]) = m - 1
<1> SUFFICES ASSUME NEW m \in 1 .. Len(wire)
             PROVE  m \in Nat /\ WireIndex(wire[m]) = m - 1
  OBVIOUS
<1>1. m - 1 \in Nat /\ m \in Nat
  BY CountsAre
<1>2. wire[m] = OnWire(m - 1)
  BY DEF IInv, WireOrder
<1> QED
  BY <1>1, <1>2, WireIndexOn

(* Once nil packets have completed a block nothing comes after it, and     *)
(* what is left of it goes behind what is on the wire.                     *)
Ascending ==
  \A m, n \in 1 .. Len(wire) : m < n => WireIndex(wire[m]) < WireIndex(wire[n])

Remaining(b) ==
  \A at \in FilledIn(buf) :
    /\ buf[at] = AtPlace(b, at)
    /\ \A m \in 1 .. Len(wire) : WireIndex(wire[m]) < BlockSize * b + at

NilsCollected ==
  /\ dispatcherQueue = << >>
  /\ \E b \in Nat : Remaining(b)
  /\ Ascending

(* Every packet is numbered by a chunk that encode has taken.              *)
Numbered ==
  /\ encoding <= flushed
  /\ ~ DispatcherClosed =>
       /\ encodePc = "select" => csn = encoding + 1
       /\ encodePc = "send" => csn = encoding
  /\ \A i \in 1 .. Len(dispatcherQueue) : dispatcherQueue[i].csn <= encoding
  /\ \A at \in FilledIn(buf) : buf[at].csn <= encoding
  /\ \A i \in 1 .. Len(wire) : wire[i].csn <= encoding

LEMMA NilsBegin ==
  ASSUME IInv, CollectNils
  PROVE  NilsCollected'
<1>1. /\ dispatcherQueue' = << >> /\ buf' = buf /\ wire' = wire
      /\ length < BlockSize
  BY CountsAre DEF IInv, StageMatches, CollectNils
<1>2. Len(wire) = BlockSize * Block
  <2>1. Sent = 0
    BY <1>1 DEF IInv, BlockCollected
  <2>2. Len(wire) = BlockSize * (Len(wire) \div BlockSize) + (Len(wire) % BlockSize)
    BY CountsAre, Sizes, DivMod
  <2> QED
    BY <2>1, <2>2, CountsAre DEF Block, Sent
<1>3. Remaining(Block)
  <2> SUFFICES ASSUME NEW at \in FilledIn(buf)
               PROVE  /\ buf[at] = AtPlace(Block, at)
                      /\ \A m \in 1 .. Len(wire) :
                           WireIndex(wire[m]) < BlockSize * Block + at
    BY DEF Remaining
  <2>1. at \in Places /\ buf[at] # Nil
    BY DEF FilledIn
  <2>2. PICK n \in Places : PlaceOf(n) = at
    BY <2>1, PlaceOfOnto
  <2>3. buf[at] = Queued(BlockSize * Block + n)
    BY <1>1, <2>1, <2>2 DEF IInv, BlockCollected
  <2>4. buf[at] = AtPlace(Block, at)
    BY <2>2, <2>3, CountsAre, PlaceHoldsQueued
  <2>5. ASSUME NEW m \in 1 .. Len(wire)
        PROVE  WireIndex(wire[m]) < BlockSize * Block + at
    <3>1. WireIndex(wire[m]) = m - 1 /\ m \in Nat
      BY OrderedIndexes
    <3>2. at \in Nat
      BY <2>1, PlacesAre
    <3> QED
      BY <1>2, <3>1, <3>2, CountsAre
  <2> QED
    BY <2>4, <2>5
<1>4. Ascending
  BY OrderedIndexes, CountsAre DEF Ascending
<1>5. (\E b \in Nat : Remaining(b))' /\ Ascending'
  <2>1. \E b \in Nat : Remaining(b)
    BY <1>3, CountsAre
  <2> QED
    BY <1>1, <1>4, <2>1 DEF Remaining, Ascending, FilledIn
<1> QED
  BY <1>1, <1>5 DEF NilsCollected

(* The last block goes place by place. *)
LEMMA NilsSend ==
  ASSUME TypeOK, NilsCollected, NEW at \in Places, SendPlace(at)
  PROVE  NilsCollected' /\ TypeOK'
<1>1. PICK b \in Nat : Remaining(b)
  BY DEF NilsCollected
<1>2. /\ at \in FilledIn(buf) /\ \A other \in FilledIn(buf) : at <= other
      /\ wire \in Seq(Packets) /\ Len(wire) \in Nat
      /\ wire' = Append(wire, buf[at])
      /\ buf' = [buf EXCEPT ![at] = Nil]
      /\ buf \in [Places -> Packets \cup {Nil}]
      /\ dispatcherQueue' = dispatcherQueue
  BY DEF TypeOK, SendPlace
<1>3. buf[at] \in Packets /\ buf[at] = AtPlace(b, at)
  BY <1>1, <1>2 DEF FilledIn, Remaining
<1>4. wire' \in Seq(Packets) /\ Len(wire') = Len(wire) + 1
      /\ buf' \in [Places -> Packets \cup {Nil}]
  BY <1>2, <1>3
<1>5. \A m \in 1 .. Len(wire) : wire'[m] = wire[m]
  BY <1>2, <1>3
<1>6. wire'[Len(wire) + 1] = AtPlace(b, at)
  BY <1>2, <1>3
<1>7. BlockSize * b + at \in Nat /\ at \in Nat
  BY PlacesAre, Sizes
<1>8. WireIndex(AtPlace(b, at)) = BlockSize * b + at
  BY WireIndexAt
<1>9. \A m \in 1 .. Len(wire) : WireIndex(wire[m]) < BlockSize * b + at
  BY <1>1, <1>2 DEF Remaining
<1>10. Ascending'
  <2> SUFFICES ASSUME NEW m \in 1 .. Len(wire) + 1, NEW n \in 1 .. Len(wire) + 1,
                      m < n
               PROVE  WireIndex(wire'[m]) < WireIndex(wire'[n])
    BY <1>4 DEF Ascending, WireIndex
  <2>1. m \in 1 .. Len(wire)
    BY <1>2
  <2>2. CASE n = Len(wire) + 1
    BY <2>1, <2>2, <1>5, <1>6, <1>8, <1>9
  <2>3. CASE n # Len(wire) + 1
    <3>1. n \in 1 .. Len(wire)
      BY <2>3, <1>2
    <3> QED
      BY <2>1, <3>1, <1>5 DEF NilsCollected, Ascending
  <2> QED
    BY <2>2, <2>3
<1>11. ASSUME NEW p \in FilledIn(buf')
       PROVE  /\ buf'[p] = AtPlace(b, p)
              /\ \A m \in 1 .. Len(wire) + 1 :
                   WireIndex(wire'[m]) < BlockSize * b + p
  <2>1. p \in Places /\ p # at /\ buf'[p] = buf[p] /\ p \in FilledIn(buf)
    BY <1>2 DEF FilledIn
  <2>2. at < p /\ p \in Nat /\ BlockSize * b \in Nat
    BY <1>2, <1>7, <2>1, PlacesAre, Sizes
  <2>3. buf[p] = AtPlace(b, p)
        /\ \A m \in 1 .. Len(wire) : WireIndex(wire[m]) < BlockSize * b + p
    BY <1>1, <2>1 DEF Remaining
  <2>4. ASSUME NEW m \in 1 .. Len(wire) + 1
        PROVE  WireIndex(wire'[m]) < BlockSize * b + p
    <3>1. CASE m = Len(wire) + 1
      BY <3>1, <1>6, <1>7, <1>8, <2>2
    <3>2. CASE m # Len(wire) + 1
      <4>1. m \in 1 .. Len(wire)
        BY <3>2, <1>2
      <4> QED
        BY <4>1, <1>5, <2>3
    <3> QED
      BY <3>1, <3>2
  <2> QED
    BY <2>1, <2>3, <2>4
<1>12. (\E c \in Nat : Remaining(c))'
  BY <1>4, <1>11 DEF Remaining
<1>13. length' \in 0 .. BlockSize /\ dispatchPc' \in {"select", "send", "stopped"}
  BY Sizes DEF TypeOK, SendPlace
<1>14. TypeOK'
  BY <1>4, <1>13 DEF TypeOK, SendPlace, encodeVars
<1> QED
  BY <1>2, <1>10, <1>12, <1>14 DEF NilsCollected

LEMMA NilsStay ==
  ASSUME TypeOK, DispatcherClosed, NilsCollected, [EncoderNext]_encoderVars
  PROVE  NilsCollected' /\ TypeOK'
<1>1. ASSUME UNCHANGED <<dispatcherQueue, buf, wire>>
      PROVE  NilsCollected'
  BY <1>1 DEF NilsCollected, Remaining, Ascending, FilledIn
<1> USE DEF vars, encodeVars, dispatchVars
<1>2. CASE \E n \in WriteSizes : WriteBytes(n)
  BY <1>1, <1>2 DEF WriteBytes, TypeOK
<1>3. CASE Expire \/ Close \/ Panic
  BY <1>1, <1>3 DEF Expire, Close, Panic, TypeOK
<1>4. CASE TakePacket \/ WriteFails \/ CancelEncoder
  <2>1. /\ UNCHANGED <<dispatcherQueue, buf, wire>>
        /\ UNCHANGED <<flushed, encoding, csn, part, encodePc, length, dispatchPc>>
    BY <1>4 DEF TakePacket, WriteFails, CancelEncoder, Take, Cancel
  <2>2. taken' \in Nat /\ cancelled' \in BOOLEAN
    <3>1. taken \in Nat /\ cancelled \in BOOLEAN
      BY DEF TypeOK
    <3>2. CASE TakePacket \/ WriteFails
      <4>1. taken' = taken + 1 /\ cancelled' = cancelled
        BY <3>2 DEF TakePacket, WriteFails, Take
      <4> QED
        BY <3>1, <4>1
    <3>3. CASE CancelEncoder
      <4>1. taken' = taken /\ cancelled' = TRUE
        BY <3>3 DEF CancelEncoder, Cancel
      <4> QED
        BY <3>1, <4>1
    <3> QED
      BY <1>4, <3>2, <3>3
  <2> QED
    BY <1>1, <2>1, <2>2 DEF TypeOK
<1>5. CASE Aggregate
  BY <1>1, <1>5 DEF Aggregate, FlushChunk, Flush, TypeOK
<1>6. CASE EncodeChunks
  BY <1>1, <1>6 DEF EncodeChunks, TakeChunk, TakeNil, StopEncode, TypeOK
<1>7. CASE DispatchPackets
  <2>1. CASE Collect
    BY <2>1 DEF Collect, NilsCollected
  <2>2. CASE CollectNils
    <3>1. length' \in 0 .. BlockSize
      BY <2>2, Sizes DEF CollectNils
    <3> QED
      BY <1>1, <2>2, <3>1 DEF CollectNils, TypeOK
  <2>3. CASE \E at \in Places : SendPlace(at)
    BY <2>3, NilsSend
  <2>4. CASE StopDispatch
    BY <1>1, <2>4 DEF StopDispatch, TypeOK
  <2> QED
    BY <1>7, <2>1, <2>2, <2>3, <2>4 DEF DispatchPackets
<1>8. CASE UNCHANGED encoderVars
  BY <1>1, <1>8 DEF encoderVars, TypeOK
<1> QED
  BY <1>2, <1>3, <1>4, <1>5, <1>6, <1>7, <1>8 DEF EncoderNext

(* Until then the wire carries the interleaving, also after the channel    *)
(* was closed.                                                             *)
LEMMA OrderedStep ==
  ASSUME closed \in Nat, IInv, [EncoderNext]_encoderVars
  PROVE  IInv' \/ (DispatcherClosed /\ NilsCollected' /\ TypeOK')
<1> USE DEF vars, encodeVars, dispatchVars
<1>1. CASE \E n \in WriteSizes : WriteBytes(n)
  BY <1>1, NextKeeps DEF WriteBytes
<1>2. CASE Expire \/ Close \/ Panic
  BY <1>2, NextKeeps DEF Expire, Close, Panic
<1>3. CASE TakePacket \/ WriteFails \/ CancelEncoder
  BY <1>3, NextKeeps DEF TakePacket, WriteFails, CancelEncoder, Next
<1>4. CASE Aggregate
  BY <1>4, NextKeeps DEF Aggregate, FlushChunk, Next
<1>5. CASE EncodeChunks
  <2>1. CASE TakeNil
    <3>1. TypeOK' /\ EncodeAtEnd' /\ StageMatches'
      BY <2>1 DEF TakeNil, IInv, TypeOK, EncodeAtEnd, StageMatches, Collected,
         Block
    <3> QED
      BY <2>1, <3>1, AloneKeeps DEF TakeNil
  <2>2. CASE TakeChunk \/ SendPart \/ StopEncode
    BY <2>2, NextKeeps DEF Next, Encode
  <2> QED
    BY <1>5, <2>1, <2>2 DEF EncodeChunks
<1>6. CASE DispatchPackets
  <2>1. CASE CollectNils
    <3>1. length' \in 0 .. BlockSize
      BY <2>1, Sizes DEF CollectNils
    <3>2. TypeOK'
      BY <2>1, <3>1 DEF CollectNils, IInv, TypeOK
    <3> QED
      BY <2>1, <3>2, NilsBegin DEF CollectNils
  <2>2. CASE Collect \/ (\E at \in Places : SendPlace(at)) \/ StopDispatch
    BY <2>2, NextKeeps DEF Next, Dispatch
  <2> QED
    BY <1>6, <2>1, <2>2 DEF DispatchPackets
<1>7. CASE UNCHANGED encoderVars
  BY <1>7, NextKeeps DEF encoderVars
<1> QED
  BY <1>1, <1>2, <1>3, <1>4, <1>5, <1>6, <1>7 DEF EncoderNext

LEMMA NumberedStays ==
  ASSUME closed \in Nat, TypeOK, Numbered, [EncoderNext]_encoderVars
  PROVE  Numbered'
<1> USE DEF vars, encodeVars, dispatchVars
<1>0. /\ encoding \in Nat /\ flushed \in Nat /\ csn \in Nat
      /\ dispatcherQueue \in Seq(Packets) /\ wire \in Seq(Packets)
      /\ Len(dispatcherQueue) \in Nat /\ Len(wire) \in Nat
      /\ buf \in [Places -> Packets \cup {Nil}]
  BY DEF TypeOK
<1>1. DispatcherClosed => DispatcherClosed'
  BY ClosedStays
<1>2. ASSUME UNCHANGED <<encoding, csn, encodePc, dispatcherQueue, buf, wire>>,
             flushed' = flushed \/ flushed' = flushed + 1
      PROVE  Numbered'
  BY <1>0, <1>1, <1>2 DEF Numbered, FilledIn
<1>3. CASE \E n \in WriteSizes : WriteBytes(n)
  BY <1>2, <1>3 DEF WriteBytes
<1>4. CASE Expire \/ Close \/ Panic
  BY <1>2, <1>4 DEF Expire, Close, Panic
<1>5. CASE TakePacket \/ WriteFails \/ CancelEncoder
  BY <1>2, <1>5 DEF TakePacket, WriteFails, CancelEncoder, Take, Cancel
<1>6. CASE Aggregate
  BY <1>2, <1>6 DEF Aggregate, FlushChunk, Flush
<1>7. CASE EncodeChunks
  <2>1. CASE TakeChunk
    <3>1. UNCHANGED <<flushed, csn, dispatcherQueue, buf, wire>>
          /\ encoding' = encoding + 1 /\ encoding < flushed
          /\ encodePc = "select" /\ encodePc' = "send"
      BY <2>1 DEF TakeChunk
    <3>2. \A p \in Packets : p.csn <= encoding => p.csn <= encoding + 1
      BY <1>0 DEF Packets
    <3>3. \A i \in 1 .. Len(dispatcherQueue) : dispatcherQueue[i] \in Packets
      BY <1>0
    <3>4. \A i \in 1 .. Len(wire) : wire[i] \in Packets
      BY <1>0
    <3>5. \A at \in FilledIn(buf) : buf[at] \in Packets
      BY <1>0 DEF FilledIn
    <3> QED
      BY <1>0, <1>1, <3>1, <3>2, <3>3, <3>4, <3>5 DEF Numbered, FilledIn
  <2>2. CASE TakeNil
    BY <2>2, <1>0, <1>1 DEF TakeNil, EncodeClosed, DispatcherClosed, Numbered,
       FilledIn
  <2>3. CASE SendPart /\ ~ DispatcherClosed
    <3>1. /\ UNCHANGED <<flushed, encoding, buf, wire>>
          /\ dispatcherQueue' = Append(dispatcherQueue, [csn |-> csn, psn |-> part])
          /\ csn = encoding
      BY <2>3 DEF SendPart, Numbered
    <3>2. /\ encodePc' = "select" => csn' = encoding + 1
          /\ encodePc' = "send" => csn' = encoding
      BY <2>3, <3>1 DEF SendPart
    <3>3. \A i \in 1 .. Len(dispatcherQueue') : dispatcherQueue'[i].csn <= encoding
      <4> SUFFICES ASSUME NEW i \in 1 .. Len(dispatcherQueue) + 1
                   PROVE  dispatcherQueue'[i].csn <= encoding
        BY <1>0, <3>1
      <4>1. CASE i = Len(dispatcherQueue) + 1
        BY <4>1, <1>0, <3>1
      <4>2. CASE i # Len(dispatcherQueue) + 1
        BY <4>2, <1>0, <3>1 DEF Numbered
      <4> QED
        BY <4>1, <4>2
    <3> QED
      BY <3>1, <3>2, <3>3 DEF Numbered, FilledIn
  <2>4. CASE StopEncode
    BY <2>4, <1>0, <1>1 DEF StopEncode, Numbered, FilledIn
  <2> QED
    BY <1>7, <2>1, <2>2, <2>3, <2>4 DEF EncodeChunks
<1>8. CASE DispatchPackets
  <2>1. UNCHANGED <<flushed, encoding, csn, encodePc>>
    BY <1>8 DEF DispatchPackets, Collect, CollectNils, SendPlace, StopDispatch
  <2>2. CASE Collect
    <3>1. /\ dispatcherQueue # << >> /\ dispatcherQueue' = Tail(dispatcherQueue)
          /\ buf' = [buf EXCEPT ![PlaceOf(length)] = Head(dispatcherQueue)]
          /\ wire' = wire /\ 1 \in 1 .. Len(dispatcherQueue)
      BY <2>2, <1>0 DEF Collect
    <3>2. Head(dispatcherQueue).csn <= encoding
      BY <1>0, <3>1 DEF Numbered
    <3>3. \A at \in FilledIn(buf') : buf'[at].csn <= encoding
      <4> SUFFICES ASSUME NEW at \in FilledIn(buf')
                   PROVE  buf'[at].csn <= encoding
        OBVIOUS
      <4>1. CASE at = PlaceOf(length)
        BY <4>1, <1>0, <3>1, <3>2 DEF FilledIn
      <4>2. CASE at # PlaceOf(length)
        BY <4>2, <1>0, <3>1 DEF FilledIn, Numbered
      <4> QED
        BY <4>1, <4>2
    <3>4. \A i \in 1 .. Len(dispatcherQueue') : dispatcherQueue'[i].csn <= encoding
      <4> SUFFICES ASSUME NEW i \in 1 .. Len(dispatcherQueue')
                   PROVE  dispatcherQueue'[i].csn <= encoding
        OBVIOUS
      <4>1. /\ dispatcherQueue'[i] = dispatcherQueue[i + 1]
            /\ i + 1 \in 1 .. Len(dispatcherQueue)
        BY <1>0, <3>1
      <4> QED
        BY <4>1 DEF Numbered
    <3> QED
      BY <1>1, <2>1, <3>1, <3>3, <3>4 DEF Numbered
  <2>3. CASE CollectNils \/ StopDispatch
    BY <2>3, <1>2 DEF CollectNils, StopDispatch
  <2>4. ASSUME NEW at \in Places, SendPlace(at)
        PROVE  Numbered'
    <3>1. /\ dispatcherQueue' = dispatcherQueue /\ wire' = Append(wire, buf[at])
          /\ buf' = [buf EXCEPT ![at] = Nil] /\ at \in FilledIn(buf)
      BY <2>4 DEF SendPlace
    <3>2. buf[at] \in Packets /\ buf[at].csn <= encoding
      BY <1>0, <3>1 DEF FilledIn, Numbered
    <3>3. \A i \in 1 .. Len(wire') : wire'[i].csn <= encoding
      <4> SUFFICES ASSUME NEW i \in 1 .. Len(wire) + 1
                   PROVE  wire'[i].csn <= encoding
        BY <1>0, <3>1
      <4>1. CASE i = Len(wire) + 1
        BY <4>1, <1>0, <3>1, <3>2
      <4>2. CASE i # Len(wire) + 1
        BY <4>2, <1>0, <3>1 DEF Numbered
      <4> QED
        BY <4>1, <4>2
    <3>4. \A p \in FilledIn(buf') : buf'[p].csn <= encoding
      BY <1>0, <3>1 DEF FilledIn, Numbered
    <3> QED
      BY <1>1, <2>1, <3>1, <3>3, <3>4 DEF Numbered
  <2> QED
    BY <1>8, <2>2, <2>3, <2>4 DEF DispatchPackets
<1>9. CASE UNCHANGED encoderVars
  BY <1>2, <1>9 DEF encoderVars
<1> QED
  BY <1>3, <1>4, <1>5, <1>6, <1>7, <1>8, <1>9 DEF EncoderNext

-----------------------------------------------------------------------------
(* What holds of the parts, in the whole. *)
EncoderInv ==
  /\ closed \in Nat
  /\ OneQueue
  /\ TypeOK
  /\ Numbered
  /\ IInv \/ (DispatcherClosed /\ NilsCollected)

LEMMA EncoderInitHolds == EncoderInit => EncoderInv
<1> SUFFICES ASSUME EncoderInit PROVE EncoderInv
  OBVIOUS
<1>1. IInv
  BY InitHolds DEF EncoderInit
<1>2. OneQueue
  <2>1. chunks = << >> /\ flushed = 0
    BY DEF EncoderInit, Init, Aggregator!Init
  <2> QED
    BY <2>1 DEF OneQueue
<1>3. Numbered
  <2>1. FilledIn(buf) = {}
    BY DEF EncoderInit, Init, FilledIn
  <2>2. Len(dispatcherQueue) = 0 /\ Len(wire) = 0
    BY DEF EncoderInit, Init
  <2> QED
    BY <2>1, <2>2 DEF EncoderInit, Init, Numbered
<1> QED
  BY <1>1, <1>2, <1>3 DEF EncoderInit, EncoderInv, IInv

LEMMA EncoderStep ==
  EncoderInv /\ [EncoderNext]_encoderVars => EncoderInv'
<1> SUFFICES ASSUME EncoderInv, [EncoderNext]_encoderVars PROVE EncoderInv'
  OBVIOUS
<1>1. OneQueue'
  BY OneQueueStays DEF EncoderInv
<1>2. closed' \in Nat /\ (DispatcherClosed => DispatcherClosed')
  BY ClosedStays DEF EncoderInv
<1>3. Numbered'
  BY NumberedStays DEF EncoderInv
<1>4. IInv' \/ (DispatcherClosed /\ NilsCollected' /\ TypeOK')
  BY OrderedStep, NilsStay DEF EncoderInv
<1>5. IInv' => TypeOK'
  BY DEF IInv
<1> QED
  BY <1>1, <1>2, <1>3, <1>4, <1>5 DEF EncoderInv

THEOREM EncoderInvariance == EncoderSpec => []EncoderInv
BY EncoderInitHolds, EncoderStep, PTL DEF EncoderSpec

(* The composed encoder keeps to the environments that Aggregator and,     *)
(* until dispatcherQueue is closed, Interleaver assume.                    *)
WithinEnvironments ==
  /\ Aggregator!Spec
  /\ Init /\ [][~ DispatcherClosed' => Next]_vars

(* So what holds of its aggregator (encoder.go:180-202) alone holds of it. *)
LEMMA PartsKeepToEnvironments == EncoderSpec => WithinEnvironments
<1>1. EncoderInit => Aggregator!Init /\ Init
  BY DEF EncoderInit
<1>2. EncoderInv /\ [EncoderNext]_encoderVars
        => [Aggregator!Next]_(Aggregator!vars)
  BY AggregatorStep DEF EncoderInv
<1>3. EncoderInv /\ [EncoderNext]_encoderVars
        => [~ DispatcherClosed' => Next]_vars
  BY InterleaverStep DEF EncoderInv
<1> QED
  BY <1>1, <1>2, <1>3, EncoderInvariance, PTL
     DEF EncoderSpec, WithinEnvironments, Aggregator!Spec

(* Until dispatcherQueue is closed the composed encoder puts exactly the   *)
(* interleaving on the wire.                                               *)
THEOREM EncoderWireOrder ==
  EncoderSpec => [](~ DispatcherClosed => WireOrder)
<1>1. EncoderInv => (~ DispatcherClosed => WireOrder)
  BY DEF EncoderInv, IInv
<1> QED
  BY <1>1, EncoderInvariance, PTL

(* The wire carries the interleaving of the chunks, packet by packet.      *)
(* What a cancelled encoder still sends of a block that nil packets        *)
(* completed (encoder.go:110) doubles and turns no packet either.          *)
THEOREM EncoderWireInOrder == EncoderSpec => []WireInOrder
<1>1. IInv => WireInOrder
  <2> SUFFICES ASSUME IInv PROVE WireInOrder
    OBVIOUS
  <2>1. \A m, n \in 1 .. Len(wire) :
          m < n => WireIndex(wire[m]) < WireIndex(wire[n])
    BY OrderedIndexes
  <2> QED
    BY <2>1 DEF WireInOrder, IInv
<1>2. DispatcherClosed /\ NilsCollected => WireInOrder
  BY DEF NilsCollected, Ascending, WireInOrder
<1>3. EncoderInv => WireInOrder
  BY <1>1, <1>2 DEF EncoderInv
<1> QED
  BY <1>3, EncoderInvariance, PTL

(* Only chunks that the aggregator flushed are numbered and sent: the      *)
(* empty chunk that encode makes of a nil (encoder.go:142) gets nowhere.   *)
THEOREM EncoderSendsNoPhantom == EncoderSpec => []NoPhantomChunk
<1>1. EncoderInv => NoPhantomChunk
  <2> SUFFICES ASSUME EncoderInv, NEW i \in 1 .. Len(wire)
               PROVE  wire[i].csn \in 1 .. Len(chunks)
    BY DEF NoPhantomChunk
  <2>1. wire[i] \in Packets /\ encoding \in Nat /\ flushed \in Nat
    BY DEF EncoderInv, TypeOK
  <2>2. wire[i].csn \in Nat \ {0}
    BY <2>1 DEF Packets
  <2>3. wire[i].csn <= encoding /\ encoding <= flushed
    BY DEF EncoderInv, Numbered
  <2> QED
    BY <2>1, <2>2, <2>3 DEF EncoderInv, OneQueue
<1> QED
  BY <1>1, EncoderInvariance, PTL

-----------------------------------------------------------------------------
(* The aggregator. *)

(* While a flush is blocked the buffer is empty. *)
FlushesAll == aggregatePc \in {"full", "timeout"} => gathered = << >>

GatherInv == Aggregator!TypeOK /\ FlushesAll /\ Aggregator!TimerGuardsBuffer

(* The loop of lines 191-199 keeps what is gathered within the capacity    *)
(* and ends with the timer started.                                        *)
LEMMA FillGathers ==
  ASSUME NEW bytes \in Seq(Aggregator!Bytes), Aggregator!Fill(bytes),
         armed \in BOOLEAN
  PROVE  /\ gathered' \in Seq(Aggregator!Bytes) /\ Len(gathered') < Capacity
         /\ agData' \in Seq(Aggregator!Bytes) /\ Len(agData') <= Capacity
         /\ data' \in Seq(Aggregator!Bytes)
         /\ aggregatePc' \in {"select", "full"}
         /\ armed' \in BOOLEAN
         /\ aggregatePc' = "full" => gathered' = << >>
         /\ aggregatePc' = "select" => armed'
<1>1. Capacity \in Nat \ {0} /\ Len(bytes) \in Nat
  BY CapacityAssumption
<1>2. CASE Len(bytes) < Capacity
  BY <1>1, <1>2 DEF Aggregator!Fill
<1>3. CASE ~ Len(bytes) < Capacity
  <2>1. /\ gathered' = << >> /\ aggregatePc' = "full" /\ armed' = armed
        /\ data' = SubSeq(bytes, Capacity + 1, Len(bytes))
        /\ agData' = SubSeq(bytes, 1, Capacity)
    BY <1>3 DEF Aggregator!Fill
  <2>2. \A i \in 1 .. Len(bytes) : bytes[i] \in Aggregator!Bytes
    OBVIOUS
  <2>3. agData' \in Seq(Aggregator!Bytes) /\ Len(agData') = Capacity
    BY <1>1, <1>3, <2>1, <2>2
  <2>4. data' \in Seq(Aggregator!Bytes)
    BY <1>1, <1>3, <2>1, <2>2
  <2> QED
    BY <1>1, <2>1, <2>3, <2>4
<1> QED
  BY <1>2, <1>3

LEMMA InitGather == Aggregator!Init => GatherInv
<1> SUFFICES ASSUME Aggregator!Init PROVE GatherInv
  OBVIOUS
<1>1. /\ << >> \in Seq(Aggregator!Bytes)
      /\ << >> \in Seq(Seq(Aggregator!Bytes)) /\ Len(<< >>) = 0
  OBVIOUS
<1>2. Aggregator!TypeOK
  <2>1. Len(gathered) < Capacity /\ Len(agData) <= Capacity
    BY <1>1, CapacityAssumption DEF Aggregator!Init
  <2>2. encoding \in 0 .. Len(chunks)
    BY <1>1 DEF Aggregator!Init
  <2>3. /\ gathered \in Seq(Aggregator!Bytes)
        /\ agData \in Seq(Aggregator!Bytes) /\ data \in Seq(Aggregator!Bytes)
    BY <1>1 DEF Aggregator!Init
  <2>4. /\ aggregateQueue \in Seq(Seq(Aggregator!Bytes))
        /\ chunks \in Seq(Seq(Aggregator!Bytes))
    BY <1>1 DEF Aggregator!Init
  <2>5. written \in 0 .. MaxBytes
    BY WritesAssumption DEF Aggregator!Init
  <2> QED
    BY <2>1, <2>2, <2>3, <2>4, <2>5 DEF Aggregator!Init, Aggregator!TypeOK
<1> QED
  BY <1>2
     DEF Aggregator!Init, GatherInv, FlushesAll, Aggregator!TimerGuardsBuffer

-----------------------------------------------------------------------------
(* The environment. *)

LEMMA WriteKeepsGather ==
  ASSUME GatherInv, NEW n \in WriteSizes, Aggregator!Write(n)
  PROVE  GatherInv'
<1>1. n \in Nat \ {0} /\ MaxBytes \in Nat /\ written \in 0 .. MaxBytes
  BY WritesAssumption DEF GatherInv, Aggregator!TypeOK
<1>2. written' = written + n /\ written + n <= MaxBytes
  BY DEF Aggregator!Write
<1>3. [i \in 1 .. n |-> written + i] \in Seq(Aggregator!Bytes)
  <2>1. \A i \in 1 .. n : written + i \in Aggregator!Bytes
    BY <1>1, <1>2 DEF Aggregator!Bytes
  <2> QED
    BY <1>1, <2>1
<1>4. aggregateQueue' \in Seq(Seq(Aggregator!Bytes))
  BY <1>3 DEF Aggregator!Write, GatherInv, Aggregator!TypeOK
<1> QED
  BY <1>1, <1>2, <1>4
     DEF Aggregator!Write, GatherInv, Aggregator!TypeOK, FlushesAll,
         Aggregator!TimerGuardsBuffer

LEMMA EncodeKeepsGather ==
  ASSUME GatherInv, Aggregator!Encode
  PROVE  GatherInv'
<1>1. encoding' \in 0 .. Len(chunks)
  BY DEF Aggregator!Encode, GatherInv, Aggregator!TypeOK
<1> QED
  BY <1>1
     DEF Aggregator!Encode, GatherInv, Aggregator!TypeOK, FlushesAll,
         Aggregator!TimerGuardsBuffer

LEMMA ExpireKeepsGather ==
  ASSUME GatherInv, Aggregator!Expire
  PROVE  GatherInv'
BY DEF Aggregator!Expire, GatherInv, Aggregator!TypeOK, FlushesAll,
       Aggregator!TimerGuardsBuffer

LEMMA CancelKeepsGather ==
  ASSUME GatherInv, Aggregator!Cancel
  PROVE  GatherInv'
BY DEF Aggregator!Cancel, GatherInv, Aggregator!TypeOK, FlushesAll,
       Aggregator!TimerGuardsBuffer

-----------------------------------------------------------------------------
(* The aggregator. *)

LEMMA ReceiveKeepsGather ==
  ASSUME GatherInv, Aggregator!Receive
  PROVE  GatherInv'
<1>1. /\ aggregateQueue \in Seq(Seq(Aggregator!Bytes))
      /\ aggregateQueue # << >>
      /\ gathered \in Seq(Aggregator!Bytes) /\ armed \in BOOLEAN
  BY DEF Aggregator!Receive, GatherInv, Aggregator!TypeOK
<1>2. /\ Head(aggregateQueue) \in Seq(Aggregator!Bytes)
      /\ Tail(aggregateQueue) \in Seq(Seq(Aggregator!Bytes))
  BY <1>1
<1>3. gathered \o Head(aggregateQueue) \in Seq(Aggregator!Bytes)
  BY <1>1, <1>2
<1>4. Aggregator!Fill(gathered \o Head(aggregateQueue))
  BY DEF Aggregator!Receive
<1> QED
  BY <1>1, <1>2, <1>3, <1>4, FillGathers
     DEF Aggregator!Receive, GatherInv, Aggregator!TypeOK, FlushesAll,
         Aggregator!TimerGuardsBuffer

LEMMA TimeoutKeepsGather ==
  ASSUME GatherInv, Aggregator!Timeout
  PROVE  GatherInv'
<1>1. << >> \in Seq(Aggregator!Bytes) /\ Len(<< >>) < Capacity
  BY CapacityAssumption
<1>2. gathered \in Seq(Aggregator!Bytes) /\ Len(gathered) <= Capacity
  BY CapacityAssumption DEF GatherInv, Aggregator!TypeOK
<1> QED
  BY <1>1, <1>2
     DEF Aggregator!Timeout, GatherInv, Aggregator!TypeOK, FlushesAll,
         Aggregator!TimerGuardsBuffer

(* A flush by the timer leaves nothing behind, one that a full buffer      *)
(* caused goes on with the rest of the bytes in hand.                      *)
LEMMA ResumeKeeps ==
  ASSUME GatherInv, Aggregator!Resume
  PROVE  /\ gathered' \in Seq(Aggregator!Bytes) /\ Len(gathered') < Capacity
         /\ agData' \in Seq(Aggregator!Bytes) /\ Len(agData') <= Capacity
         /\ data' \in Seq(Aggregator!Bytes)
         /\ aggregatePc' \in {"select", "full"}
         /\ armed' \in BOOLEAN
         /\ aggregatePc' = "full" => gathered' = << >>
         /\ aggregatePc' = "select" => armed' \/ gathered' = << >>
<1>1. CASE aggregatePc = "full" /\ Aggregator!Fill(data)
  BY <1>1, FillGathers DEF GatherInv, Aggregator!TypeOK
<1>2. CASE /\ aggregatePc = "timeout" /\ aggregatePc' = "select"
           /\ agData' = << >>
           /\ UNCHANGED <<gathered, data, armed>>
  <2>1. << >> \in Seq(Aggregator!Bytes) /\ Len(<< >>) <= Capacity
    BY CapacityAssumption
  <2> QED
    BY <1>2, <2>1 DEF GatherInv, Aggregator!TypeOK, FlushesAll
<1> QED
  BY <1>1, <1>2 DEF Aggregator!Resume

LEMMA FlushDoneKeepsGather ==
  ASSUME GatherInv, Aggregator!FlushDone
  PROVE  GatherInv'
<1>1. chunks' \in Seq(Seq(Aggregator!Bytes)) /\ Len(chunks') = Len(chunks) + 1
  BY DEF Aggregator!FlushDone, GatherInv, Aggregator!TypeOK
<1>2. encoding' \in 0 .. Len(chunks')
  BY <1>1 DEF Aggregator!FlushDone, GatherInv, Aggregator!TypeOK
<1> QED
  BY <1>1, <1>2, ResumeKeeps
     DEF Aggregator!FlushDone, GatherInv, Aggregator!TypeOK, FlushesAll,
         Aggregator!TimerGuardsBuffer

LEMMA FlushAbandonedKeepsGather ==
  ASSUME GatherInv, Aggregator!FlushAbandoned
  PROVE  GatherInv'
BY ResumeKeeps
   DEF Aggregator!FlushAbandoned, GatherInv, Aggregator!TypeOK, FlushesAll,
       Aggregator!TimerGuardsBuffer

LEMMA StopKeepsGather ==
  ASSUME GatherInv, Aggregator!Stop
  PROVE  GatherInv'
BY DEF Aggregator!Stop, GatherInv, Aggregator!TypeOK, FlushesAll,
       Aggregator!TimerGuardsBuffer

LEMMA NextKeepsGather ==
  GatherInv /\ [Aggregator!Next]_(Aggregator!vars) => GatherInv'
<1> SUFFICES ASSUME GatherInv, [Aggregator!Next]_(Aggregator!vars)
             PROVE  GatherInv'
  OBVIOUS
<1>1. CASE UNCHANGED Aggregator!vars
  BY <1>1
     DEF Aggregator!vars, GatherInv, Aggregator!TypeOK, FlushesAll,
         Aggregator!TimerGuardsBuffer
<1>2. CASE Aggregator!Aggregate
  BY <1>2, ReceiveKeepsGather, TimeoutKeepsGather, FlushDoneKeepsGather,
     FlushAbandonedKeepsGather, StopKeepsGather DEF Aggregator!Aggregate
<1> QED
  BY <1>1, <1>2, WriteKeepsGather, EncodeKeepsGather, ExpireKeepsGather,
     CancelKeepsGather DEF Aggregator!Next

-----------------------------------------------------------------------------
(* The aggregator's inductive invariant, for every value of the constants. *)
THEOREM GatherInvariance == Aggregator!Spec => []GatherInv
BY InitGather, NextKeepsGather, PTL DEF Aggregator!Spec

(* The buffer is never full outside the loop of line 191, so no chunk ever *)
(* exceeds the capacity and NewChunk never has a rest.                     *)
THEOREM GatheredFits == Aggregator!Spec => []Aggregator!TypeOK
<1>1. GatherInv => Aggregator!TypeOK
  BY DEF GatherInv
<1> QED
  BY <1>1, GatherInvariance, PTL

(* Bytes that stay in the buffer are never left without a timer that runs  *)
(* or has expired (lines 188-199), whatever is written and however long a  *)
(* flush is blocked.                                                       *)
THEOREM BytesNeverForgotten ==
  Aggregator!Spec => []Aggregator!TimerGuardsBuffer
<1>1. GatherInv => Aggregator!TimerGuardsBuffer
  BY DEF GatherInv
<1> QED
  BY <1>1, GatherInvariance, PTL

-----------------------------------------------------------------------------
(* The stream of bytes.  What is being flushed, the buffer and the rest in *)
(* hand are one piece of it, Hand, which lies between the chunks that were *)
(* flushed and what still waits in the queue.                              *)

Gone == FlattenSeq(chunks)
Hand == (agData \o gathered) \o data
Coming == FlattenSeq(aggregateQueue)

Stream == Gone \o (Hand \o Coming)

(* The aggregator has bytes in hand only while a flush is blocked, and     *)
(* none but the flushed ones when the timer caused it.                     *)
HandsFree ==
  /\ aggregatePc \in {"select", "stopped"} => agData = << >>
  /\ aggregatePc # "full" => data = << >>

(* What StreamIntact says of the stream, and that it ends with the bytes   *)
(* that were written last.                                                 *)
Whole(stream) ==
  /\ Aggregator!Ascending(stream)
  /\ \A i \in 1 .. Len(stream) : stream[i] <= written
  /\ ~ cancelled => stream = [i \in 1 .. written |-> i]

StreamInv == GatherInv /\ HandsFree /\ Whole(Stream)

LEMMA PiecesAreSequences ==
  ASSUME Aggregator!TypeOK
  PROVE  /\ Gone \in Seq(Aggregator!Bytes) /\ Hand \in Seq(Aggregator!Bytes)
         /\ Coming \in Seq(Aggregator!Bytes)
         /\ agData \in Seq(Aggregator!Bytes)
         /\ gathered \in Seq(Aggregator!Bytes)
         /\ data \in Seq(Aggregator!Bytes)
<1>1. /\ agData \in Seq(Aggregator!Bytes) /\ gathered \in Seq(Aggregator!Bytes)
      /\ data \in Seq(Aggregator!Bytes)
  BY DEF Aggregator!TypeOK
<1>2. Hand \in Seq(Aggregator!Bytes)
  BY <1>1 DEF Hand
<1>3. /\ chunks \in Seq(Seq(Aggregator!Bytes))
      /\ aggregateQueue \in Seq(Seq(Aggregator!Bytes))
  BY DEF Aggregator!TypeOK
<1> QED
  BY <1>1, <1>2, <1>3, FlattenType DEF Gone, Coming

(* The stream as StreamIntact writes it.                                   *)
LEMMA StreamGroups ==
  ASSUME Aggregator!TypeOK
  PROVE  FlattenSeq(chunks) \o agData \o gathered \o data
           \o FlattenSeq(aggregateQueue) = Stream
<1> DEFINE a == agData
           b == gathered
           c == data
           f == Gone
           k == Coming
<1>1. /\ f \in Seq(Aggregator!Bytes) /\ k \in Seq(Aggregator!Bytes)
      /\ a \in Seq(Aggregator!Bytes) /\ b \in Seq(Aggregator!Bytes)
      /\ c \in Seq(Aggregator!Bytes)
  BY PiecesAreSequences
<1>2. Hand = (a \o b) \o c
  BY DEF Hand
<1> HIDE DEF a, b, c, f, k
<1>3. (((f \o a) \o b) \o c) \o k = f \o (((a \o b) \o c) \o k)
  <2>1. /\ f \in Seq(Aggregator!Bytes) /\ a \in Seq(Aggregator!Bytes)
        /\ b \in Seq(Aggregator!Bytes) /\ c \in Seq(Aggregator!Bytes)
    BY <1>1
  <2>2. ((f \o a) \o b) \o c = f \o ((a \o b) \o c)
    BY <2>1
  <2>3. (a \o b) \o c \in Seq(Aggregator!Bytes)
    BY <2>1
  <2>4. ASSUME NEW g \in Seq(Aggregator!Bytes)
        PROVE  (f \o g) \o k = f \o (g \o k)
    BY <1>1
  <2> QED
    BY <2>2, <2>3, <2>4
<1> QED
  BY <1>2, <1>3 DEF Stream, Gone, Coming, a, b, c, f, k

(* The loop of lines 191-198 takes the bytes apart and loses none.         *)
LEMMA FillKeepsHand ==
  ASSUME NEW bytes \in Seq(Aggregator!Bytes), Aggregator!Fill(bytes)
  PROVE  /\ Hand' = bytes
         /\ aggregatePc' \in {"select", "full"}
         /\ HandsFree'
<1>1. Capacity \in Nat \ {0} /\ Len(bytes) \in Nat
  BY CapacityAssumption
<1>2. CASE Len(bytes) < Capacity
  <2>1. /\ gathered' = bytes /\ data' = << >> /\ agData' = << >>
        /\ aggregatePc' = "select"
    BY <1>2 DEF Aggregator!Fill
  <2>2. (<< >> \o bytes) \o << >> = bytes
    BY ConcatEmptySeq
  <2> QED
    BY <2>1, <2>2 DEF Hand, HandsFree
<1>3. CASE ~ Len(bytes) < Capacity
  <2>1. /\ gathered' = << >> /\ aggregatePc' = "full"
        /\ data' = SubSeq(bytes, Capacity + 1, Len(bytes))
        /\ agData' = SubSeq(bytes, 1, Capacity)
    BY <1>3 DEF Aggregator!Fill
  <2>2. /\ SubSeq(bytes, 1, Capacity) \in Seq(Aggregator!Bytes)
        /\ SubSeq(bytes, Capacity + 1, Len(bytes)) \in Seq(Aggregator!Bytes)
    <3>1. \A i \in 1 .. Len(bytes) : bytes[i] \in Aggregator!Bytes
      OBVIOUS
    <3> QED
      BY <1>1, <1>3, <3>1
  <2>3. SubSeq(bytes, 1, Capacity) \o SubSeq(bytes, Capacity + 1, Len(bytes))
          = SubSeq(bytes, 1, Len(bytes))
    <3>1. /\ 1 \in 1 .. Len(bytes) + 1
          /\ Capacity \in 1 - 1 .. Len(bytes)
          /\ Len(bytes) \in Capacity .. Len(bytes)
      BY <1>1, <1>3
    <3> QED
      BY <3>1, ConcatAdjacentSubSeq
  <2>4. SubSeq(bytes, 1, Len(bytes)) = bytes
    BY SubSeqFull
  <2>5. SubSeq(bytes, 1, Capacity) \o << >> = SubSeq(bytes, 1, Capacity)
    BY <2>2, ConcatEmptySeq
  <2> QED
    BY <2>1, <2>3, <2>4, <2>5 DEF Hand, HandsFree
<1> QED
  BY <1>2, <1>3

(* After a flush the bytes that were not part of it are in hand.           *)
LEMMA ResumeKeepsRest ==
  ASSUME StreamInv, Aggregator!Resume
  PROVE  /\ Hand = agData \o data /\ Hand' = data
         /\ HandsFree'
<1>1. agData \in Seq(Aggregator!Bytes) /\ data \in Seq(Aggregator!Bytes)
  BY DEF StreamInv, GatherInv, Aggregator!TypeOK
<1>2. gathered = << >> /\ (aggregatePc = "timeout" => data = << >>)
  BY DEF StreamInv, GatherInv, FlushesAll, HandsFree, Aggregator!Resume
<1>3. Hand = agData \o data
  BY <1>1, <1>2, ConcatEmptySeq DEF Hand
<1>4. CASE aggregatePc = "full" /\ Aggregator!Fill(data)
  BY <1>1, <1>3, <1>4, FillKeepsHand
<1>5. CASE /\ aggregatePc = "timeout" /\ aggregatePc' = "select"
           /\ agData' = << >>
           /\ UNCHANGED <<gathered, data, armed>>
  <2>1. data = << >> /\ gathered' = << >> /\ data' = << >>
    BY <1>2, <1>5
  <2>2. (<< >> \o << >>) \o << >> = << >>
    BY ConcatEmptySeq
  <2>3. Hand' = data
    BY <1>5, <2>1, <2>2 DEF Hand
  <2> QED
    BY <1>3, <1>5, <2>1, <2>3 DEF HandsFree
<1> QED
  BY <1>4, <1>5 DEF Aggregator!Resume

(* The stream stays whole when it stays what it is, when bytes are written *)
(* at its end, and, once the context is done, when a flush is given up.    *)

LEMMA SameStreamIsWhole ==
  ASSUME Whole(Stream), Stream' = Stream, written' = written,
         cancelled' = FALSE => cancelled = FALSE,
         cancelled \in BOOLEAN, cancelled' \in BOOLEAN
  PROVE  Whole(Stream)'
BY DEF Whole, Aggregator!Ascending

LEMMA CutStreamIsWhole ==
  ASSUME NEW f \in Seq(Aggregator!Bytes), NEW a \in Seq(Aggregator!Bytes),
         NEW b \in Seq(Aggregator!Bytes),
         Whole(f \o (a \o b)), cancelled
  PROVE  Whole(f \o b)
<1> DEFINE whole == f \o (a \o b)
           cut == f \o b
           at(i) == IF i <= Len(f) THEN i ELSE i + Len(a)
<1>1. /\ Len(f) \in Nat /\ Len(a) \in Nat /\ Len(b) \in Nat
      /\ whole \in Seq(Aggregator!Bytes)
      /\ Len(whole) = Len(f) + Len(a) + Len(b)
      /\ cut \in Seq(Aggregator!Bytes) /\ Len(cut) = Len(f) + Len(b)
  OBVIOUS
<1>2. ASSUME NEW i \in 1 .. Len(cut)
      PROVE  at(i) \in 1 .. Len(whole) /\ cut[i] = whole[at(i)]
  <2>1. CASE i <= Len(f)
    <3>1. cut[i] = f[i]
      BY <1>1, <2>1
    <3>2. whole[i] = f[i]
      BY <1>1, <2>1
    <3> QED
      BY <1>1, <2>1, <3>1, <3>2
  <2>2. CASE i > Len(f)
    <3>1. cut[i] = b[i - Len(f)]
      BY <1>1, <2>2
    <3>2. (a \o b)[i - Len(f) + Len(a)] = b[i - Len(f)]
      BY <1>1, <2>2
    <3>3. whole[i + Len(a)] = (a \o b)[i + Len(a) - Len(f)]
      BY <1>1, <2>2
    <3>4. i + Len(a) - Len(f) = i - Len(f) + Len(a)
      BY <1>1
    <3>5. at(i) = i + Len(a) /\ i + Len(a) \in 1 .. Len(whole)
      BY <1>1, <2>2
    <3> HIDE DEF whole, cut, at
    <3> QED
      BY <3>1, <3>2, <3>3, <3>4, <3>5
  <2> QED
    BY <1>1, <2>1, <2>2
<1>3. ASSUME NEW i \in 1 .. Len(cut), NEW j \in 1 .. Len(cut), i < j
      PROVE  at(i) < at(j)
  BY <1>1, <1>3
<1> HIDE DEF whole, cut, at
<1>4. Whole(whole)
  BY DEF whole
<1>5. Aggregator!Ascending(cut)
  <2>1. \A i, j \in 1 .. Len(whole) : i < j => whole[i] < whole[j]
    BY <1>4 DEF Whole, Aggregator!Ascending
  <2>2. SUFFICES ASSUME NEW i \in 1 .. Len(cut), NEW j \in 1 .. Len(cut), i < j
                 PROVE  cut[i] < cut[j]
    BY DEF Aggregator!Ascending
  <2>3. at(i) < at(j)
    BY <1>3, <2>2
  <2> QED
    BY <1>2, <2>1, <2>3
<1>6. \A i \in 1 .. Len(cut) : cut[i] <= written
  BY <1>2, <1>4 DEF Whole
<1> QED
  BY <1>5, <1>6 DEF Whole, cut

LEMMA WrittenStreamIsWhole ==
  ASSUME NEW s \in Seq(Aggregator!Bytes), NEW n \in Nat, Whole(s),
         written \in Nat,
         written' = written + n, UNCHANGED cancelled
  PROVE  LET t == s \o [i \in 1 .. n |-> written + i]
         IN  /\ Aggregator!Ascending(t)
             /\ \A i \in 1 .. Len(t) : t[i] <= written'
             /\ ~ cancelled' => t = [i \in 1 .. written' |-> i]
<1> DEFINE new == [i \in 1 .. n |-> written + i]
           t == s \o new
<1>1. /\ Len(s) \in Nat /\ new \in Seq(Nat) /\ Len(new) = n
      /\ s \in Seq(Nat)
      /\ \A i \in 1 .. Len(s) : s[i] \in Nat /\ s[i] <= written
  <2>1. Aggregator!Bytes \subseteq Nat
    BY WritesAssumption DEF Aggregator!Bytes
  <2>2. s \in Seq(Nat)
    <3>1. \A i \in 1 .. Len(s) : s[i] \in Aggregator!Bytes
      OBVIOUS
    <3>2. \A i \in 1 .. Len(s) : s[i] \in Nat
      BY <2>1, <3>1
    <3> QED
      BY <3>2
  <2>3. \A i \in 1 .. Len(s) : s[i] \in Nat
    BY <2>2
  <2>4. \A i \in 1 .. n : written + i \in Nat
    OBVIOUS
  <2>5. new \in Seq(Nat) /\ Len(new) = n
    BY <2>4
  <2> QED
    BY <2>2, <2>3, <2>5 DEF Whole
<1>2. Len(t) = Len(s) + n /\ DOMAIN t = 1 .. Len(s) + n
  <2>1. s \in Seq(Nat) /\ new \in Seq(Nat)
    BY <1>1
  <2> HIDE DEF new
  <2>2. s \o new \in Seq(Nat) /\ Len(s \o new) = Len(s) + Len(new)
    BY <2>1
  <2>3. DOMAIN (s \o new) = 1 .. Len(s \o new)
    BY <2>2
  <2> QED
    BY <1>1, <2>2, <2>3
<1>3. \A i \in 1 .. Len(s) : t[i] = s[i]
  BY <1>1
<1>4. \A i \in Len(s) + 1 .. Len(s) + n : t[i] = written + (i - Len(s))
  BY <1>1
<1> HIDE DEF t
<1>5. Aggregator!Ascending(t)
  <2>1. SUFFICES ASSUME NEW i \in 1 .. Len(t), NEW j \in 1 .. Len(t), i < j
                 PROVE  t[i] < t[j]
    BY DEF Aggregator!Ascending
  <2>2. CASE j <= Len(s)
    BY <1>1, <1>2, <1>3, <2>1, <2>2 DEF Whole, Aggregator!Ascending
  <2>3. CASE i <= Len(s) /\ j > Len(s)
    <3>1. t[i] <= written /\ t[i] \in Nat
      BY <1>1, <1>2, <1>3, <2>1, <2>3
    <3>2. t[j] = written + (j - Len(s))
      BY <1>1, <1>2, <1>4, <2>1, <2>3
    <3> QED
      BY <1>1, <1>2, <2>3, <3>1, <3>2
  <2>4. CASE i > Len(s)
    <3>1. t[i] = written + (i - Len(s)) /\ t[j] = written + (j - Len(s))
      BY <1>1, <1>2, <1>4, <2>1, <2>4
    <3> QED
      BY <1>1, <1>2, <2>1, <3>1
  <2> QED
    BY <1>1, <1>2, <2>1, <2>2, <2>3, <2>4
<1>6. \A i \in 1 .. Len(t) : t[i] <= written'
  <2>1. SUFFICES ASSUME NEW i \in 1 .. Len(t) PROVE t[i] <= written + n
    OBVIOUS
  <2>2. CASE i <= Len(s)
    <3>1. t[i] = s[i] /\ s[i] <= written /\ s[i] \in Nat
      BY <1>1, <1>2, <1>3, <2>2
    <3> QED
      BY <3>1
  <2>3. CASE i > Len(s)
    <3>1. t[i] = written + (i - Len(s))
      BY <1>1, <1>2, <1>4, <2>3
    <3> QED
      BY <1>1, <1>2, <3>1
  <2> QED
    BY <1>1, <1>2, <2>2, <2>3
<1>7. ASSUME ~ cancelled PROVE t = [i \in 1 .. written + n |-> i]
  <2>1. s = [i \in 1 .. written |-> i]
    BY <1>7 DEF Whole
  <2>2. Len(s) = written
    BY <1>1, <2>1
  <2>3. t \in Seq(Nat)
    BY <1>1 DEF t, Aggregator!Bytes
  <2>4. ASSUME NEW i \in 1 .. written + n PROVE t[i] = i
    <3>1. CASE i <= written
      BY <1>3, <2>1, <2>2, <3>1
    <3>2. CASE i > written
      BY <1>4, <2>2, <3>2
    <3> QED
      BY <3>1, <3>2
  <2> QED
    BY <1>2, <2>2, <2>3, <2>4
<1> QED
  BY <1>5, <1>6, <1>7 DEF t

-----------------------------------------------------------------------------
(* Every step keeps the stream whole.                                      *)

LEMMA InitStream == Aggregator!Init => StreamInv
<1> SUFFICES ASSUME Aggregator!Init PROVE StreamInv
  OBVIOUS
<1>1. GatherInv
  BY InitGather
<1>2. Gone = << >> /\ Coming = << >>
  BY FlattenEmpty DEF Aggregator!Init, Gone, Coming
<1>3. Hand = << >>
  BY ConcatEmptySeq DEF Aggregator!Init, Hand
<1>4. Stream = << >>
  BY <1>2, <1>3 DEF Stream
<1>5. Whole(<< >>)
  <2>1. [i \in 1 .. 0 |-> i] = << >>
    OBVIOUS
  <2> QED
    BY <2>1 DEF Whole, Aggregator!Ascending, Aggregator!Init
<1> QED
  BY <1>1, <1>4, <1>5 DEF Aggregator!Init, HandsFree, StreamInv

LEMMA WriteKeepsStream ==
  ASSUME StreamInv, NEW n \in WriteSizes, Aggregator!Write(n)
  PROVE  StreamInv'
<1> DEFINE new == [i \in 1 .. n |-> written + i]
<1>1. GatherInv' /\ Aggregator!TypeOK
  BY WriteKeepsGather DEF StreamInv, GatherInv
<1>2. /\ n \in Nat /\ written \in Nat /\ written' = written + n
      /\ aggregateQueue \in Seq(Seq(Aggregator!Bytes))
      /\ aggregateQueue' = Append(aggregateQueue, new)
  BY <1>1, WritesAssumption DEF Aggregator!Write, Aggregator!TypeOK
<1>3. new \in Seq(Aggregator!Bytes)
  <2>1. n \in Nat /\ MaxBytes \in Nat /\ written + n <= MaxBytes
    BY <1>2, WritesAssumption DEF Aggregator!Write
  <2>2. \A i \in 1 .. n : written + i \in Aggregator!Bytes
    BY <1>2, <2>1 DEF Aggregator!Bytes
  <2> QED
    BY <1>2, <2>2
<1>4. /\ Gone \in Seq(Aggregator!Bytes) /\ Hand \in Seq(Aggregator!Bytes)
      /\ Coming \in Seq(Aggregator!Bytes)
  BY <1>1, PiecesAreSequences
<1>5. Coming' = Coming \o new
  BY <1>2, <1>3, FlattenAppend DEF Coming
<1>6. Gone' = Gone /\ Hand' = Hand /\ HandsFree'
  BY DEF Aggregator!Write, Gone, Hand, StreamInv, HandsFree
<1> HIDE DEF new
<1>7. Stream' = Stream \o new
  <2>1. Gone \o (Hand \o (Coming \o new)) = (Gone \o (Hand \o Coming)) \o new
    BY <1>3, <1>4
  <2> QED
    BY <1>5, <1>6, <2>1 DEF Stream
<1>8. Stream \in Seq(Aggregator!Bytes)
  BY <1>4 DEF Stream
<1>9. Whole(Stream)'
  <2>1. UNCHANGED cancelled /\ Whole(Stream)
    BY DEF Aggregator!Write, StreamInv
  <2> QED
    BY <1>2, <1>7, <1>8, <2>1, WrittenStreamIsWhole
       DEF Whole, Aggregator!Ascending, new
<1> QED
  BY <1>1, <1>6, <1>9 DEF StreamInv

(* Steps that touch none of the pieces. *)
LEMMA AsideKeepsStream ==
  ASSUME StreamInv, GatherInv',
         UNCHANGED <<written, aggregateQueue, gathered, agData, data, chunks>>,
         \/ UNCHANGED <<aggregatePc, cancelled>>
         \/ UNCHANGED aggregatePc /\ cancelled'
         \/ /\ aggregatePc = "select" /\ aggregatePc' = "stopped"
            /\ UNCHANGED cancelled
  PROVE  StreamInv'
<1>1. Gone' = Gone /\ Hand' = Hand /\ Coming' = Coming /\ Stream' = Stream
  BY DEF Gone, Hand, Coming, Stream
<1>2. HandsFree'
  BY DEF StreamInv, HandsFree
<1>3. Whole(Stream)'
  BY <1>1, SameStreamIsWhole DEF StreamInv, GatherInv, Aggregator!TypeOK
<1> QED
  BY <1>2, <1>3 DEF StreamInv

LEMMA ReceiveKeepsStream ==
  ASSUME StreamInv, Aggregator!Receive
  PROVE  StreamInv'
<1> DEFINE head == Head(aggregateQueue)
<1>1. GatherInv' /\ Aggregator!TypeOK
  BY ReceiveKeepsGather DEF StreamInv, GatherInv
<1>2. /\ aggregateQueue \in Seq(Seq(Aggregator!Bytes))
      /\ aggregateQueue # << >>
      /\ gathered \in Seq(Aggregator!Bytes) /\ head \in Seq(Aggregator!Bytes)
      /\ gathered \o head \in Seq(Aggregator!Bytes)
  BY <1>1 DEF Aggregator!Receive, Aggregator!TypeOK
<1>3. Hand' = gathered \o head /\ HandsFree'
  BY <1>2, FillKeepsHand DEF Aggregator!Receive
<1>4. Coming = head \o Coming'
  BY <1>2, FlattenHeadTail DEF Coming, Aggregator!Receive
<1>5. Hand = gathered
  <2>1. agData = << >> /\ data = << >>
    BY DEF StreamInv, HandsFree, Aggregator!Receive
  <2>2. (<< >> \o gathered) \o << >> = gathered
    BY <1>2, ConcatEmptySeq
  <2> QED
    BY <2>1, <2>2 DEF Hand
<1>6. Gone' = Gone
  BY DEF Gone, Aggregator!Receive
<1>7. Stream' = Stream
  <2>1. Coming' \in Seq(Aggregator!Bytes)
    <3>1. aggregateQueue' \in Seq(Seq(Aggregator!Bytes))
      BY <1>1 DEF GatherInv, Aggregator!TypeOK
    <3> QED
      BY <3>1, FlattenType DEF Coming
  <2> DEFINE back == Coming'
  <2>2. back \in Seq(Aggregator!Bytes)
    BY <2>1
  <2>3. head \in Seq(Aggregator!Bytes) /\ gathered \in Seq(Aggregator!Bytes)
    BY <1>2
  <2> HIDE DEF head, back
  <2>4. (gathered \o head) \o back = gathered \o (head \o back)
    BY <2>2, <2>3, ConcatAssociative
  <2>5. Hand' \o back = Hand \o Coming
    BY <1>3, <1>4, <1>5, <2>4 DEF back
  <2> QED
    BY <1>6, <2>5 DEF Stream, back
<1>8. Whole(Stream)'
  BY <1>1, <1>7, SameStreamIsWhole
     DEF StreamInv, Aggregator!TypeOK, Aggregator!Receive
<1> QED
  BY <1>1, <1>3, <1>8 DEF StreamInv

LEMMA TimeoutKeepsStream ==
  ASSUME StreamInv, Aggregator!Timeout
  PROVE  StreamInv'
<1>1. GatherInv' /\ Aggregator!TypeOK
  BY TimeoutKeepsGather DEF StreamInv, GatherInv
<1>2. agData = << >> /\ data = << >> /\ gathered \in Seq(Aggregator!Bytes)
  BY <1>1 DEF StreamInv, HandsFree, Aggregator!Timeout, Aggregator!TypeOK
<1>3. agData' = gathered /\ gathered' = << >> /\ data' = << >> /\ HandsFree'
  BY <1>2 DEF Aggregator!Timeout, HandsFree
<1>4. Hand' = Hand
  <2>1. /\ (<< >> \o gathered) \o << >> = gathered
        /\ (gathered \o << >>) \o << >> = gathered
    BY <1>2, ConcatEmptySeq
  <2> QED
    BY <1>2, <1>3, <2>1 DEF Hand
<1>5. Stream' = Stream
  BY <1>4 DEF Stream, Gone, Coming, Aggregator!Timeout
<1>6. Whole(Stream)'
  BY <1>1, <1>5, SameStreamIsWhole
     DEF StreamInv, Aggregator!TypeOK, Aggregator!Timeout
<1> QED
  BY <1>1, <1>3, <1>6 DEF StreamInv

LEMMA FlushDoneKeepsStream ==
  ASSUME StreamInv, Aggregator!FlushDone
  PROVE  StreamInv'
<1>1. GatherInv' /\ Aggregator!TypeOK
  BY FlushDoneKeepsGather DEF StreamInv, GatherInv
<1>2. Hand = agData \o data /\ Hand' = data /\ HandsFree'
  BY ResumeKeepsRest DEF Aggregator!FlushDone
<1>3. /\ Gone \in Seq(Aggregator!Bytes) /\ Coming \in Seq(Aggregator!Bytes)
      /\ agData \in Seq(Aggregator!Bytes) /\ data \in Seq(Aggregator!Bytes)
  BY <1>1, PiecesAreSequences
<1>4. Gone' = Gone \o agData
  <2>1. chunks \in Seq(Seq(Aggregator!Bytes))
    BY <1>1 DEF Aggregator!TypeOK
  <2> QED
    BY <1>3, <2>1, FlattenAppend DEF Aggregator!FlushDone, Gone
<1>5. Coming' = Coming
  BY DEF Aggregator!FlushDone, Coming
<1>6. Stream' = Stream
  <2>1. (agData \o data) \o Coming = agData \o (data \o Coming)
    BY <1>3
  <2>2. Gone \o (agData \o (data \o Coming))
          = (Gone \o agData) \o (data \o Coming)
    BY <1>3
  <2> QED
    BY <1>2, <1>4, <1>5, <2>1, <2>2 DEF Stream
<1>7. Whole(Stream)'
  BY <1>1, <1>6, SameStreamIsWhole
     DEF StreamInv, Aggregator!TypeOK, Aggregator!FlushDone
<1> QED
  BY <1>1, <1>2, <1>7 DEF StreamInv

LEMMA FlushAbandonedKeepsStream ==
  ASSUME StreamInv, Aggregator!FlushAbandoned
  PROVE  StreamInv'
<1>1. GatherInv' /\ Aggregator!TypeOK
  BY FlushAbandonedKeepsGather DEF StreamInv, GatherInv
<1>2. Hand = agData \o data /\ Hand' = data /\ HandsFree'
  BY ResumeKeepsRest DEF Aggregator!FlushAbandoned
<1>3. /\ Gone \in Seq(Aggregator!Bytes) /\ Coming \in Seq(Aggregator!Bytes)
      /\ agData \in Seq(Aggregator!Bytes) /\ data \in Seq(Aggregator!Bytes)
  BY <1>1, PiecesAreSequences
<1>4. Gone' = Gone /\ Coming' = Coming
  BY DEF Aggregator!FlushAbandoned, Gone, Coming
<1> DEFINE db == data \o Coming
<1>5. (agData \o data) \o Coming = agData \o db /\ db \in Seq(Aggregator!Bytes)
  BY <1>3, ConcatAssociative
<1>6. Stream = Gone \o (agData \o db) /\ Stream' = Gone \o db
  BY <1>2, <1>4, <1>5 DEF Stream
<1> HIDE DEF db
<1>7. Whole(Gone \o db)
  <2>1. cancelled /\ Whole(Gone \o (agData \o db))
    BY <1>6 DEF StreamInv, Aggregator!FlushAbandoned
  <2> QED
    BY <1>3, <1>5, <2>1, CutStreamIsWhole
<1>8. Whole(Stream)'
  BY <1>6, <1>7 DEF Whole, Aggregator!Ascending, Aggregator!FlushAbandoned
<1> QED
  BY <1>1, <1>2, <1>8 DEF StreamInv

LEMMA NextKeepsStream ==
  StreamInv /\ [Aggregator!Next]_(Aggregator!vars) => StreamInv'
<1> SUFFICES ASSUME StreamInv, [Aggregator!Next]_(Aggregator!vars)
             PROVE  StreamInv'
  OBVIOUS
<1>1. GatherInv'
  BY NextKeepsGather DEF StreamInv
<1>2. CASE \/ Aggregator!Encode \/ Aggregator!Expire \/ Aggregator!Cancel
           \/ Aggregator!Stop \/ UNCHANGED Aggregator!vars
  BY <1>1, <1>2, AsideKeepsStream
     DEF Aggregator!Encode, Aggregator!Expire, Aggregator!Cancel,
         Aggregator!Stop, Aggregator!vars
<1>3. CASE Aggregator!Aggregate
  BY <1>2, <1>3, ReceiveKeepsStream, TimeoutKeepsStream, FlushDoneKeepsStream,
     FlushAbandonedKeepsStream DEF Aggregator!Aggregate
<1> QED
  BY <1>2, <1>3, WriteKeepsStream DEF Aggregator!Next

LEMMA StreamInvSuffices == StreamInv => Aggregator!StreamIntact
<1>1. \A s : Aggregator!FlattenSeq(s) = FlattenSeq(s)
  BY DEF Aggregator!FlattenSeq, FlattenSeq
<1> QED
  BY <1>1, StreamGroups
     DEF StreamInv, GatherInv, Whole, Aggregator!StreamIntact

(* However writes, full buffers, flushes by the timer and flushes that     *)
(* cancelling gives up interleave, no byte is doubled or overtaken, and    *)
(* none is lost before the context is done (lines 87-95, 180-202).         *)
THEOREM GatheredStreamIntact == Aggregator!Spec => []Aggregator!StreamIntact
BY InitStream, NextKeepsStream, StreamInvSuffices, PTL DEF Aggregator!Spec

(* Bytes that stay in the buffer are never left without a timer, in the    *)
(* whole encoder as in the aggregator alone (encoder.go:188-199).          *)
THEOREM EncoderForgetsNoBytes == EncoderSpec => []TimerGuardsBuffer
<1>1. EncoderInit => GatherInv
  BY InitGather DEF EncoderInit
<1>2. GatherInv => TimerGuardsBuffer
  BY DEF GatherInv, TimerGuardsBuffer
<1> QED
  BY <1>1, <1>2, NextKeepsGather, PartsKeepToEnvironments, PTL
     DEF EncoderSpec, WithinEnvironments, Aggregator!Spec

(* However the application's writes, the timer, encode and cancelling      *)
(* interleave in the whole encoder, the bytes flushed, in hand, in the     *)
(* buffer and queued are the written ones in their order: none is doubled  *)
(* or overtaken, and none is lost before the context is done               *)
(* (encoder.go:87-95, 180-202).                                            *)
THEOREM EncoderStreamIntact == EncoderSpec => []StreamIntact
<1>1. EncoderInit => StreamInv
  BY InitStream DEF EncoderInit
<1>2. StreamInv => StreamIntact
  BY StreamInvSuffices DEF StreamIntact
<1> QED
  BY <1>1, <1>2, NextKeepsStream, PartsKeepToEnvironments, PTL
     DEF EncoderSpec, WithinEnvironments, Aggregator!Spec
=============================================================================
