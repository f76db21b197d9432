----------------------------- MODULE DecoderProofs -----------------------------
(***************************************************************************)
(* What is proved of the decoder: of its assembler alone first, then of    *)
(* the four goroutines composed, and of the client around them.            *)
(*                                                                         *)
(* The assembler, for every number of lines and parts, every Data <= Total *)
(* and every set of packets without psn = Total, that come in any order,   *)
(* any number of times.  The index arithmetic comes first: the flat places *)
(* of the table are lines times parts (FlatIndex), a packet lies at its    *)
(* part of its chunk's line (PacketPlace), and the range that is copied    *)
(* and cleared is that line and no other (LineRange).  LinesPure is then   *)
(* preserved, and what is pushed is a copy of a pure line.  On that rest   *)
(* the order of the pushes (OrderInv) and the counting (OnceInv).          *)
(*                                                                         *)
(* The decoder implements its assembler and its dispatcher, so that their  *)
(* theorems hold of it.  DecoderInv follows packets and chunks from the    *)
(* wire to the client, DecoderOnceInv what holds while nothing is doubled, *)
(* OriginInv the two runs of an encoder, and GaplessInv the order of       *)
(* everything under way while the network is a faithful one: the decoder   *)
(* then implements the gapless stream.  EnoughInv, at the end, follows the *)
(* packets of each chunk until it is pushed or overtaken.                  *)
(***************************************************************************)
EXTENDS ClientInbound, DataLemmas

-----------------------------------------------------------------------------
(* The inductive invariant, in terms of line and part of a place.          *)

Place(line, i) == line * Total + i

(* What lies in a line belongs to the chunk the line collects, at its part. *)
LinesPure ==
  \A line \in LineNumbers, i \in Parts :
    LET p == packets[Place(line, i)] IN
      p # Nil => /\ found[line] # 0
                 /\ p = [csn |-> csn[line], psn |-> i]

(* A line collects a chunk that belongs there. *)
LinesOwned ==
  \A line \in LineNumbers : found[line] # 0 => AtChunk(csn[line]) = line

(* The line about to be pushed collects the chunk of the packet in hand. *)
PushesOwnLine ==
  pc = "push" => /\ packet # Nil
                 /\ found[AtChunk(packet.csn)] # 0
                 /\ csn[AtChunk(packet.csn)] = packet.csn

(* Only the line about to be pushed has enough packets, but for a line     *)
(* with one packet when Data is 1, which line 283 does not push.           *)
OthersIncomplete ==
  pc # "stopped" =>
    \A line \in LineNumbers :
      \/ found[line] < Data
      \/ found[line] = 1
      \/ pc = "push" /\ line = AtChunk(packet.csn)

IInv ==
  /\ TypeOK
  /\ LinesPure
  /\ LinesOwned
  /\ PushesOwnLine
  /\ OthersIncomplete
  /\ PushedPure

(* Everything in the assembler has arrived. *)
HeldArrived ==
  /\ \A i \in 1 .. Len(assemblyQueue) : arrived[assemblyQueue[i]] > 0
  /\ \A at \in Places : packets[at] # Nil => arrived[packets[at]] > 0
  /\ \A line \in PushedLines : \A i \in Shards(line) : arrived[line[i]] > 0
  /\ \A line \in LineNumbers : found[line] # 0 =>
       \E p \in Valid : p.csn = csn[line] /\ arrived[p] > 0

-----------------------------------------------------------------------------
(* What AscendingPushes rests on: where the cursor or a line has fallen    *)
(* behind a push, something older is unfinished.                           *)

CursorBehind ==
  \A d \in PushedCsn : d > last => \E g \in 1 .. last : Unfinished(g)

LinesBehind ==
  \A line \in LineNumbers :
    (found[line] # 0 /\ csn[line] \in PushedCsn) =>
      \E g \in 1 .. csn[line] : Unfinished(g)

PushesAheadOfCursor == pc = "push" => packet.csn > last

OrderInv ==
  /\ IInv
  /\ HeldArrived
  /\ CursorBehind
  /\ LinesBehind
  /\ PushesAheadOfCursor
  /\ AscendingPushes

-----------------------------------------------------------------------------
(* What PushedRestorable and PushedOnce rest on: as long as no packet has  *)
(* come twice, one is in one place only, and found counts right.           *)

NoCopies == \A p \in Packets : arrived[p] <= 1

Filled(line) == {i \in Parts : packets[Place(line, i)] # Nil}

CountsRight ==
  \A line \in LineNumbers : found[line] = Cardinality(Filled(line))

InPushed == UNION {PacketsIn(line) : line \in PushedLines}

InOnePlace ==
  /\ \A i, j \in 1 .. Len(assemblyQueue) :
       assemblyQueue[i] = assemblyQueue[j] => i = j
  /\ \A i \in 1 .. Len(assemblyQueue) :
       assemblyQueue[i] \notin Stored \cup InPushed
  /\ Stored \cap InPushed = {}
  /\ \A i, j \in 1 .. Len(pushed) :
       PacketsIn(pushed[i]) \cap PacketsIn(pushed[j]) # {} => i = j

PushesEnough == pc = "push" => found[AtChunk(packet.csn)] >= Data

OnceInv ==
  /\ IInv
  /\ HeldArrived
  /\ NoCopies =>
       /\ CountsRight
       /\ InOnePlace
       /\ PushesEnough
       /\ PushedRestorable

-----------------------------------------------------------------------------
(* Places and lines. *)

LEMMA Sizes ==
  /\ Total \in Nat \ {0} /\ Data \in Nat \ {0} /\ Lines \in Nat \ {0}
  /\ TableSize \in Nat \ {0}
<1>1. Total \in Nat \ {0} /\ Data \in Nat \ {0} /\ Lines \in Nat \ {0}
  BY PartsAssumption, LinesAssumption
<1>2. Lines * Total \in Nat \ {0}
  <2>1. Lines * Total >= Total
    <3>1. (Lines - 1) * Total >= 0
      BY <1>1
    <3> QED
      BY <3>1, <1>1
  <2> QED
    BY <2>1, <1>1
<1> QED
  BY <1>1, <1>2 DEF TableSize

(* The place of a part of a line is a place of the table. *)
LEMMA PlaceType ==
  ASSUME NEW line \in LineNumbers, NEW i \in Parts
  PROVE  Place(line, i) \in Places
<1>1. Total * Lines >= Total * line + Total
  BY Sizes, MultiplesApart DEF LineNumbers
<1>2. Total * Lines = TableSize /\ Total * line = line * Total
  BY Sizes DEF TableSize, LineNumbers
<1>3. line * Total \in Nat
  BY Sizes DEF LineNumbers
<1> QED
  BY <1>1, <1>2, <1>3, Sizes DEF Place, Places, Parts

(* Different lines and parts have different places. *)
LEMMA PlaceUnique ==
  ASSUME NEW k \in LineNumbers, NEW i \in Parts,
         NEW l \in LineNumbers, NEW j \in Parts,
         Place(k, i) = Place(l, j)
  PROVE  k = l /\ i = j
<1>1. /\ k \in Nat /\ l \in Nat /\ Total \in Nat
      /\ i \in 0 .. Total - 1 /\ j \in 0 .. Total - 1
  BY Sizes DEF LineNumbers, Parts
<1>2. Total * k + i = Total * l + j
  BY <1>1 DEF Place
<1> QED
  BY <1>1, <1>2, QuotientUnique

LEMMA AtChunkType ==
  ASSUME NEW c \in Nat
  PROVE  AtChunk(c) \in LineNumbers
BY Sizes DEF AtChunk, LineNumbers

(* Line 252: a packet lies at its part of the line of its chunk.           *)
LEMMA PacketPlace ==
  ASSUME NEW p, p.csn \in Nat, p.psn \in Parts
  PROVE  AtPacket(p) = Place(AtChunk(p.csn), p.psn)
BY FlatIndex, Sizes DEF AtPacket, Place, AtChunk, TableSize, Parts

(* Lines 254-258: from ChunkStart up to ChunkEnd there are the Total       *)
(* places of the chunk's line.                                             *)
LEMMA LineRange ==
  ASSUME NEW c \in Nat
  PROVE  /\ ChunkStart(c) = Place(AtChunk(c), 0)
         /\ ChunkEnd(c) = Place(AtChunk(c), 0) + Total
<1> DEFINE r == c % Lines
           q == c \div Lines
<1>1. 0 \in 0 .. Total - 1
  BY Sizes
<1>2. ChunkStart(c) = r * Total
  <2>1. (c * Total + 0) % (Lines * Total) = r * Total + 0
    BY <1>1, FlatIndex, Sizes
  <2>2. c * Total + 0 = c * Total /\ r * Total + 0 = r * Total
    BY Sizes
  <2> QED
    BY <2>1, <2>2 DEF ChunkStart, TableSize
<1>3. c + 1 \in Nat /\ (c + 1) % Lines \in Nat
  BY DivMod, Sizes
<1>4. ((c + 1) * Total) % TableSize = ((c + 1) % Lines) * Total
  <2>1. ((c + 1) * Total + 0) % (Lines * Total) = ((c + 1) % Lines) * Total + 0
    BY <1>1, <1>3, FlatIndex, Sizes
  <2>2. /\ (c + 1) * Total + 0 = (c + 1) * Total
        /\ ((c + 1) % Lines) * Total + 0 = ((c + 1) % Lines) * Total
    BY <1>3, Sizes
  <2> QED
    BY <2>1, <2>2 DEF TableSize
<1>5. c = Lines * q + r /\ q \in Nat /\ r \in 0 .. Lines - 1
  BY DivMod, Sizes
<1>6. AtChunk(c) = r
  BY DEF AtChunk
<1> HIDE DEF r, q
<1>7. r * Total \in Nat
  BY <1>5, Sizes
<1>8. Place(r, 0) = r * Total
  BY <1>7 DEF Place
<1>9. CASE r = Lines - 1
  <2>1. Lines * (q + 1) = Lines * q + Lines /\ Lines * q \in Nat
    BY <1>5, Sizes
  <2>2. c + 1 = Lines * (q + 1) + 0
    BY <2>1, <1>5, <1>9, Sizes
  <2>3. (c + 1) % Lines = 0
    BY <2>2, <1>3, <1>5, Sizes, RemainderIs
  <2>4. ChunkEnd(c) = TableSize
    BY <1>4, <2>3, Sizes DEF ChunkEnd
  <2>5. TableSize = r * Total + Total
    BY <1>9, Sizes DEF TableSize
  <2> QED
    BY <1>2, <1>6, <1>8, <2>4, <2>5
<1>10. CASE r < Lines - 1
  <2>1. Lines * q \in Nat
    BY <1>5, Sizes
  <2>2. c + 1 = Lines * q + (r + 1) /\ r + 1 \in 0 .. Lines - 1
    BY <2>1, <1>5, <1>10, Sizes
  <2>3. (c + 1) % Lines = r + 1
    BY <2>2, <1>3, <1>5, Sizes, RemainderIs
  <2>4. (r + 1) * Total = r * Total + Total
    BY <1>5, Sizes
  <2>5. ChunkEnd(c) = r * Total + Total
    BY <1>4, <1>7, <2>3, <2>4, Sizes DEF ChunkEnd
  <2> QED
    BY <1>2, <1>6, <1>8, <2>5
<1> QED
  BY <1>5, <1>9, <1>10, Sizes

(* A place is in the range of a chunk iff it is in the chunk's line. *)
LEMMA PlaceInLine ==
  ASSUME NEW c \in Nat, NEW line \in LineNumbers, NEW i \in Parts
  PROVE  Place(line, i) \in LineOf(c) <=> line = AtChunk(c)
<1> DEFINE l == AtChunk(c)
<1>1. l \in LineNumbers /\ l \in Nat /\ line \in Nat /\ i \in Nat
      /\ i < Total /\ Total \in Nat /\ Total # 0
  BY AtChunkType, Sizes DEF LineNumbers, Parts
<1>2. LineOf(c) = Place(l, 0) .. (Place(l, 0) + Total) - 1
  <2>1. ChunkStart(c) = Place(l, 0) /\ ChunkEnd(c) = Place(l, 0) + Total
    BY LineRange
  <2> QED
    BY <2>1 DEF LineOf
<1>3. l * Total \in Nat /\ line * Total \in Nat
  BY <1>1
<1>4. CASE line = l
  BY <1>1, <1>2, <1>3, <1>4, SMTT(30) DEF Place
<1>5. CASE Place(line, i) \in LineOf(c)
  <2> DEFINE j == (line * Total + i) - l * Total
  <2>1. j \in Parts
    BY <1>1, <1>2, <1>3, <1>5 DEF Place, Parts
  <2>2. l * Total + j = line * Total + i
    BY <1>1, <1>3
  <2> HIDE DEF j
  <2>3. Place(l, j) = Place(line, i)
    BY <2>2 DEF Place
  <2>4. l \in LineNumbers
    BY <1>1
  <2> HIDE DEF l
  <2>5. l = line
    BY <2>1, <2>3, <2>4, PlaceUnique
  <2> QED
    BY <1>5, <2>5 DEF l
<1> QED
  BY <1>4, <1>5

-----------------------------------------------------------------------------
(* What the table holds after a store, a clearing and a copy. *)

LEMMA ValidPacket ==
  ASSUME PartsInRange, NEW p \in Valid
  PROVE  /\ p.csn \in Nat \ {0} /\ p.psn \in Parts
         /\ p = [csn |-> p.csn, psn |-> p.psn]
         /\ p # Nil
<1>1. p \in [csn : Nat, psn : Nat] /\ p.psn # Total
  BY PacketsAssumption DEF Valid, PartsInRange
<1>2. p.csn # 0 /\ ~ (p.psn > Total)
  BY <1>1, PartsAssumption DEF Valid
<1>3. p.csn \in Nat \ {0} /\ p.psn \in Parts
  BY <1>1, <1>2, Sizes DEF Parts
<1>4. p = [csn |-> p.csn, psn |-> p.psn]
  BY <1>1
<1>5. p # Nil
  BY <1>2 DEF Nil
<1> QED
  BY <1>3, <1>4, <1>5

LEMMA StoreAt ==
  ASSUME PartsInRange, NEW p \in Valid, NEW T, NEW table \in [Places -> T]
  PROVE  \A line \in LineNumbers, i \in Parts :
           [table EXCEPT ![AtPacket(p)] = p][Place(line, i)] =
             IF line = AtChunk(p.csn) /\ i = p.psn
               THEN p ELSE table[Place(line, i)]
<1> SUFFICES ASSUME NEW line \in LineNumbers, NEW i \in Parts
             PROVE  [table EXCEPT ![AtPacket(p)] = p][Place(line, i)] =
                      IF line = AtChunk(p.csn) /\ i = p.psn
                        THEN p ELSE table[Place(line, i)]
  OBVIOUS
<1>1. p.csn \in Nat /\ p.psn \in Parts
  BY ValidPacket
<1>2. AtPacket(p) = Place(AtChunk(p.csn), p.psn)
  BY <1>1, PacketPlace
<1>3. AtChunk(p.csn) \in LineNumbers
  BY <1>1, AtChunkType
<1>4. Place(line, i) \in Places
  BY PlaceType
<1>5. Place(line, i) = AtPacket(p) => line = AtChunk(p.csn) /\ i = p.psn
  BY <1>1, <1>2, <1>3, PlaceUnique
<1> QED
  BY <1>2, <1>4, <1>5

LEMMA ClearedLine ==
  ASSUME NEW c \in Nat
  PROVE  \A line \in LineNumbers, i \in Parts :
           Cleared(c)[Place(line, i)] =
             IF line = AtChunk(c) THEN Nil ELSE packets[Place(line, i)]
<1> SUFFICES ASSUME NEW line \in LineNumbers, NEW i \in Parts
             PROVE  Cleared(c)[Place(line, i)] =
                      IF line = AtChunk(c) THEN Nil ELSE packets[Place(line, i)]
  OBVIOUS
<1>1. Place(line, i) \in Places
  BY PlaceType
<1>2. Place(line, i) \in LineOf(c) <=> line = AtChunk(c)
  BY PlaceInLine
<1> QED
  BY <1>1, <1>2 DEF Cleared

LEMMA CopiedLine ==
  ASSUME NEW c \in Nat, NEW i \in Parts
  PROVE  Copy(c)[i] = packets[Place(AtChunk(c), i)]
<1>1. AtChunk(c) \in LineNumbers
  BY AtChunkType
<1>2. ChunkStart(c) = Place(AtChunk(c), 0)
  BY LineRange
<1>3. Place(AtChunk(c), 0) + i = Place(AtChunk(c), i)
  <2>1. AtChunk(c) * Total \in Nat /\ i \in Nat
    BY <1>1, Sizes DEF LineNumbers, Parts
  <2> QED
    BY <2>1 DEF Place
<1>4. Place(AtChunk(c), i) \in LineOf(c)
  BY <1>1, PlaceInLine
<1> QED
  BY <1>2, <1>3, <1>4 DEF Copy

-----------------------------------------------------------------------------
LEMMA InitIInv == Init => IInv
<1> SUFFICES ASSUME Init PROVE IInv
  OBVIOUS
<1>1. TypeOK
  BY Sizes DEF Init, TypeOK
<1>2. LinesPure
  BY PlaceType DEF Init, LinesPure
<1>3. LinesOwned /\ PushesOwnLine /\ OthersIncomplete
  BY Sizes DEF Init, LinesOwned, PushesOwnLine, OthersIncomplete
<1>4. PushedPure
  BY DEF Init, PushedPure, PushedLines
<1> QED
  BY <1>1, <1>2, <1>3, <1>4 DEF IInv

(* Steps of others, and packets that are dropped. *)
LEMMA QuietKeepsIInv ==
  ASSUME IInv, UNCHANGED <<state, pushed>>, pc' = pc \/ pc' = "stopped",
         TypeOK'
  PROVE  IInv'
<1>1. LinesPure' /\ LinesOwned'
  BY DEF IInv, state, LinesPure, LinesOwned
<1>2. PushesOwnLine' /\ OthersIncomplete'
  BY DEF IInv, state, PushesOwnLine, OthersIncomplete
<1>3. PushedPure'
  BY DEF IInv, PushedPure, PushedLines
<1> QED
  BY <1>1, <1>2, <1>3 DEF IInv

LEMMA ArriveKeepsIInv ==
  ASSUME IInv, NEW p \in Packets, Arrive(p)
  PROVE  IInv'
<1>1. TypeOK'
  BY DEF IInv, TypeOK, Arrive, state
<1> QED
  BY <1>1, QuietKeepsIInv DEF Arrive

LEMMA OthersKeepIInv ==
  ASSUME IInv, Restore \/ Stop \/ UNCHANGED vars
  PROVE  IInv'
<1>1. CASE Restore
  <2>1. TypeOK'
    BY <1>1 DEF IInv, TypeOK, Restore, state
  <2> QED
    BY <1>1, <2>1, QuietKeepsIInv DEF Restore
<1>2. CASE Stop
  <2>1. TypeOK'
    BY <1>2 DEF IInv, TypeOK, Stop, state
  <2> QED
    BY <1>2, <2>1, QuietKeepsIInv DEF Stop
<1>3. CASE UNCHANGED vars
  <2>1. TypeOK'
    BY <1>3 DEF IInv, TypeOK, vars
  <2> QED
    BY <1>3, <2>1, QuietKeepsIInv DEF vars, state
<1> QED
  BY <1>1, <1>2, <1>3

LEMMA DropKeepsIInv ==
  ASSUME IInv, NEW p \in Packets, Drop(p)
  PROVE  IInv'
<1>1. TypeOK'
  BY DEF IInv, TypeOK, Drop, Receive, state
<1> QED
  BY <1>1, QuietKeepsIInv DEF Drop, Receive

-----------------------------------------------------------------------------
(* Storing a packet. *)

(* What lines 229-250 guarantee of a packet that is stored. *)
LEMMA AdmitFacts ==
  ASSUME IInv, PartsInRange, NEW p \in Packets, Admit(p)
  PROVE  /\ p \in Valid /\ p.csn \in Nat \ {0} /\ p.psn \in Parts
         /\ p = [csn |-> p.csn, psn |-> p.psn] /\ p # Nil
         /\ AtChunk(p.csn) \in LineNumbers
         /\ pc = "select" /\ packet' = p
         /\ assemblyQueue' \in Seq(Packets)
         /\ UNCHANGED <<pushed, restored, arrived>>
<1>1. p \in Valid
  <2>1. p \in [csn : Nat, psn : Nat]
    BY PacketsAssumption
  <2>2. p.csn # 0 /\ p.psn <= Total
    BY <2>1, PartsAssumption DEF Admit, Invalid
  <2> QED
    BY <2>2 DEF Valid
<1>2. assemblyQueue' \in Seq(Packets)
  BY DEF Admit, Receive, IInv, TypeOK
<1>3. p.csn \in Nat /\ AtChunk(p.csn) \in LineNumbers
  BY <1>1, ValidPacket, AtChunkType
<1> QED
  BY <1>1, <1>2, <1>3, ValidPacket DEF Admit, Receive

(* A table stays one when a packet is stored in it. *)
LEMMA TableType ==
  ASSUME NEW p \in Valid, NEW table \in [Places -> Valid \cup {Nil}]
  PROVE  [table EXCEPT ![AtPacket(p)] = p] \in [Places -> Valid \cup {Nil}]
OBVIOUS

(* The line of the packet keeps to one chunk, if what else it holds after  *)
(* the store belongs to that chunk already.                                *)
LEMMA StoreKeepsLines ==
  ASSUME IInv, PartsInRange, NEW p \in Valid, found'[AtChunk(p.csn)] # 0,
         NEW table \in [Places -> Valid \cup {Nil}],
         packets' = [table EXCEPT ![AtPacket(p)] = p],
         \A l \in LineNumbers, i \in Parts :
           table[Place(l, i)] # Nil =>
             /\ table[Place(l, i)] = packets[Place(l, i)]
             /\ l = AtChunk(p.csn) => csn[l] = p.csn,
         \A l \in LineNumbers : l # AtChunk(p.csn) => found'[l] = found[l],
         \A l \in LineNumbers :
           csn'[l] = IF l = AtChunk(p.csn) THEN p.csn ELSE csn[l]
  PROVE  LinesPure' /\ LinesOwned'
<1> DEFINE line == AtChunk(p.csn)
<1>1. p = [csn |-> p.csn, psn |-> p.psn]
  BY ValidPacket
<1>2. \A l \in LineNumbers, i \in Parts :
        [table EXCEPT ![AtPacket(p)] = p][Place(l, i)] =
          IF l = line /\ i = p.psn THEN p ELSE table[Place(l, i)]
  BY StoreAt
<1>3. \A l \in LineNumbers, i \in Parts :
        packets'[Place(l, i)] =
          IF l = line /\ i = p.psn THEN p ELSE table[Place(l, i)]
  BY <1>2
<1>4. LinesPure'
  <2> SUFFICES ASSUME NEW l \in LineNumbers, NEW i \in Parts,
                      packets'[Place(l, i)] # Nil
               PROVE  /\ found'[l] # 0
                      /\ packets'[Place(l, i)] = [csn |-> csn'[l], psn |-> i]
    BY DEF LinesPure, Place
  <2>1. CASE l = line /\ i = p.psn
    BY <2>1, <1>1, <1>3
  <2>2. CASE ~ (l = line /\ i = p.psn)
    <3>1. packets'[Place(l, i)] = table[Place(l, i)]
      BY <2>2, <1>3
    <3>2. table[Place(l, i)] = packets[Place(l, i)] /\ (l = line => csn[l] = p.csn)
      BY <3>1
    <3>3. found[l] # 0 /\ packets[Place(l, i)] = [csn |-> csn[l], psn |-> i]
      BY <3>1, <3>2 DEF IInv, LinesPure
    <3> QED
      BY <3>1, <3>2, <3>3
  <2> QED
    BY <2>1, <2>2
<1>5. LinesOwned'
  BY DEF IInv, LinesOwned, AtChunk
<1> QED
  BY <1>4, <1>5

LEMMA JoinKeepsIInv ==
  ASSUME IInv, PartsInRange, NEW p \in Packets, Join(p)
  PROVE  IInv'
<1> DEFINE line == AtChunk(p.csn)
<1>1. Admit(p) /\ TypeOK
  BY DEF Join, IInv
<1>2. /\ p \in Valid /\ p.csn \in Nat \ {0} /\ p # Nil
      /\ line \in LineNumbers
      /\ pc = "select" /\ packet' = p
      /\ assemblyQueue' \in Seq(Packets)
      /\ UNCHANGED <<pushed, restored, arrived>>
  BY <1>1, AdmitFacts
<1>3. /\ found[line] # 0 /\ csn[line] = p.csn
      /\ packets' = [packets EXCEPT ![AtPacket(p)] = p]
      /\ found' = [found EXCEPT ![line] = found[line] + 1]
      /\ pc' = IF found'[line] >= Data THEN "push" ELSE "select"
      /\ UNCHANGED <<last, csn>>
  BY DEF Join
<1>4. found[line] < Data \/ found[line] = 1
  BY <1>2 DEF IInv, OthersIncomplete
<1>5. found[line] + 1 \in 0 .. Data + 1 /\ found[line] + 1 # 0
  BY <1>1, <1>2, <1>4, Sizes DEF TypeOK
<1>6. \A l \in LineNumbers :
        found'[l] = IF l = line THEN found[line] + 1 ELSE found[l]
  BY <1>1, <1>2, <1>3 DEF TypeOK
<1>7. packets \in [Places -> Valid \cup {Nil}]
  BY <1>1 DEF TypeOK
<1>8. TypeOK'
  <2>1. found' \in [LineNumbers -> 0 .. Data + 1]
    BY <1>1, <1>3, <1>5 DEF TypeOK
  <2>2. packets' \in [Places -> Valid \cup {Nil}]
    BY <1>2, <1>3, <1>7, TableType
  <2> QED
    BY <1>1, <1>2, <1>3, <2>1, <2>2 DEF TypeOK
<1>9. LinesPure' /\ LinesOwned'
  <2>1. \A l \in LineNumbers : csn'[l] = IF l = line THEN p.csn ELSE csn[l]
    BY <1>3
  <2>2. \A l \in LineNumbers, i \in Parts :
          packets[Place(l, i)] # Nil =>
            /\ packets[Place(l, i)] = packets[Place(l, i)]
            /\ l = line => csn[l] = p.csn
    BY <1>3
  <2>3. found'[line] # 0
    BY <1>2, <1>5, <1>6
  <2> QED
    BY <1>2, <1>3, <1>6, <1>7, <2>1, <2>2, <2>3, StoreKeepsLines
<1>10. PushesOwnLine'
  BY <1>2, <1>3, <1>5, <1>6 DEF PushesOwnLine, AtChunk
<1>11. OthersIncomplete'
  <2>1. found'[line] < Data \/ pc' = "push"
    BY <1>2, <1>3, <1>5, <1>6, Sizes
  <2>2. \A l \in LineNumbers : l # line => found'[l] < Data \/ found'[l] = 1
    BY <1>2, <1>6 DEF IInv, OthersIncomplete
  <2> QED
    BY <2>1, <2>2, <1>2 DEF OthersIncomplete, AtChunk
<1>12. PushedPure'
  BY <1>2 DEF IInv, PushedPure, PushedLines
<1> QED
  BY <1>8, <1>9, <1>10, <1>11, <1>12 DEF IInv

(* What Open and Replace have in common: one packet of a new chunk. *)
LEMMA NewChunkKeepsIInv ==
  ASSUME IInv, PartsInRange, NEW p \in Packets, Admit(p), pc' = pc,
         last' \in Nat,
         NEW table \in [Places -> Valid \cup {Nil}],
         packets' = [table EXCEPT ![AtPacket(p)] = p],
         csn' = [csn EXCEPT ![AtChunk(p.csn)] = p.csn],
         found' = [found EXCEPT ![AtChunk(p.csn)] = 1],
         \A l \in LineNumbers, i \in Parts :
           table[Place(l, i)] # Nil =>
             table[Place(l, i)] = packets[Place(l, i)] /\ l # AtChunk(p.csn)
  PROVE  IInv'
<1> DEFINE line == AtChunk(p.csn)
<1>1. TypeOK
  BY DEF IInv
<1>2. /\ p \in Valid /\ p.csn \in Nat \ {0} /\ p # Nil
      /\ line \in LineNumbers
      /\ pc = "select" /\ packet' = p
      /\ assemblyQueue' \in Seq(Packets)
      /\ UNCHANGED <<pushed, restored, arrived>>
  BY AdmitFacts
<1>3. TypeOK'
  <2>1. found' \in [LineNumbers -> 0 .. Data + 1]
    <3>1. found \in [LineNumbers -> 0 .. Data + 1]
      BY <1>1 DEF TypeOK
    <3>2. 1 \in 0 .. Data + 1
      BY Sizes
    <3> QED
      BY <3>1, <3>2
  <2>2. packets' \in [Places -> Valid \cup {Nil}]
    BY <1>2, TableType
  <2>3. csn' \in [LineNumbers -> Nat]
    BY <1>1, <1>2 DEF TypeOK
  <2> QED
    BY <1>1, <1>2, <2>1, <2>2, <2>3 DEF TypeOK
<1>4. /\ \A l \in LineNumbers : found'[l] = IF l = line THEN 1 ELSE found[l]
      /\ \A l \in LineNumbers : csn'[l] = IF l = line THEN p.csn ELSE csn[l]
  BY <1>1, <1>2 DEF TypeOK
<1>5. LinesPure' /\ LinesOwned'
  <2>1. \A l \in LineNumbers, i \in Parts :
          table[Place(l, i)] # Nil =>
            /\ table[Place(l, i)] = packets[Place(l, i)]
            /\ l = line => csn[l] = p.csn
    OBVIOUS
  <2>2. found'[line] # 0
    BY <1>2, <1>4
  <2>3. \A l \in LineNumbers : l # line => found'[l] = found[l]
    BY <1>4
  <2>4. \A l \in LineNumbers : csn'[l] = IF l = line THEN p.csn ELSE csn[l]
    BY <1>4
  <2>5. p \in Valid
    BY <1>2
  <2> QED
    BY <2>1, <2>2, <2>3, <2>4, <2>5, StoreKeepsLines
<1>6. PushesOwnLine' /\ OthersIncomplete'
  BY <1>2, <1>4 DEF IInv, PushesOwnLine, OthersIncomplete
<1>7. PushedPure'
  BY <1>2 DEF IInv, PushedPure, PushedLines
<1> QED
  BY <1>3, <1>5, <1>6, <1>7 DEF IInv

LEMMA OpenKeepsIInv ==
  ASSUME IInv, PartsInRange, NEW p \in Packets, Open(p)
  PROVE  IInv'
<1> DEFINE line == AtChunk(p.csn)
<1>1. Admit(p) /\ TypeOK
  BY DEF Open, IInv
<1>2. /\ found[line] = 0
      /\ packets' = [packets EXCEPT ![AtPacket(p)] = p]
      /\ csn' = [csn EXCEPT ![line] = p.csn]
      /\ found' = [found EXCEPT ![line] = 1]
      /\ UNCHANGED <<last, pc>>
  BY DEF Open
<1>3. packets \in [Places -> Valid \cup {Nil}] /\ last' \in Nat
  BY <1>1, <1>2 DEF TypeOK
<1>4. \A l \in LineNumbers, i \in Parts :
        packets[Place(l, i)] # Nil =>
          packets[Place(l, i)] = packets[Place(l, i)] /\ l # line
  BY <1>2 DEF IInv, LinesPure
<1> QED
  BY <1>1, <1>2, <1>3, <1>4, NewChunkKeepsIInv

LEMMA ReplaceKeepsIInv ==
  ASSUME IInv, PartsInRange, NEW p \in Packets, Replace(p)
  PROVE  IInv'
<1> DEFINE line == AtChunk(p.csn)
           table == Cleared(p.csn)
<1>1. Admit(p) /\ TypeOK
  BY DEF Replace, IInv
<1>2. /\ last' = csn[line]
      /\ packets' = [table EXCEPT ![AtPacket(p)] = p]
      /\ csn' = [csn EXCEPT ![line] = p.csn]
      /\ found' = [found EXCEPT ![line] = 1]
      /\ UNCHANGED pc
  BY DEF Replace
<1>3. p.csn \in Nat /\ line \in LineNumbers
  BY <1>1, AdmitFacts
<1>4. last' \in Nat
  BY <1>1, <1>2, <1>3 DEF TypeOK
<1>5. table \in [Places -> Valid \cup {Nil}]
  BY <1>1 DEF TypeOK, Cleared
<1>6. \A l \in LineNumbers, i \in Parts :
        table[Place(l, i)] # Nil =>
          table[Place(l, i)] = packets[Place(l, i)] /\ l # line
  BY <1>3, ClearedLine
<1> HIDE DEF table
<1> QED
  BY <1>1, <1>2, <1>4, <1>5, <1>6, NewChunkKeepsIInv

-----------------------------------------------------------------------------
(* Pushing a line. *)

LEMMA PushKeepsIInv ==
  ASSUME IInv, Push
  PROVE  IInv'
<1> DEFINE c == packet.csn
           line == AtChunk(c)
<1>1. TypeOK /\ pc = "push" /\ packet # Nil
  BY DEF Push, IInv, PushesOwnLine
<1>2. packet \in Valid /\ c \in Nat
  BY <1>1, PacketsAssumption DEF TypeOK, Valid
<1>3. line \in LineNumbers
  BY <1>2, AtChunkType
<1>4. found[line] # 0 /\ csn[line] = c
  BY <1>1 DEF IInv, PushesOwnLine
<1>5. /\ pushed' = Append(pushed, Copy(c)) /\ last' = c
      /\ packets' = Cleared(c)
      /\ found' = [found EXCEPT ![line] = 0]
      /\ csn' = [csn EXCEPT ![line] = 0]
      /\ pc' = "select"
      /\ UNCHANGED <<packet, assemblyQueue, restored, arrived>>
  BY DEF Push
<1>6. \A i \in Parts : Copy(c)[i] = packets[Place(line, i)]
  BY <1>2, CopiedLine
<1>7. Copy(c) \in [Parts -> Valid \cup {Nil}]
  <2>1. \A i \in Parts : packets[Place(line, i)] \in Valid \cup {Nil}
    BY <1>1, <1>3, PlaceType DEF TypeOK
  <2>2. Copy(c) = [i \in Parts |-> Copy(c)[i]]
    BY DEF Copy
  <2> QED
    BY <1>6, <2>1, <2>2
<1>8. TypeOK'
  <2>1. found' \in [LineNumbers -> 0 .. Data + 1]
    <3>1. found \in [LineNumbers -> 0 .. Data + 1]
      BY <1>1 DEF TypeOK
    <3>2. 0 \in 0 .. Data + 1
      BY Sizes
    <3> QED
      BY <1>5, <3>1, <3>2
  <2>2. packets' \in [Places -> Valid \cup {Nil}]
    BY <1>1, <1>5 DEF TypeOK, Cleared
  <2>3. csn' \in [LineNumbers -> Nat]
    BY <1>1, <1>5 DEF TypeOK
  <2>4. pushed' \in Seq([Parts -> Valid \cup {Nil}])
    BY <1>1, <1>5, <1>7 DEF TypeOK
  <2> QED
    BY <1>1, <1>2, <1>5, <2>1, <2>2, <2>3, <2>4 DEF TypeOK
<1>9. /\ \A l \in LineNumbers : found'[l] = IF l = line THEN 0 ELSE found[l]
      /\ \A l \in LineNumbers : csn'[l] = IF l = line THEN 0 ELSE csn[l]
  BY <1>1, <1>3, <1>5 DEF TypeOK
<1>10. LinesPure'
  <2> SUFFICES ASSUME NEW l \in LineNumbers, NEW i \in Parts,
                      packets'[Place(l, i)] # Nil
               PROVE  /\ found'[l] # 0
                      /\ packets'[Place(l, i)] = [csn |-> csn'[l], psn |-> i]
    BY DEF LinesPure, Place
  <2>1. l # line /\ packets'[Place(l, i)] = packets[Place(l, i)]
    BY <1>2, <1>5, ClearedLine
  <2>2. found[l] # 0 /\ packets[Place(l, i)] = [csn |-> csn[l], psn |-> i]
    BY <2>1 DEF IInv, LinesPure
  <2> QED
    BY <2>1, <2>2, <1>9
<1>11. LinesOwned'
  BY <1>9 DEF IInv, LinesOwned, AtChunk
<1>12. PushesOwnLine'
  BY <1>5 DEF PushesOwnLine
<1>13. OthersIncomplete'
  <2> SUFFICES ASSUME NEW l \in LineNumbers
               PROVE  found'[l] < Data \/ found'[l] = 1
    BY DEF OthersIncomplete
  <2>1. CASE l = line
    BY <2>1, <1>9, Sizes
  <2>2. CASE l # line
    BY <2>2, <1>1, <1>9 DEF IInv, OthersIncomplete
  <2> QED
    BY <2>1, <2>2
<1>14. PurelyOneChunk(Copy(c))
  <2>1. \A i \in Parts :
          Copy(c)[i] # Nil => Copy(c)[i] = [csn |-> c, psn |-> i]
    BY <1>3, <1>4, <1>6 DEF IInv, LinesPure
  <2>2. \A i \in Shards(Copy(c)) : Copy(c)[i].csn = c /\ Copy(c)[i].psn = i
    <3> SUFFICES ASSUME NEW i \in Parts, Copy(c)[i] # Nil
                 PROVE  Copy(c)[i].csn = c /\ Copy(c)[i].psn = i
      BY DEF Shards
    <3>1. Copy(c)[i] = [csn |-> c, psn |-> i]
      BY <2>1
    <3> QED
      BY <3>1
  <2> QED
    BY <2>2 DEF PurelyOneChunk
<1>15. PushedPure'
  <2> SUFFICES ASSUME NEW i \in 1 .. Len(pushed') PROVE PurelyOneChunk(pushed'[i])
    BY DEF PushedPure, PushedLines
  <2>1. Len(pushed) \in Nat /\ Len(pushed') = Len(pushed) + 1
    BY <1>1, <1>5 DEF TypeOK
  <2>2. CASE i \in 1 .. Len(pushed)
    <3>1. pushed'[i] = pushed[i]
      BY <2>2, <1>1, <1>5 DEF TypeOK
    <3> QED
      BY <2>2, <3>1 DEF IInv, PushedPure, PushedLines
  <2>3. CASE i = Len(pushed) + 1
    <3>1. pushed'[i] = Copy(c)
      BY <2>3, <1>1, <1>5 DEF TypeOK
    <3> QED
      BY <3>1, <1>14
  <2> QED
    BY <2>1, <2>2, <2>3
<1> QED
  BY <1>8, <1>10, <1>11, <1>12, <1>13, <1>15 DEF IInv

-----------------------------------------------------------------------------
LEMMA NextKeepsIInv ==
  ASSUME IInv, PartsInRange, [Next]_vars
  PROVE  IInv'
BY ArriveKeepsIInv, OthersKeepIInv, DropKeepsIInv, JoinKeepsIInv,
   OpenKeepsIInv, ReplaceKeepsIInv, PushKeepsIInv DEF Next, Assembly

(* The inductive invariant, whatever the network delivers. *)
THEOREM Invariance == PartsInRange /\ Spec => []IInv
<1> SUFFICES ASSUME PartsInRange PROVE Spec => []IInv
  OBVIOUS
<1>1. Init => IInv
  BY InitIInv
<1>2. IInv /\ [Next]_vars => IInv'
  BY NextKeepsIInv
<1> QED
  BY <1>1, <1>2, PTL DEF Spec

(* Only valid packets are stored and pushed (decoder.go:229-301).          *)
THEOREM TypeCorrect == PartsInRange /\ Spec => []TypeOK
<1>1. IInv => TypeOK
  BY DEF IInv
<1> QED
  BY <1>1, Invariance, PTL

(* Shards of two chunks are never mixed in one line, nor put in the wrong  *)
(* order (decoder.go:252-301), in whatever order packets come.             *)
THEOREM NeverMixesChunks == PartsInRange /\ Spec => []PushedPure
<1>1. IInv => PushedPure
  BY DEF IInv
<1> QED
  BY <1>1, Invariance, PTL

-----------------------------------------------------------------------------
(* What a push does to the lines pushed so far, and what it pushes. *)
LEMMA PushFacts ==
  ASSUME IInv, PartsInRange, Push
  PROVE  /\ packet \in Valid /\ packet.csn \in Nat \ {0}
         /\ AtChunk(packet.csn) \in LineNumbers
         /\ found[AtChunk(packet.csn)] # 0
         /\ csn[AtChunk(packet.csn)] = packet.csn
         /\ Copy(packet.csn) \in [Parts -> Valid \cup {Nil}]
         /\ \A i \in Parts :
              Copy(packet.csn)[i] = packets[Place(AtChunk(packet.csn), i)]
         /\ \A i \in Shards(Copy(packet.csn)) :
              Copy(packet.csn)[i] = [csn |-> packet.csn, psn |-> i]
         /\ Len(pushed) \in Nat /\ Len(pushed') = Len(pushed) + 1
         /\ \A i \in 1 .. Len(pushed) : pushed'[i] = pushed[i]
         /\ pushed'[Len(pushed) + 1] = Copy(packet.csn)
         /\ PushedLines' = PushedLines \cup {Copy(packet.csn)}
<1> DEFINE c == packet.csn
           line == AtChunk(c)
<1>1. TypeOK /\ pc = "push" /\ packet # Nil
  BY DEF Push, IInv, PushesOwnLine
<1>2. packet \in Valid
  BY <1>1 DEF TypeOK
<1>3. c \in Nat \ {0}
  BY <1>2, ValidPacket
<1>4. line \in LineNumbers
  BY <1>3, AtChunkType
<1>5. found[line] # 0 /\ csn[line] = c
  BY <1>1 DEF IInv, PushesOwnLine
<1>6. \A i \in Parts : Copy(c)[i] = packets[Place(line, i)]
  BY <1>3, CopiedLine
<1>7. Copy(c) \in [Parts -> Valid \cup {Nil}]
  <2>1. \A i \in Parts : packets[Place(line, i)] \in Valid \cup {Nil}
    BY <1>1, <1>4, PlaceType DEF TypeOK
  <2>2. Copy(c) = [i \in Parts |-> Copy(c)[i]]
    BY DEF Copy
  <2> QED
    BY <1>6, <2>1, <2>2
<1>8. \A i \in Shards(Copy(c)) : Copy(c)[i] = [csn |-> c, psn |-> i]
  BY <1>4, <1>5, <1>6 DEF IInv, LinesPure, Shards
<1>9. /\ Len(pushed) \in Nat /\ Len(pushed') = Len(pushed) + 1
      /\ \A i \in 1 .. Len(pushed) : pushed'[i] = pushed[i]
      /\ pushed'[Len(pushed) + 1] = Copy(c)
  <2>1. pushed \in Seq([Parts -> Valid \cup {Nil}])
    BY <1>1 DEF TypeOK
  <2>2. pushed' = Append(pushed, Copy(c))
    BY DEF Push
  <2> QED
    BY <2>1, <2>2, <1>7
<1>10. PushedLines' = PushedLines \cup {Copy(c)}
  <2>1. PushedLines' = {pushed'[i] : i \in 1 .. Len(pushed) + 1}
    BY <1>9 DEF PushedLines
  <2>2. 1 .. Len(pushed) + 1 = (1 .. Len(pushed)) \cup {Len(pushed) + 1}
    BY <1>9
  <2> QED
    BY <1>9, <2>1, <2>2 DEF PushedLines
<1> QED
  BY <1>2, <1>3, <1>4, <1>5, <1>6, <1>7, <1>8, <1>9, <1>10

LEMMA PushedChunks ==
  ASSUME IInv, PartsInRange, Push
  PROVE  /\ ChunksIn(Copy(packet.csn)) \subseteq {packet.csn}
         /\ PushedCsn' \subseteq PushedCsn \cup {packet.csn}
         /\ PushedCsn \subseteq PushedCsn'
<1>1. ChunksIn(Copy(packet.csn)) \subseteq {packet.csn}
  <2> DEFINE line == Copy(packet.csn)
  <2>1. \A i \in Shards(line) : line[i] = [csn |-> packet.csn, psn |-> i]
    BY PushFacts
  <2> HIDE DEF line
  <2>2. \A i \in Shards(line) : line[i].csn = packet.csn
    <3> SUFFICES ASSUME NEW i \in Shards(line)
                 PROVE  line[i].csn = packet.csn
      OBVIOUS
    <3>1. line[i] = [csn |-> packet.csn, psn |-> i]
      BY <2>1
    <3> QED
      BY <3>1
  <2> QED
    BY <2>2 DEF ChunksIn, line
<1>2. PushedCsn' = UNION {ChunksIn(l) : l \in PushedLines'}
  BY DEF PushedCsn, ChunksIn, Shards
<1>3. PushedLines' = PushedLines \cup {Copy(packet.csn)}
  BY PushFacts
<1> QED
  BY <1>1, <1>2, <1>3 DEF PushedCsn

-----------------------------------------------------------------------------
(* Everything in the assembler has arrived. *)

LEMMA ArrivedGrows ==
  ASSUME TypeOK, [Next]_vars
  PROVE  \A p \in Packets : arrived'[p] >= arrived[p]
<1> SUFFICES ASSUME NEW p \in Packets PROVE arrived'[p] >= arrived[p]
  OBVIOUS
<1>1. arrived[p] \in Nat
  BY DEF TypeOK
<1>2. CASE \E q \in Packets : Arrive(q)
  BY <1>1, <1>2 DEF Arrive, TypeOK
<1>3. CASE arrived' = arrived
  BY <1>1, <1>3
<1> QED
  BY <1>2, <1>3
     DEF Next, Assembly, Restore, Stop, Drop, Join, Open, Replace, Admit,
         Receive, Push, vars

LEMMA PushedGrows ==
  ASSUME TypeOK, [Next]_vars
  PROVE  pushed' = pushed \/ Push
BY DEF Next, Assembly, Arrive, Restore, Stop, Drop, Join, Open, Replace, Admit,
       Receive, vars

(* What a received packet is, wherever it goes. *)
LEMMA ReceiveFacts ==
  ASSUME TypeOK, NEW p \in Packets, Receive(p)
  PROVE  /\ Len(assemblyQueue) \in Nat /\ Len(assemblyQueue) >= 1
         /\ p = assemblyQueue[1]
         /\ Len(assemblyQueue') = Len(assemblyQueue) - 1
         /\ \A i \in 1 .. Len(assemblyQueue') :
              i + 1 \in 1 .. Len(assemblyQueue)
                /\ assemblyQueue'[i] = assemblyQueue[i + 1]
<1>1. assemblyQueue \in Seq(Packets) /\ assemblyQueue # << >>
  BY DEF TypeOK, Receive
<1>2. Len(assemblyQueue) \in Nat /\ Len(assemblyQueue) >= 1
  BY <1>1, EmptySeq
<1>3. p = Head(assemblyQueue) /\ assemblyQueue' = Tail(assemblyQueue)
  BY DEF Receive
<1> QED
  BY <1>1, <1>2, <1>3

LEMMA StoresKeepHeldArrived ==
  ASSUME IInv, HeldArrived, PartsInRange, NEW p \in Packets, Admit(p),
         NEW table \in [Places -> Valid \cup {Nil}],
         \A at \in Places : table[at] \in {Nil, packets[at]},
         packets' = [table EXCEPT ![AtPacket(p)] = p],
         csn' \in [LineNumbers -> Nat],
         \A l \in LineNumbers : found'[l] # 0 =>
           \/ csn'[l] = p.csn
           \/ found[l] # 0 /\ csn'[l] = csn[l]
  PROVE  HeldArrived'
<1>1. TypeOK /\ Receive(p)
  BY DEF IInv, Admit
<1>2. p \in Valid /\ UNCHANGED <<pushed, arrived>>
  BY AdmitFacts
<1>3. arrived[p] > 0
  BY <1>1, ReceiveFacts DEF HeldArrived
<1>4. \A i \in 1 .. Len(assemblyQueue') : arrived'[assemblyQueue'[i]] > 0
  BY <1>1, <1>2, ReceiveFacts DEF HeldArrived
<1>5. \A at \in Places : packets'[at] # Nil => arrived'[packets'[at]] > 0
  BY <1>2, <1>3 DEF HeldArrived
<1>6. \A line \in PushedLines' : \A i \in Shards(line) : arrived'[line[i]] > 0
  BY <1>2 DEF HeldArrived, PushedLines
<1>7. \A line \in LineNumbers : found'[line] # 0 =>
        \E q \in Valid : q.csn = csn'[line] /\ arrived'[q] > 0
  BY <1>2, <1>3 DEF HeldArrived
<1> QED
  BY <1>4, <1>5, <1>6, <1>7 DEF HeldArrived, Shards

(* Join, Open and Replace are such stores. *)
LEMMA StoreIs ==
  ASSUME IInv, PartsInRange, NEW p \in Packets, Join(p) \/ Open(p) \/ Replace(p)
  PROVE  /\ Admit(p) /\ p.csn > last
         /\ csn' \in [LineNumbers -> Nat] /\ found' \in [LineNumbers -> Nat]
         /\ \E table \in [Places -> Valid \cup {Nil}] :
              /\ \A at \in Places : table[at] \in {Nil, packets[at]}
              /\ packets' = [table EXCEPT ![AtPacket(p)] = p]
         /\ \A l \in LineNumbers : found'[l] # 0 =>
              \/ csn'[l] = p.csn
              \/ found[l] # 0 /\ csn'[l] = csn[l]
         /\ pc' = "push" => packet' = p
<1>1. TypeOK
  BY DEF IInv
<1>2. Admit(p)
  BY DEF Join, Open, Replace
<1>3. /\ p.csn \in Nat /\ AtChunk(p.csn) \in LineNumbers /\ packet' = p
      /\ p \in Valid
  BY <1>2, AdmitFacts
<1>4. p.csn > last
  BY <1>1, <1>2, <1>3 DEF Admit, Detached, TypeOK
<1>5. packets \in [Places -> Valid \cup {Nil}] /\ csn \in [LineNumbers -> Nat]
      /\ found \in [LineNumbers -> Nat]
  <2>1. found \in [LineNumbers -> 0 .. Data + 1]
    BY <1>1 DEF TypeOK
  <2>2. 0 .. Data + 1 \subseteq Nat
    OBVIOUS
  <2> QED
    BY <1>1, <2>1, <2>2 DEF TypeOK
<1>6. csn' \in [LineNumbers -> Nat] /\ found' \in [LineNumbers -> Nat]
  <2>1. CASE Join(p)
    BY <2>1, <1>3, <1>5 DEF Join
  <2>2. CASE Open(p)
    BY <2>2, <1>3, <1>5 DEF Open
  <2>3. CASE Replace(p)
    BY <2>3, <1>3, <1>5 DEF Replace
  <2> QED
    BY <2>1, <2>2, <2>3
<1>7. \E table \in [Places -> Valid \cup {Nil}] :
        /\ \A at \in Places : table[at] \in {Nil, packets[at]}
        /\ packets' = [table EXCEPT ![AtPacket(p)] = p]
  <2>1. CASE Join(p) \/ Open(p)
    BY <2>1, <1>5 DEF Join, Open
  <2>2. CASE Replace(p)
    <3>1. Cleared(p.csn) \in [Places -> Valid \cup {Nil}]
      BY <1>5 DEF Cleared
    <3>2. \A at \in Places : Cleared(p.csn)[at] \in {Nil, packets[at]}
      BY DEF Cleared
    <3>3. packets' = [Cleared(p.csn) EXCEPT ![AtPacket(p)] = p]
      BY <2>2 DEF Replace
    <3> QED
      BY <3>1, <3>2, <3>3
  <2> QED
    BY <2>1, <2>2
<1>8. \A l \in LineNumbers : found'[l] # 0 =>
        \/ csn'[l] = p.csn
        \/ found[l] # 0 /\ csn'[l] = csn[l]
  <2>1. CASE Join(p)
    BY <2>1, <1>3, <1>5 DEF Join
  <2>2. CASE Open(p)
    BY <2>2, <1>3, <1>5 DEF Open
  <2>3. CASE Replace(p)
    BY <2>3, <1>3, <1>5 DEF Replace
  <2> QED
    BY <2>1, <2>2, <2>3
<1> QED
  BY <1>2, <1>3, <1>4, <1>6, <1>7, <1>8

LEMMA PushKeepsHeldArrived ==
  ASSUME IInv, HeldArrived, PartsInRange, Push
  PROVE  HeldArrived'
<1> DEFINE c == packet.csn
           line == AtChunk(c)
<1>1. TypeOK /\ UNCHANGED <<assemblyQueue, arrived>>
  BY DEF IInv, Push
<1>2. \A i \in 1 .. Len(assemblyQueue') : arrived'[assemblyQueue'[i]] > 0
  BY <1>1 DEF HeldArrived
<1>3. \A at \in Places : packets'[at] # Nil => arrived'[packets'[at]] > 0
  BY <1>1 DEF HeldArrived, Push, Cleared
<1>4. \A i \in Shards(Copy(c)) : arrived'[Copy(c)[i]] > 0
  <2> SUFFICES ASSUME NEW i \in Parts, Copy(c)[i] # Nil
               PROVE  arrived'[Copy(c)[i]] > 0
    BY DEF Shards
  <2>1. Copy(c)[i] = packets[Place(line, i)] /\ Place(line, i) \in Places
    BY PushFacts, PlaceType
  <2> QED
    BY <1>1, <2>1 DEF HeldArrived
<1>5. \A l \in PushedLines' : \A i \in Shards(l) : arrived'[l[i]] > 0
  <2>1. PushedLines' = PushedLines \cup {Copy(c)}
    BY PushFacts
  <2> QED
    BY <1>1, <1>4, <2>1 DEF HeldArrived
<1>6. \A l \in LineNumbers : found'[l] # 0 =>
        \E p \in Valid : p.csn = csn'[l] /\ arrived'[p] > 0
  <2> SUFFICES ASSUME NEW l \in LineNumbers, found'[l] # 0
               PROVE  \E p \in Valid : p.csn = csn'[l] /\ arrived'[p] > 0
    OBVIOUS
  <2>1. /\ found' = [found EXCEPT ![line] = 0]
        /\ csn' = [csn EXCEPT ![line] = 0]
    BY DEF Push
  <2>2. found[l] # 0 /\ csn'[l] = csn[l]
    BY <1>1, <2>1 DEF TypeOK
  <2> QED
    BY <1>1, <2>2 DEF HeldArrived
<1> QED
  BY <1>2, <1>3, <1>5, <1>6 DEF HeldArrived, Shards

LEMMA NextKeepsHeldArrived ==
  ASSUME IInv, HeldArrived, PartsInRange, [Next]_vars
  PROVE  HeldArrived'
<1>1. TypeOK /\ TypeOK'
  BY NextKeepsIInv DEF IInv
<1>2. \A p \in Packets : arrived[p] \in Nat /\ arrived'[p] \in Nat
                         /\ arrived'[p] >= arrived[p]
  BY <1>1, ArrivedGrows DEF TypeOK
<1>3. Valid \subseteq Packets
  BY DEF Valid
<1>4. ASSUME UNCHANGED <<csn, found, packets, pushed>>,
             \A i \in 1 .. Len(assemblyQueue') : arrived'[assemblyQueue'[i]] > 0
      PROVE  HeldArrived'
  <2>1. \A at \in Places : packets[at] # Nil => packets[at] \in Packets
    BY <1>1, <1>3 DEF TypeOK
  <2>2. \A at \in Places : packets'[at] # Nil => arrived'[packets'[at]] > 0
    BY <1>2, <1>4, <2>1 DEF HeldArrived
  <2>3. \A l \in PushedLines : \A i \in Shards(l) : l[i] \in Packets
    <3> SUFFICES ASSUME NEW n \in 1 .. Len(pushed), NEW i \in Parts,
                        pushed[n][i] # Nil
                 PROVE  pushed[n][i] \in Packets
      BY DEF PushedLines, Shards
    <3>1. pushed \in Seq([Parts -> Valid \cup {Nil}])
      BY <1>1 DEF TypeOK
    <3>2. pushed[n] \in [Parts -> Valid \cup {Nil}]
      BY <3>1
    <3> QED
      BY <3>2, <1>3
  <2>4. \A l \in PushedLines' : \A i \in Shards(l) : arrived'[l[i]] > 0
    BY <1>2, <1>4, <2>3 DEF HeldArrived, PushedLines
  <2>5. \A l \in LineNumbers : found'[l] # 0 =>
          \E p \in Valid : p.csn = csn'[l] /\ arrived'[p] > 0
    <3> SUFFICES ASSUME NEW l \in LineNumbers, found[l] # 0
                 PROVE  \E p \in Valid : p.csn = csn[l] /\ arrived'[p] > 0
      BY <1>4
    <3>1. PICK p \in Valid : p.csn = csn[l] /\ arrived[p] > 0
      BY DEF HeldArrived
    <3> QED
      BY <1>2, <1>3, <3>1
  <2> QED
    BY <1>4, <2>2, <2>4, <2>5 DEF HeldArrived, Shards
<1>5. ASSUME NEW p \in Packets, Arrive(p)
      PROVE  HeldArrived'
  <2>1. UNCHANGED <<csn, found, packets, pushed>>
    BY <1>5 DEF Arrive, state
  <2>2. /\ assemblyQueue \in Seq(Packets)
        /\ assemblyQueue' = Append(assemblyQueue, p)
        /\ arrived' = [arrived EXCEPT ![p] = arrived[p] + 1]
    BY <1>1, <1>5 DEF TypeOK, Arrive
  <2>3. arrived'[p] > 0
    BY <1>1, <1>2, <2>2 DEF TypeOK
  <2>4. \A i \in 1 .. Len(assemblyQueue') : arrived'[assemblyQueue'[i]] > 0
    <3> SUFFICES ASSUME NEW i \in 1 .. Len(assemblyQueue')
                 PROVE  arrived'[assemblyQueue'[i]] > 0
      OBVIOUS
    <3>1. CASE i \in 1 .. Len(assemblyQueue)
      <4>1. assemblyQueue'[i] = assemblyQueue[i] /\ assemblyQueue[i] \in Packets
        BY <2>2, <3>1
      <4>2. arrived[assemblyQueue[i]] > 0
        BY <3>1 DEF HeldArrived
      <4> QED
        BY <1>2, <4>1, <4>2
    <3>2. CASE i = Len(assemblyQueue) + 1
      BY <2>2, <2>3, <3>2
    <3>3. Len(assemblyQueue') = Len(assemblyQueue) + 1
          /\ Len(assemblyQueue) \in Nat
      BY <2>2
    <3> QED
      BY <3>1, <3>2, <3>3
  <2> QED
    BY <1>4, <2>1, <2>4
<1>6. ASSUME NEW p \in Packets, Drop(p)
      PROVE  HeldArrived'
  <2>1. UNCHANGED <<csn, found, packets, pushed, arrived>> /\ Receive(p)
    BY <1>6 DEF Drop, Receive, state
  <2>2. \A i \in 1 .. Len(assemblyQueue') : arrived'[assemblyQueue'[i]] > 0
    BY <1>1, <2>1, ReceiveFacts DEF HeldArrived
  <2> QED
    BY <1>4, <2>1, <2>2
<1>7. ASSUME NEW p \in Packets, Join(p) \/ Open(p) \/ Replace(p)
      PROVE  HeldArrived'
  BY <1>7, StoreIs, StoresKeepHeldArrived
<1>8. CASE Restore \/ Stop \/ UNCHANGED vars
  <2>1. UNCHANGED <<csn, found, packets, pushed, assemblyQueue, arrived>>
    BY <1>8 DEF Restore, Stop, vars, state
  <2>2. \A i \in 1 .. Len(assemblyQueue') : arrived'[assemblyQueue'[i]] > 0
    BY <2>1 DEF HeldArrived
  <2> QED
    BY <1>4, <2>1, <2>2
<1> QED
  BY <1>5, <1>6, <1>7, <1>8, PushKeepsHeldArrived DEF Next, Assembly

-----------------------------------------------------------------------------
(* The order of pushes.  What is unfinished stays so until it is pushed;   *)
(* a push goes to a chunk ahead of the cursor, and where the cursor is     *)
(* behind an earlier push something at or below it is unfinished.          *)

LEMMA UnfinishedStays ==
  ASSUME IInv, PartsInRange, [Next]_vars, NEW g, Unfinished(g),
         pushed' = pushed \/ (Push /\ g # packet.csn)
  PROVE  Unfinished(g)'
<1>1. TypeOK /\ TypeOK'
  BY NextKeepsIInv DEF IInv
<1>2. PICK p \in Valid : p.csn = g /\ arrived[p] > 0
  BY DEF Unfinished
<1>3. p \in Packets
  BY DEF Valid
<1>4. arrived'[p] > 0
  BY <1>1, <1>2, <1>3, ArrivedGrows DEF TypeOK
<1>5. g \notin PushedCsn'
  <2>1. CASE pushed' = pushed
    BY <2>1 DEF Unfinished, PushedCsn, PushedLines
  <2>2. CASE Push /\ g # packet.csn
    BY <2>2, PushedChunks DEF Unfinished
  <2> QED
    BY <2>1, <2>2
<1> QED
  BY <1>2, <1>4, <1>5 DEF Unfinished

(* Where nothing is pushed and neither the cursor nor a line moves. *)
LEMMA QuietKeepsOrder ==
  ASSUME OrderInv, PartsInRange, [Next]_vars,
         UNCHANGED <<last, csn, found, packet, pushed>>,
         pc' = pc \/ pc' = "stopped"
  PROVE  OrderInv'
<1>1. IInv /\ IInv' /\ HeldArrived'
  BY NextKeepsIInv, NextKeepsHeldArrived DEF OrderInv
<1>2. \A g : Unfinished(g) => Unfinished(g)'
  BY <1>1, UnfinishedStays
<1>3. PushedCsn' = PushedCsn
  BY DEF PushedCsn, PushedLines
<1>4. CursorBehind'
  BY <1>2, <1>3 DEF OrderInv, CursorBehind
<1>5. LinesBehind'
  BY <1>2, <1>3 DEF OrderInv, LinesBehind
<1>6. PushesAheadOfCursor'
  BY DEF OrderInv, PushesAheadOfCursor
<1>7. AscendingPushes'
  BY <1>2 DEF OrderInv, AscendingPushes
<1> QED
  BY <1>1, <1>4, <1>5, <1>6, <1>7 DEF OrderInv

(* A packet is stored: the cursor stays, or it goes back to the chunk that *)
(* its line had.                                                           *)
LEMMA StoreKeepsOrder ==
  ASSUME OrderInv, PartsInRange, NEW p \in Packets,
         Join(p) \/ Open(p) \/ Replace(p), [Next]_vars
  PROVE  OrderInv'
<1>1. IInv /\ IInv' /\ HeldArrived /\ HeldArrived'
  BY NextKeepsIInv, NextKeepsHeldArrived DEF OrderInv
<1>2. /\ Admit(p) /\ p.csn > last
      /\ csn' \in [LineNumbers -> Nat] /\ found' \in [LineNumbers -> Nat]
      /\ \A l \in LineNumbers : found'[l] # 0 =>
           \/ csn'[l] = p.csn
           \/ found[l] # 0 /\ csn'[l] = csn[l]
      /\ pc' = "push" => packet' = p
  BY <1>1, StoreIs
<1>3. p.csn \in Nat /\ AtChunk(p.csn) \in LineNumbers /\ pushed' = pushed
  BY <1>1, <1>2, AdmitFacts
<1>4. last \in Nat /\ csn \in [LineNumbers -> Nat]
  BY <1>1 DEF IInv, TypeOK
<1>5. \A g : Unfinished(g) => Unfinished(g)'
  BY <1>1, <1>3, UnfinishedStays
<1>6. PushedCsn' = PushedCsn
  BY <1>3 DEF PushedCsn, PushedLines
<1>7. CursorBehind' /\ PushesAheadOfCursor'
  <2>1. CASE Join(p) \/ Open(p)
    <3>1. last' = last
      BY <2>1 DEF Join, Open
    <3> QED
      BY <1>2, <1>5, <1>6, <3>1
         DEF OrderInv, CursorBehind, PushesAheadOfCursor
  <2>2. CASE Replace(p)
    <3> DEFINE line == AtChunk(p.csn)
               e == csn[line]
    <3>1. found[line] # 0 /\ last' = e /\ pc' = "select"
      BY <1>2, <2>2 DEF Replace, Admit, Receive
    <3>2. PICK q \in Valid : q.csn = e /\ arrived[q] > 0
      BY <1>1, <1>3, <3>1 DEF HeldArrived
    <3>3. e \in Nat \ {0}
      BY <3>2, ValidPacket
    <3>4. CASE e \in PushedCsn
      <4>1. PICK g \in 1 .. e : Unfinished(g)
        BY <1>3, <3>1, <3>4 DEF OrderInv, LinesBehind
      <4> QED
        BY <1>5, <3>1, <4>1 DEF CursorBehind, PushesAheadOfCursor
    <3>5. CASE e \notin PushedCsn
      <4>1. Unfinished(e) /\ e \in 1 .. e
        BY <3>2, <3>3, <3>5 DEF Unfinished
      <4> QED
        BY <1>5, <3>1, <4>1 DEF CursorBehind, PushesAheadOfCursor
    <3> QED
      BY <3>4, <3>5
  <2> QED
    BY <2>1, <2>2
<1>8. LinesBehind'
  <2> SUFFICES ASSUME NEW l \in LineNumbers, found'[l] # 0,
                      csn'[l] \in PushedCsn
               PROVE  \E g \in 1 .. csn'[l] : Unfinished(g)'
    BY <1>6 DEF LinesBehind
  <2>1. CASE csn'[l] = p.csn
    <3>1. PICK g \in 1 .. last : Unfinished(g)
      BY <1>2, <2>1 DEF OrderInv, CursorBehind
    <3>2. g \in 1 .. csn'[l]
      BY <1>2, <1>3, <1>4, <2>1
    <3> QED
      BY <1>5, <3>1, <3>2
  <2>2. CASE found[l] # 0 /\ csn'[l] = csn[l]
    BY <1>5, <2>2 DEF OrderInv, LinesBehind
  <2> QED
    BY <1>2, <2>1, <2>2
<1>9. AscendingPushes'
  BY <1>3, <1>5 DEF OrderInv, AscendingPushes
<1> QED
  BY <1>1, <1>7, <1>8, <1>9 DEF OrderInv

LEMMA PushKeepsOrder ==
  ASSUME OrderInv, PartsInRange, Push
  PROVE  OrderInv'
<1> DEFINE c == packet.csn
           line == AtChunk(c)
<1>1. [Next]_vars
  BY DEF Next, Assembly
<1>2. IInv /\ IInv' /\ HeldArrived'
  BY <1>1, NextKeepsIInv, NextKeepsHeldArrived DEF OrderInv
<1>3. c \in Nat \ {0} /\ line \in LineNumbers /\ csn[line] = c
  BY <1>2, PushFacts
<1>4. /\ last' = c /\ pc' = "select"
      /\ found' = [found EXCEPT ![line] = 0]
      /\ csn' = [csn EXCEPT ![line] = 0]
  BY DEF Push
<1>5. last \in Nat /\ csn \in [LineNumbers -> Nat]
      /\ found \in [LineNumbers -> 0 .. Data + 1]
  BY <1>2 DEF IInv, TypeOK
<1>6. c > last
  BY DEF Push, OrderInv, PushesAheadOfCursor
<1>7. PushedCsn' \subseteq PushedCsn \cup {c}
  BY <1>2, PushedChunks
<1>8. \A g : Unfinished(g) /\ g # c => Unfinished(g)'
  BY <1>1, <1>2, UnfinishedStays
<1>9. \A d \in PushedCsn : d > last =>
        \E g \in 1 .. c - 1 : Unfinished(g)'
  <2> SUFFICES ASSUME NEW d \in PushedCsn, d > last
               PROVE  \E g \in 1 .. c - 1 : Unfinished(g)'
    OBVIOUS
  <2>1. PICK g \in 1 .. last : Unfinished(g)
    BY DEF OrderInv, CursorBehind
  <2>2. g \in 1 .. c - 1 /\ g # c
    BY <1>3, <1>5, <1>6
  <2> QED
    BY <1>8, <2>1, <2>2
<1>10. PushedCsn \subseteq Nat
  <2> SUFFICES ASSUME NEW n \in 1 .. Len(pushed), NEW i \in Shards(pushed[n])
               PROVE  pushed[n][i].csn \in Nat
    BY DEF PushedCsn, PushedLines, ChunksIn
  <2>1. pushed[n] \in [Parts -> Valid \cup {Nil}] /\ i \in Parts
    BY <1>2 DEF IInv, TypeOK, Shards
  <2>2. pushed[n][i] \in Valid
    BY <2>1 DEF Shards
  <2> QED
    BY <2>2, ValidPacket
<1>11. CursorBehind'
  <2> SUFFICES ASSUME NEW d \in PushedCsn', d > c
               PROVE  \E g \in 1 .. c : Unfinished(g)'
    BY <1>4 DEF CursorBehind
  <2>1. d \in PushedCsn /\ d > last
    BY <1>3, <1>5, <1>6, <1>7, <1>10
  <2>2. PICK g \in 1 .. c - 1 : Unfinished(g)'
    BY <1>9, <2>1
  <2> QED
    BY <1>3, <2>2
<1>12. LinesBehind'
  <2> SUFFICES ASSUME NEW l \in LineNumbers, found'[l] # 0,
                      csn'[l] \in PushedCsn'
               PROVE  \E g \in 1 .. csn'[l] : Unfinished(g)'
    BY DEF LinesBehind
  <2>1. l # line /\ found[l] # 0 /\ csn'[l] = csn[l]
    BY <1>3, <1>4, <1>5
  <2>2. AtChunk(csn[l]) = l
    BY <1>2, <2>1 DEF IInv, LinesOwned
  <2>3. csn[l] # c /\ csn[l] \in PushedCsn
    BY <1>7, <2>1, <2>2
  <2>4. PICK g \in 1 .. csn[l] : Unfinished(g)
    BY <2>1, <2>3 DEF OrderInv, LinesBehind
  <2>5. CASE g # c
    BY <1>8, <2>1, <2>4, <2>5
  <2>6. CASE g = c
    <3>1. csn[l] > last /\ csn[l] >= c
      BY <1>3, <1>5, <1>6, <2>4, <2>6
    <3>2. PICK h \in 1 .. c - 1 : Unfinished(h)'
      BY <1>9, <2>3, <3>1
    <3>3. h \in 1 .. csn'[l]
      BY <1>3, <1>5, <2>1, <3>1, <3>2
    <3> QED
      BY <3>2, <3>3
  <2> QED
    BY <2>5, <2>6
<1>13. AscendingPushes'
  <2> SUFFICES ASSUME NEW i \in 1 .. Len(pushed'), NEW j \in 1 .. Len(pushed'),
                      i < j,
                      NEW d \in ChunksIn(pushed'[i]),
                      NEW b \in ChunksIn(pushed'[j]), ~ d < b
               PROVE  \E g \in 1 .. b - 1 : Unfinished(g)'
    BY DEF AscendingPushes, ChunksIn, Shards
  <2>1. /\ Len(pushed) \in Nat /\ Len(pushed') = Len(pushed) + 1
        /\ \A n \in 1 .. Len(pushed) : pushed'[n] = pushed[n]
        /\ pushed'[Len(pushed) + 1] = Copy(c)
    BY <1>2, PushFacts
  <2>2. i \in 1 .. Len(pushed) /\ d \in ChunksIn(pushed[i])
    BY <2>1
  <2>3. d \in PushedCsn
    BY <2>2 DEF PushedCsn, PushedLines
  <2>4. d \in Nat
    BY <2>3, <1>10
  <2>5. CASE j = Len(pushed) + 1
    <3>1. b = c
      BY <1>2, <2>1, <2>5, PushedChunks
    <3>2. d > last
      BY <1>3, <1>5, <1>6, <2>4, <3>1
    <3> QED
      BY <1>9, <2>3, <3>1, <3>2
  <2>6. CASE j \in 1 .. Len(pushed)
    <3>1. b \in ChunksIn(pushed[j]) /\ b \in PushedCsn
      BY <2>1, <2>6 DEF PushedCsn, PushedLines
    <3>2. b \in Nat
      BY <3>1, <1>10
    <3>3. PICK g \in 1 .. b - 1 : Unfinished(g)
      BY <2>2, <2>6, <3>1 DEF OrderInv, AscendingPushes
    <3>4. CASE g # c
      BY <1>8, <3>3, <3>4
    <3>5. CASE g = c
      <4>1. b > last /\ b > c
        BY <1>3, <1>5, <1>6, <3>2, <3>3, <3>5
      <4>2. PICK h \in 1 .. c - 1 : Unfinished(h)'
        BY <1>9, <3>1, <4>1
      <4>3. h \in 1 .. b - 1
        BY <1>3, <3>2, <4>1, <4>2
      <4> QED
        BY <4>2, <4>3
    <3> QED
      BY <3>4, <3>5
  <2> QED
    BY <2>1, <2>5, <2>6
<1>14. PushesAheadOfCursor'
  BY <1>4 DEF PushesAheadOfCursor
<1> QED
  BY <1>2, <1>11, <1>12, <1>13, <1>14 DEF OrderInv

(* Lines are pushed in ascending order (decoder.go:248, 275), but for what *)
(* is pushed behind a chunk that was given up (decoder.go:294): whatever   *)
(* packets come, in whatever order and however often.                      *)
THEOREM PushesAscend == PartsInRange /\ Spec => []AscendingPushes
<1> SUFFICES ASSUME PartsInRange PROVE Spec => []AscendingPushes
  OBVIOUS
<1>1. Init => OrderInv
  <2> SUFFICES ASSUME Init PROVE OrderInv
    OBVIOUS
  <2>1. HeldArrived
    BY DEF Init, HeldArrived, PushedLines
  <2>2. CursorBehind /\ LinesBehind /\ PushesAheadOfCursor /\ AscendingPushes
    BY DEF Init, CursorBehind, LinesBehind, PushesAheadOfCursor,
           AscendingPushes, PushedCsn, PushedLines
  <2> QED
    BY <2>1, <2>2, InitIInv DEF OrderInv
<1>2. OrderInv /\ [Next]_vars => OrderInv'
  <2> SUFFICES ASSUME OrderInv, [Next]_vars PROVE OrderInv'
    OBVIOUS
  <2>1. ASSUME NEW p \in Packets, Join(p) \/ Open(p) \/ Replace(p)
        PROVE  OrderInv'
    BY <2>1, StoreKeepsOrder
  <2>2. ASSUME NEW p \in Packets, Arrive(p) \/ Drop(p)
        PROVE  OrderInv'
    BY <2>2, QuietKeepsOrder DEF Arrive, Drop, Receive, state
  <2>3. CASE Restore \/ Stop \/ UNCHANGED vars
    BY <2>3, QuietKeepsOrder DEF Restore, Stop, state, vars
  <2> QED
    BY <2>1, <2>2, <2>3, PushKeepsOrder DEF Next, Assembly
<1>3. OrderInv => AscendingPushes
  BY DEF OrderInv
<1> QED
  BY <1>1, <1>2, <1>3, PTL DEF Spec

-----------------------------------------------------------------------------
(* Counting.  As long as no packet has come twice, each is in one place    *)
(* only: the packet that is stored next finds its place empty, so found    *)
(* counts different packets.                                               *)

(* Every place of the table is a part of a line. *)
LEMMA EveryPlace ==
  ASSUME NEW at \in Places
  PROVE  \E line \in LineNumbers, i \in Parts : at = Place(line, i)
<1> DEFINE line == at \div Total
           i == at % Total
<1>1. at \in Nat /\ at < Lines * Total
  BY Sizes DEF Places, TableSize
<1>2. at = Total * line + i /\ line \in Nat /\ i \in 0 .. Total - 1
  BY <1>1, Sizes, DivMod
<1> HIDE DEF line, i
<1>3. line < Lines
  <2> SUFFICES ASSUME line >= Lines PROVE FALSE
    BY <1>2, Sizes
  <2>1. Total * (line - Lines) >= 0
    BY <1>2, Sizes
  <2>2. Total * (line - Lines) = Total * line - Total * Lines
    BY <1>2, Sizes
  <2>3. Total * line \in Nat /\ Total * Lines \in Nat
        /\ Total * Lines = Lines * Total
    BY <1>2, Sizes
  <2> QED
    BY <1>1, <1>2, <2>1, <2>2, <2>3
<1>4. line \in LineNumbers /\ i \in Parts
  BY <1>2, <1>3, Sizes DEF LineNumbers, Parts
<1>5. Total * line = line * Total
  BY <1>2, Sizes
<1> QED
  BY <1>2, <1>4, <1>5 DEF Place

LEMMA PartsAreFinite ==
  /\ IsFiniteSet(Parts) /\ Cardinality(Parts) = Total
  /\ \A S \in SUBSET Parts : IsFiniteSet(S) /\ Cardinality(S) \in Nat
<1>1. IsFiniteSet(Parts) /\ Cardinality(Parts) = Total
  BY Sizes, FS_Interval DEF Parts
<1>2. \A S \in SUBSET Parts : IsFiniteSet(S)
  BY <1>1, FS_Subset
<1> QED
  BY <1>1, <1>2, FS_CardinalityType

(* A packet of the table lies at its part of the line that collects its    *)
(* chunk.                                                                  *)
LEMMA StoredIs ==
  ASSUME IInv, NEW p \in Stored
  PROVE  \E line \in LineNumbers, i \in Parts :
           /\ p = packets[Place(line, i)] /\ p # Nil
           /\ found[line] # 0 /\ p = [csn |-> csn[line], psn |-> i]
<1>1. PICK at \in Places : p = packets[at] /\ p # Nil
  BY DEF Stored
<1>2. PICK line \in LineNumbers, i \in Parts : at = Place(line, i)
  BY EveryPlace
<1>3. found[line] # 0 /\ p = [csn |-> csn[line], psn |-> i]
  BY <1>1, <1>2 DEF IInv, LinesPure
<1> QED
  BY <1>1, <1>2, <1>3

(* The head of the queue is neither in the table nor pushed. *)
LEMMA FreshStore ==
  ASSUME IInv, InOnePlace, PartsInRange, NEW p \in Packets,
         Join(p) \/ Open(p) \/ Replace(p)
  PROVE  /\ p \notin Stored \cup InPushed
         /\ Stored' \subseteq Stored \cup {p}
         /\ InOnePlace'
<1>1. Admit(p) /\ TypeOK
  BY StoreIs DEF IInv
<1>2. Receive(p) /\ pushed' = pushed /\ p \in Valid
  BY <1>1, AdmitFacts DEF Admit
<1>3. /\ Len(assemblyQueue) \in Nat /\ Len(assemblyQueue) >= 1
      /\ p = assemblyQueue[1]
      /\ Len(assemblyQueue') = Len(assemblyQueue) - 1
      /\ \A i \in 1 .. Len(assemblyQueue') :
           i + 1 \in 1 .. Len(assemblyQueue)
             /\ assemblyQueue'[i] = assemblyQueue[i + 1]
  BY <1>1, <1>2, ReceiveFacts
<1>4. 1 \in 1 .. Len(assemblyQueue)
  BY <1>3
<1>5. p \notin Stored \cup InPushed
  BY <1>3, <1>4 DEF InOnePlace
<1>6. Stored' \subseteq Stored \cup {p}
  <2>1. PICK table \in [Places -> Valid \cup {Nil}] :
          /\ \A at \in Places : table[at] \in {Nil, packets[at]}
          /\ packets' = [table EXCEPT ![AtPacket(p)] = p]
    BY StoreIs
  <2>2. \A at \in Places : packets'[at] \in {p, Nil, packets[at]}
    BY <2>1
  <2> QED
    BY <2>2 DEF Stored
<1>7. InPushed' = InPushed
  BY <1>2 DEF InPushed, PushedLines
<1>8. InOnePlace'
  <2>1. \A i, j \in 1 .. Len(assemblyQueue') :
          assemblyQueue'[i] = assemblyQueue'[j] => i = j
    BY <1>3 DEF InOnePlace
  <2>2. \A i \in 1 .. Len(assemblyQueue') :
          assemblyQueue'[i] \notin Stored' \cup InPushed'
    <3> SUFFICES ASSUME NEW i \in 1 .. Len(assemblyQueue')
                 PROVE  assemblyQueue'[i] \notin Stored' \cup InPushed'
      OBVIOUS
    <3>1. i + 1 \in 1 .. Len(assemblyQueue) /\ i + 1 # 1
          /\ assemblyQueue'[i] = assemblyQueue[i + 1]
      BY <1>3
    <3>2. assemblyQueue[i + 1] # p
      BY <1>3, <1>4, <3>1 DEF InOnePlace
    <3> QED
      BY <1>6, <1>7, <3>1, <3>2 DEF InOnePlace
  <2>3. Stored' \cap InPushed' = {}
    BY <1>5, <1>6, <1>7 DEF InOnePlace
  <2>4. \A i, j \in 1 .. Len(pushed') :
          PacketsIn(pushed'[i]) \cap PacketsIn(pushed'[j]) # {} => i = j
    BY <1>2 DEF InOnePlace
  <2> QED
    BY <2>1, <2>2, <2>3, <2>4 DEF InOnePlace, PacketsIn, Shards
<1> QED
  BY <1>5, <1>6, <1>8

(* The line that is pushed leaves the table. *)
LEMMA PushKeepsInOnePlace ==
  ASSUME IInv, InOnePlace, PartsInRange, Push
  PROVE  InOnePlace'
<1> DEFINE c == packet.csn
           line == AtChunk(c)
           new == PacketsIn(Copy(c))
<1>1. /\ c \in Nat \ {0} /\ line \in LineNumbers
      /\ \A i \in Parts : Copy(c)[i] = packets[Place(line, i)]
      /\ \A i \in Shards(Copy(c)) : Copy(c)[i] = [csn |-> c, psn |-> i]
      /\ Len(pushed) \in Nat /\ Len(pushed') = Len(pushed) + 1
      /\ \A i \in 1 .. Len(pushed) : pushed'[i] = pushed[i]
      /\ pushed'[Len(pushed) + 1] = Copy(c)
      /\ PushedLines' = PushedLines \cup {Copy(c)}
  BY PushFacts
<1>2. assemblyQueue' = assemblyQueue /\ packets' = Cleared(c)
  BY DEF Push
<1>3. new \subseteq Stored
  <2> SUFFICES ASSUME NEW i \in Parts, Copy(c)[i] # Nil
               PROVE  Copy(c)[i] \in Stored
    BY DEF PacketsIn, Shards
  <2>1. Copy(c)[i] = packets[Place(line, i)] /\ Place(line, i) \in Places
    BY <1>1, PlaceType
  <2> QED
    BY <2>1 DEF Stored
<1>4. Stored' \subseteq Stored
  BY <1>2 DEF Stored, Cleared
<1>5. Stored' \cap new = {}
  <2> SUFFICES ASSUME NEW at \in Places, packets'[at] # Nil,
                      packets'[at] \in new
               PROVE  FALSE
    BY DEF Stored
  <2>1. PICK l \in LineNumbers, i \in Parts : at = Place(l, i)
    BY EveryPlace
  <2>2. l # line /\ packets'[at] = packets[at]
    BY <1>1, <1>2, <2>1, ClearedLine
  <2>3. found[l] # 0 /\ packets[at] = [csn |-> csn[l], psn |-> i]
    BY <2>1, <2>2 DEF IInv, LinesPure
  <2>4. csn[l] # c
    BY <2>2, <2>3 DEF IInv, LinesOwned
  <2>5. PICK j \in Shards(Copy(c)) : packets[at] = Copy(c)[j]
    BY <2>2 DEF PacketsIn
  <2>6. packets[at] = [csn |-> c, psn |-> j]
    BY <1>1, <2>5
  <2> QED
    BY <2>3, <2>4, <2>6
<1>6. InPushed' = InPushed \cup new
  <2>1. InPushed' = UNION {PacketsIn(l) : l \in PushedLines'}
    BY DEF InPushed, PacketsIn, Shards
  <2> QED
    BY <1>1, <2>1 DEF InPushed
<1>7. \A i \in 1 .. Len(pushed) : PacketsIn(pushed[i]) \subseteq InPushed
  BY DEF InPushed, PushedLines
<1>8. \A i, j \in 1 .. Len(pushed') :
        PacketsIn(pushed'[i]) \cap PacketsIn(pushed'[j]) # {} => i = j
  <2> SUFFICES ASSUME NEW i \in 1 .. Len(pushed'), NEW j \in 1 .. Len(pushed'),
                      PacketsIn(pushed'[i]) \cap PacketsIn(pushed'[j]) # {}
               PROVE  i = j
    OBVIOUS
  <2>1. new \cap InPushed = {}
    BY <1>3 DEF InOnePlace
  <2>2. \A n \in 1 .. Len(pushed') :
          \/ n \in 1 .. Len(pushed) /\ pushed'[n] = pushed[n]
          \/ n = Len(pushed) + 1 /\ PacketsIn(pushed'[n]) = new
    BY <1>1
  <2> HIDE DEF new
  <2>3. CASE i \in 1 .. Len(pushed) /\ j \in 1 .. Len(pushed)
    BY <1>1, <2>3 DEF InOnePlace
  <2>4. CASE ~ (i \in 1 .. Len(pushed) /\ j \in 1 .. Len(pushed))
    BY <1>7, <2>1, <2>2, <2>4
  <2> QED
    BY <2>3, <2>4
<1>9. \A i, j \in 1 .. Len(assemblyQueue') :
        assemblyQueue'[i] = assemblyQueue'[j] => i = j
  BY <1>2 DEF InOnePlace
<1>10. \A i \in 1 .. Len(assemblyQueue') :
         assemblyQueue'[i] \notin Stored' \cup InPushed'
  BY <1>2, <1>3, <1>4, <1>6 DEF InOnePlace
<1>11. Stored' \cap InPushed' = {}
  BY <1>4, <1>5, <1>6 DEF InOnePlace
<1> QED
  BY <1>8, <1>9, <1>10, <1>11 DEF InOnePlace, PacketsIn, Shards

(* A line that holds nothing, or nothing any more, and one that takes a    *)
(* packet at an empty place.                                               *)
LEMMA StoreKeepsCounts ==
  ASSUME IInv, CountsRight, InOnePlace, PartsInRange, NEW p \in Packets,
         Join(p) \/ Open(p) \/ Replace(p)
  PROVE  CountsRight' /\ PushesEnough'
<1> DEFINE line == AtChunk(p.csn)
<1>1. /\ TypeOK /\ Admit(p) /\ p \notin Stored
  BY StoreIs, FreshStore DEF IInv
<1>2. /\ p \in Valid /\ p.csn \in Nat \ {0} /\ p.psn \in Parts /\ p # Nil
      /\ p = [csn |-> p.csn, psn |-> p.psn]
      /\ line \in LineNumbers /\ pc = "select" /\ packet' = p
  BY <1>1, AdmitFacts
<1>3. packets \in [Places -> Valid \cup {Nil}]
      /\ found \in [LineNumbers -> 0 .. Data + 1]
      /\ csn \in [LineNumbers -> Nat]
  BY <1>1 DEF TypeOK
<1>4. \A l \in LineNumbers : Filled(l) \in SUBSET Parts
  BY DEF Filled
<1>5. CASE Join(p)
  <2>1. /\ found[line] # 0 /\ csn[line] = p.csn
        /\ packets' = [packets EXCEPT ![AtPacket(p)] = p]
        /\ found' = [found EXCEPT ![line] = found[line] + 1]
        /\ pc' = IF found'[line] >= Data THEN "push" ELSE "select"
    BY <1>5 DEF Join
  <2>2. \A l \in LineNumbers, i \in Parts :
          packets'[Place(l, i)] =
            IF l = line /\ i = p.psn THEN p ELSE packets[Place(l, i)]
    <3>1. \A l \in LineNumbers, i \in Parts :
            [packets EXCEPT ![AtPacket(p)] = p][Place(l, i)] =
              IF l = line /\ i = p.psn THEN p ELSE packets[Place(l, i)]
      BY <1>2, <1>3, StoreAt
    <3> QED
      BY <2>1, <3>1
  <2>3. packets[Place(line, p.psn)] = Nil
    <3> SUFFICES ASSUME packets[Place(line, p.psn)] # Nil PROVE FALSE
      OBVIOUS
    <3>1. packets[Place(line, p.psn)] = [csn |-> csn[line], psn |-> p.psn]
      BY <1>2 DEF IInv, LinesPure
    <3>2. packets[Place(line, p.psn)] = p /\ Place(line, p.psn) \in Places
      BY <1>2, <2>1, <3>1, PlaceType
    <3> QED
      BY <1>1, <1>2, <3>2 DEF Stored
  <2>4. Filled(line)' = Filled(line) \cup {p.psn} /\ p.psn \notin Filled(line)
    BY <1>2, <2>2, <2>3 DEF Filled, Place
  <2>5. Cardinality(Filled(line)') = Cardinality(Filled(line)) + 1
    BY <1>2, <1>4, <2>4, PartsAreFinite, FS_AddElement
  <2>6. \A l \in LineNumbers : l # line => Filled(l)' = Filled(l)
    BY <2>2 DEF Filled, Place
  <2>7. CountsRight'
    <3> SUFFICES ASSUME NEW l \in LineNumbers
                 PROVE  found'[l] = Cardinality(Filled(l)')
      BY DEF CountsRight, Filled, Place
    <3>1. CASE l = line
      BY <1>2, <1>3, <2>1, <2>5, <3>1 DEF CountsRight
    <3>2. CASE l # line
      BY <1>3, <2>1, <2>6, <3>2 DEF CountsRight
    <3> QED
      BY <3>1, <3>2
  <2>8. PushesEnough'
    BY <1>2, <2>1 DEF PushesEnough, AtChunk
  <2> QED
    BY <2>7, <2>8
<1>6. CASE Open(p) \/ Replace(p)
  <2>1. PICK table \in [Places -> Valid \cup {Nil}] :
          /\ packets' = [table EXCEPT ![AtPacket(p)] = p]
          /\ \A l \in LineNumbers, i \in Parts :
               table[Place(l, i)] = IF l = line THEN Nil
                                                ELSE packets[Place(l, i)]
    <3>1. CASE Open(p)
      <4>1. \A i \in Parts : packets[Place(line, i)] = Nil
        BY <1>2, <3>1 DEF Open, IInv, LinesPure
      <4> QED
        BY <1>3, <3>1, <4>1 DEF Open
    <3>2. CASE Replace(p)
      <4>1. Cleared(p.csn) \in [Places -> Valid \cup {Nil}]
        BY <1>3 DEF Cleared
      <4>2. packets' = [Cleared(p.csn) EXCEPT ![AtPacket(p)] = p]
        BY <3>2 DEF Replace
      <4> QED
        BY <1>2, <4>1, <4>2, ClearedLine
    <3> QED
      BY <1>6, <3>1, <3>2
  <2>2. found' = [found EXCEPT ![line] = 1] /\ pc' = pc
    BY <1>6 DEF Open, Replace
  <2>3. \A l \in LineNumbers, i \in Parts :
          packets'[Place(l, i)] =
            IF l = line /\ i = p.psn THEN p ELSE table[Place(l, i)]
    BY <1>2, <2>1, StoreAt
  <2>4. Filled(line)' = {p.psn}
    BY <1>2, <2>1, <2>3 DEF Filled, Place
  <2>5. \A l \in LineNumbers : l # line => Filled(l)' = Filled(l)
    BY <2>1, <2>3 DEF Filled, Place
  <2>6. CountsRight'
    <3> SUFFICES ASSUME NEW l \in LineNumbers
                 PROVE  found'[l] = Cardinality(Filled(l)')
      BY DEF CountsRight, Filled, Place
    <3>1. CASE l = line
      BY <1>2, <1>3, <2>2, <2>4, <3>1, FS_Singleton
    <3>2. CASE l # line
      BY <1>3, <2>2, <2>5, <3>2 DEF CountsRight
    <3> QED
      BY <3>1, <3>2
  <2>7. PushesEnough'
    BY <1>2, <2>2 DEF PushesEnough
  <2> QED
    BY <2>6, <2>7
<1> QED
  BY <1>5, <1>6

LEMMA PushKeepsCounts ==
  ASSUME IInv, CountsRight, PushesEnough, PartsInRange, Push
  PROVE  /\ CountsRight'
         /\ Cardinality(Shards(Copy(packet.csn))) >= Data
<1> DEFINE c == packet.csn
           line == AtChunk(c)
<1>1. /\ c \in Nat \ {0} /\ line \in LineNumbers
      /\ \A i \in Parts : Copy(c)[i] = packets[Place(line, i)]
  BY PushFacts
<1>2. /\ pc = "push" /\ packets' = Cleared(c) /\ packet' = packet
      /\ found' = [found EXCEPT ![line] = 0]
  BY DEF Push
<1>3. Shards(Copy(c)) = Filled(line)
  BY <1>1 DEF Shards, Filled
<1>4. Cardinality(Shards(Copy(c))) >= Data
  <2>1. Cardinality(Filled(line)) = found[line] /\ found[line] >= Data
    BY <1>1, <1>2 DEF CountsRight, PushesEnough
  <2> QED
    BY <1>3, <2>1
<1>5. \A l \in LineNumbers, i \in Parts :
        packets'[Place(l, i)] = IF l = line THEN Nil ELSE packets[Place(l, i)]
  BY <1>1, <1>2, ClearedLine
<1>6. /\ Filled(line)' = {}
      /\ \A l \in LineNumbers : l # line => Filled(l)' = Filled(l)
  BY <1>1, <1>2, <1>5 DEF Filled, Place
<1>7. CountsRight'
  <2> SUFFICES ASSUME NEW l \in LineNumbers
               PROVE  found'[l] = Cardinality(Filled(l)')
    BY DEF CountsRight, Filled, Place
  <2>1. found \in [LineNumbers -> 0 .. Data + 1]
    BY DEF IInv, TypeOK
  <2>2. CASE l = line
    BY <1>1, <1>2, <1>6, <2>1, <2>2, FS_EmptySet
  <2>3. CASE l # line
    BY <1>2, <1>6, <2>1, <2>3 DEF CountsRight
  <2> QED
    BY <2>2, <2>3
<1> QED
  BY <1>4, <1>7

-----------------------------------------------------------------------------
LEMMA NextKeepsOnceInv ==
  ASSUME OnceInv, PartsInRange, [Next]_vars
  PROVE  OnceInv'
<1>1. IInv /\ IInv' /\ HeldArrived /\ HeldArrived' /\ TypeOK /\ TypeOK'
  BY NextKeepsIInv, NextKeepsHeldArrived DEF OnceInv, IInv
<1> SUFFICES ASSUME NoCopies'
             PROVE  (CountsRight /\ InOnePlace /\ PushesEnough
                       /\ PushedRestorable)'
  BY <1>1 DEF OnceInv
<1>2. NoCopies
  BY <1>1, ArrivedGrows DEF NoCopies, TypeOK
<1>3. CountsRight /\ InOnePlace /\ PushesEnough /\ PushedRestorable
  BY <1>2 DEF OnceInv
<1>4. ASSUME UNCHANGED <<found, packets, packet, pushed>>,
             pc' = pc \/ pc' = "stopped"
      PROVE  /\ CountsRight' /\ PushesEnough' /\ PushedRestorable'
             /\ Stored' = Stored /\ InPushed' = InPushed
  BY <1>3, <1>4
     DEF CountsRight, Filled, PushesEnough, PushedRestorable, PushedLines,
         Stored, InPushed
<1>5. ASSUME NEW p \in Packets, Arrive(p)
      PROVE  (CountsRight /\ InOnePlace /\ PushesEnough /\ PushedRestorable)'
  <2>1. /\ UNCHANGED <<found, packets, packet, pushed, pc>>
        /\ assemblyQueue' = Append(assemblyQueue, p)
        /\ arrived' = [arrived EXCEPT ![p] = arrived[p] + 1]
        /\ assemblyQueue \in Seq(Packets)
    BY <1>1, <1>5 DEF Arrive, state, TypeOK
  <2>2. ~ (arrived[p] > 0)
    BY <1>1, <2>1 DEF NoCopies, TypeOK
  <2>3. p \notin Stored \cup InPushed
    BY <1>1, <2>2 DEF HeldArrived, Stored, InPushed, PacketsIn
  <2>4. \A i \in 1 .. Len(assemblyQueue) : assemblyQueue[i] # p
    BY <1>1, <2>2 DEF HeldArrived
  <2>5. /\ Len(assemblyQueue) \in Nat
        /\ Len(assemblyQueue') = Len(assemblyQueue) + 1
        /\ \A i \in 1 .. Len(assemblyQueue) : assemblyQueue'[i] = assemblyQueue[i]
        /\ assemblyQueue'[Len(assemblyQueue) + 1] = p
    BY <2>1
  <2>6. \A i, j \in 1 .. Len(assemblyQueue') :
          assemblyQueue'[i] = assemblyQueue'[j] => i = j
    BY <1>3, <2>4, <2>5 DEF InOnePlace
  <2>7. Stored' = Stored /\ InPushed' = InPushed
    BY <1>4, <2>1
  <2>8. \A i \in 1 .. Len(assemblyQueue') :
          assemblyQueue'[i] \notin Stored' \cup InPushed'
    BY <1>3, <2>3, <2>5, <2>7 DEF InOnePlace
  <2>9. InOnePlace'
    BY <1>3, <2>1, <2>6, <2>7, <2>8 DEF InOnePlace
  <2> QED
    BY <1>4, <2>1, <2>9
<1>6. ASSUME NEW p \in Packets, Drop(p)
      PROVE  (CountsRight /\ InOnePlace /\ PushesEnough /\ PushedRestorable)'
  <2>1. UNCHANGED <<found, packets, packet, pushed, pc>> /\ Receive(p)
    BY <1>6 DEF Drop, Receive, state
  <2>2. Stored' = Stored /\ InPushed' = InPushed
    BY <1>4, <2>1
  <2>3. /\ Len(assemblyQueue) \in Nat
        /\ Len(assemblyQueue') = Len(assemblyQueue) - 1
        /\ \A i \in 1 .. Len(assemblyQueue') :
             i + 1 \in 1 .. Len(assemblyQueue)
               /\ assemblyQueue'[i] = assemblyQueue[i + 1]
    BY <1>1, <2>1, ReceiveFacts
  <2>4. \A i, j \in 1 .. Len(assemblyQueue') :
          assemblyQueue'[i] = assemblyQueue'[j] => i = j
    BY <1>3, <2>3 DEF InOnePlace
  <2>5. \A i \in 1 .. Len(assemblyQueue') :
          assemblyQueue'[i] \notin Stored' \cup InPushed'
    BY <1>3, <2>2, <2>3 DEF InOnePlace
  <2>6. InOnePlace'
    BY <1>3, <2>1, <2>2, <2>4, <2>5 DEF InOnePlace
  <2> QED
    BY <1>4, <2>1, <2>6
<1>7. ASSUME NEW p \in Packets, Join(p) \/ Open(p) \/ Replace(p)
      PROVE  (CountsRight /\ InOnePlace /\ PushesEnough /\ PushedRestorable)'
  <2>1. InOnePlace' /\ CountsRight' /\ PushesEnough'
    BY <1>1, <1>3, <1>7, FreshStore, StoreKeepsCounts
  <2>2. pushed' = pushed
    BY <1>1, <1>7, StoreIs, AdmitFacts
  <2>3. PushedRestorable'
    BY <1>3, <2>2 DEF PushedRestorable, PushedLines, Shards
  <2> QED
    BY <2>1, <2>3
<1>8. CASE Push
  <2>1. /\ InOnePlace' /\ CountsRight'
        /\ Cardinality(Shards(Copy(packet.csn))) >= Data
    BY <1>1, <1>3, <1>8, PushKeepsInOnePlace, PushKeepsCounts
  <2>2. PushedLines' = PushedLines \cup {Copy(packet.csn)}
    BY <1>1, <1>8, PushFacts
  <2>3. PushedRestorable'
    BY <1>3, <2>1, <2>2 DEF PushedRestorable, Shards
  <2>4. PushesEnough'
    BY <1>8 DEF Push, PushesEnough
  <2> QED
    BY <2>1, <2>3, <2>4
<1>9. CASE Restore \/ Stop \/ UNCHANGED vars
  <2>1. /\ UNCHANGED <<found, packets, packet, pushed, assemblyQueue>>
        /\ pc' = pc \/ pc' = "stopped"
    BY <1>9 DEF Restore, Stop, state, vars
  <2>2. InOnePlace'
    BY <1>3, <1>4, <2>1 DEF InOnePlace
  <2> QED
    BY <1>4, <2>1, <2>2
<1> QED
  BY <1>5, <1>6, <1>7, <1>8, <1>9 DEF Next, Assembly

LEMMA InitOnceInv == Init => OnceInv
<1> SUFFICES ASSUME Init PROVE OnceInv
  OBVIOUS
<1>1. HeldArrived
  BY DEF Init, HeldArrived, PushedLines
<1>2. CountsRight
  <2> SUFFICES ASSUME NEW line \in LineNumbers
               PROVE  0 = Cardinality(Filled(line))
    BY DEF Init, CountsRight
  <2>1. Filled(line) = {}
    BY PlaceType DEF Init, Filled
  <2> QED
    BY <2>1, FS_EmptySet
<1>3. InOnePlace
  BY DEF Init, InOnePlace, Stored, InPushed, PushedLines
<1>4. PushesEnough /\ PushedRestorable
  BY DEF Init, PushesEnough, PushedRestorable, PushedLines
<1> QED
  BY <1>1, <1>2, <1>3, <1>4, InitIInv DEF OnceInv

(* As long as no packet has come twice, however many are lost and in       *)
(* whatever order they come, one is in one place only and found counts     *)
(* different packets (decoder.go:264, 288, 300).                           *)
THEOREM CountsDistinctPackets == PartsInRange /\ Spec => []OnceInv
<1> SUFFICES ASSUME PartsInRange PROVE Spec => []OnceInv
  OBVIOUS
<1>1. OnceInv /\ [Next]_vars => OnceInv'
  BY NextKeepsOnceInv
<1> QED
  BY <1>1, InitOnceInv, PTL DEF Spec

LEMMA OneCopyEach ==
  ASSUME MaxCopies = 1
  PROVE  Spec => []NoCopies
<1> DEFINE AtMostOne == arrived \in [Packets -> 0 .. 1]
<1>1. Init => AtMostOne
  BY DEF Init
<1>2. AtMostOne /\ [Next]_vars => AtMostOne'
  <2> SUFFICES ASSUME AtMostOne, [Next]_vars PROVE AtMostOne'
    OBVIOUS
  <2>1. ASSUME NEW p \in Packets, Arrive(p) PROVE AtMostOne'
    <3>1. arrived[p] + 1 \in 0 .. 1
      BY <2>1 DEF Arrive
    <3> QED
      BY <2>1, <3>1 DEF Arrive
  <2>2. CASE arrived' = arrived
    BY <2>2
  <2> QED
    BY <2>1, <2>2
       DEF Next, Assembly, Restore, Stop, Drop, Join, Open, Replace, Admit,
           Receive, Push, vars
<1>3. AtMostOne => NoCopies
  BY DEF NoCopies
<1> QED
  BY <1>1, <1>2, <1>3, PTL DEF Spec

(* A pushed line holds Data different packets: it can be restored          *)
(* (decoder.go:266), if the network delivers none twice.                   *)
THEOREM PushesSuffice ==
  PartsInRange /\ MaxCopies = 1 /\ Spec => []PushedRestorable
<1> SUFFICES ASSUME PartsInRange, MaxCopies = 1
             PROVE  Spec => []PushedRestorable
  OBVIOUS
<1>1. OnceInv /\ NoCopies => PushedRestorable
  BY DEF OnceInv
<1> QED
  BY <1>1, CountsDistinctPackets, OneCopyEach, PTL

(* With less than twice Data packets in a chunk there are not enough for   *)
(* two lines.                                                              *)
LEMMA TooFewForTwo ==
  ASSUME OnceInv, NoCopies, Total < 2 * Data, PartsInRange
  PROVE  PushedOnce
<1> SUFFICES ASSUME NEW m \in 1 .. Len(pushed), NEW n \in 1 .. Len(pushed),
                    NEW c \in ChunksIn(pushed[m]) \cap ChunksIn(pushed[n])
             PROVE  m = n
  BY DEF PushedOnce
<1> DEFINE S == Shards(pushed[m])
           T == Shards(pushed[n])
<1>1. IInv /\ InOnePlace /\ PushedRestorable
  BY DEF OnceInv
<1>2. pushed \in Seq([Parts -> Valid \cup {Nil}])
  BY <1>1 DEF IInv, TypeOK
<1>3. /\ pushed[m] \in [Parts -> Valid \cup {Nil}]
      /\ pushed[n] \in [Parts -> Valid \cup {Nil}]
  BY <1>2
<1>4. pushed[m] \in PushedLines /\ pushed[n] \in PushedLines
  BY DEF PushedLines
<1>5. Cardinality(S) >= Data /\ Cardinality(T) >= Data
  BY <1>1, <1>4 DEF PushedRestorable
<1>6. S \subseteq Parts /\ T \subseteq Parts
  BY DEF Shards
<1>7. Cardinality(S) + Cardinality(T) > Cardinality(Parts)
  <2>1. Cardinality(S) \in Nat /\ Cardinality(T) \in Nat
    BY <1>6, PartsAreFinite
  <2> HIDE DEF S, T
  <2> QED
    BY <1>5, <2>1, PartsAreFinite, Sizes
<1>8. PICK i \in Parts : i \in S /\ i \in T
  <2> HIDE DEF S, T
  <2>1. S \cap T # {}
    BY <1>6, <1>7, PartsAreFinite, FS_MajoritiesIntersect
  <2> QED
    BY <1>6, <2>1
<1>9. /\ \A k \in S : pushed[m][k].csn = c /\ pushed[m][k].psn = k
      /\ \A k \in T : pushed[n][k].csn = c /\ pushed[n][k].psn = k
  BY <1>1, <1>4 DEF IInv, PushedPure, PurelyOneChunk, ChunksIn
<1>10. pushed[m][i] \in Valid /\ pushed[n][i] \in Valid
  BY <1>3, <1>8 DEF Shards
<1>11. pushed[m][i] = pushed[n][i]
  <2>1. /\ pushed[m][i] = [csn |-> pushed[m][i].csn, psn |-> pushed[m][i].psn]
        /\ pushed[n][i] = [csn |-> pushed[n][i].csn, psn |-> pushed[n][i].psn]
    BY <1>10, ValidPacket
  <2>2. /\ pushed[m][i].csn = c /\ pushed[m][i].psn = i
        /\ pushed[n][i].csn = c /\ pushed[n][i].psn = i
    BY <1>8, <1>9
  <2> QED
    BY <2>1, <2>2
<1>12. pushed[m][i] \in PacketsIn(pushed[m]) \cap PacketsIn(pushed[n])
  BY <1>8, <1>11 DEF PacketsIn
<1> QED
  BY <1>1, <1>12 DEF InOnePlace

(* No chunk is pushed twice (decoder.go:248), though the cursor may go     *)
(* back behind it (decoder.go:294).                                        *)
THEOREM PushesOnce ==
  PartsInRange /\ MaxCopies = 1 /\ Total < 2 * Data /\ Spec => []PushedOnce
<1> SUFFICES ASSUME PartsInRange, MaxCopies = 1, Total < 2 * Data
             PROVE  Spec => []PushedOnce
  OBVIOUS
<1>1. OnceInv /\ NoCopies => PushedOnce
  BY TooFewForTwo
<1> QED
  BY <1>1, CountsDistinctPackets, OneCopyEach, PTL

-----------------------------------------------------------------------------
(* The decoder: the assembler and the dispatcher at work between the wire  *)
(* and the client.  Every step of it is one of theirs or leaves them       *)
(* alone, so what was proved of each holds of it in the decoder.           *)

(* The packets are those the encoder sends (encoder.go:156-173). *)
EncodersPackets == Packets = [csn : Chunks, psn : Parts]

Ordering == INSTANCE DispatcherProofs
  WITH Csn <- Offerable, last <- dispatched, pc <- dispatchPc,
       MaxCopies <- PacketsSent * MaxCopies + 1, strayed <- FALSE

LEMMA EncoderKeepsRange ==
  ASSUME EncodersPackets
  PROVE  PartsInRange
BY Sizes DEF EncodersPackets, PartsInRange, Parts

LEMMA SentSize == PacketsSent \in Nat
<1>1. Depth \in Nat /\ Total \in Nat /\ Blocks \in Nat
  BY DecoderAssumption, Sizes
<1> QED
  BY <1>1 DEF PacketsSent, Wire!BlockSize

(* What DispatcherProofs assumes of its constants. *)
LEMMA OrderingConstants ==
  /\ Offerable \subseteq Nat /\ 0 \notin Offerable /\ Chunks \subseteq Nat
  /\ Size \in Nat \ {0}
  /\ DispatchCap \in Nat \ {0} /\ ResultCap \in Nat \ {0}
  /\ PacketsSent * MaxCopies + 1 \in Nat \ {0}
<1>1. PacketsSent * MaxCopies + 1 \in Nat \ {0}
  <2>1. PacketsSent \in Nat /\ MaxCopies \in Nat
    BY SentSize, CapAssumption
  <2> QED
    BY <2>1
<1> QED
  BY <1>1, DecoderAssumption DEF Offerable, Chunks

LEMMA OrderingInit == Dispatcher!Init => Ordering!OnceInv
<1>1. Dispatcher!Init => Ordering!Init
  BY DEF Dispatcher!Init, Ordering!Init, Dispatcher!Slots, Ordering!Slots,
         Dispatcher!Empty, Ordering!Empty
<1>2. Ordering!Init => Ordering!OnceInv
  BY Ordering!InitOnce, OrderingConstants
<1> QED
  BY <1>1, <1>2

LEMMA OrderingStep ==
  [Dispatcher!Next]_dispatcherVars => [Ordering!Next]_(Ordering!vars)
BY DEF dispatcherVars, Ordering!vars, Dispatcher!Next, Ordering!Next,
   Dispatcher!Offer, Ordering!Offer, Dispatcher!Consume, Ordering!Consume,
   Dispatcher!Stop, Ordering!Stop, Dispatcher!Dispatch, Ordering!Dispatch,
   Dispatcher!AtFront, Ordering!AtFront,
   Dispatcher!DropDetached, Ordering!DropDetached,
   Dispatcher!Hold, Ordering!Hold, Dispatcher!Collide, Ordering!Collide,
   Dispatcher!Match, Ordering!Match, Dispatcher!Evict, Ordering!Evict,
   Dispatcher!Deliver, Ordering!Deliver, Dispatcher!Drain, Ordering!Drain,
   Dispatcher!Accept, Ordering!Accept, Dispatcher!Receive, Ordering!Receive,
   Dispatcher!Detached, Ordering!Detached, Dispatcher!Send, Ordering!Send,
   Dispatcher!Continue, Ordering!Continue,
   Dispatcher!NextIsHeld, Ordering!NextIsHeld, Dispatcher!Slot, Ordering!Slot,
   Dispatcher!Empty, Ordering!Empty, Dispatcher!state, Ordering!state

LEMMA OrderingKeepsOnce ==
  ASSUME Ordering!OnceInv, [Dispatcher!Next]_dispatcherVars
  PROVE  Ordering!OnceInv'
<1>1. [Ordering!Next]_(Ordering!vars)
  BY OrderingStep
<1> QED
  BY <1>1, Ordering!NextKeepsOnce, OrderingConstants

-----------------------------------------------------------------------------
(* What DeliveredWereRestorable rests on. *)

Restorable(c) == Cardinality(ArrivedParts(c)) >= Data

FromTheWire ==
  /\ sent \in 0 .. PacketsSent
  /\ argumentQueue \in Seq(Packets \cup {Stray})
  /\ decoded \in Packets \cup {Nil}

(* The first run of the encoder is mixed with no other. *)
FirstRun ==
  /\ restarts \in Nat
  /\ restarts = 0 =>
       late = 0 /\ outdated = {} /\ mixed = {} /\ shown = {}

(* A chunk that may go to dispatch: enough of it arrived, or its csn was   *)
(* read from a header nobody sent.                                         *)
Accounted(c) == c \in shown \/ (c \in Chunks /\ Restorable(c))

RestoredOnly ==
  /\ restored <= Len(pushed)
  /\ restoring # 0 => restoring \in Offerable /\ Accounted(restoring)
  /\ \A c \in Offerable : offered[c] > 0 => Accounted(c)

DecoderInv ==
  /\ OnceInv
  /\ OrderInv
  /\ FromTheWire
  /\ FirstRun
  /\ RestoredOnly
  /\ Dispatcher!OnceInv

-----------------------------------------------------------------------------
(* What DeliveredOnce rests on.  As long as the encoder is not restarted a *)
(* chunk is offered as often as it was pushed.  As long as nothing is      *)
(* doubled either a packet on its way is an earlier one of the wire and in *)
(* one place only.                                                         *)

Single == duplicates = 0 /\ restarts = 0

OnTheWire(p) == \E n \in 0 .. sent - 1 : p = Wire!OnWire(n)

PacketsOnce ==
  /\ NoCopies
  /\ \A p \in Packets : arrived[p] > 0 => OnTheWire(p)
  /\ decoded # Nil => OnTheWire(decoded) /\ arrived[decoded] = 0
  /\ \A i \in 1 .. Len(argumentQueue) : argumentQueue[i] # Stray =>
       /\ OnTheWire(argumentQueue[i])
       /\ arrived[argumentQueue[i]] = 0
       /\ argumentQueue[i] # decoded
       /\ \A j \in 1 .. Len(argumentQueue) :
            argumentQueue[i] = argumentQueue[j] => i = j

OfferedAsPushed ==
  /\ \A c \in Chunks :
       /\ offered[c] > 0 =>
            \E i \in 1 .. restored :
              c \in ChunksIn(pushed[i]) /\ (i = restored => restoring = 0)
       /\ offered[c] > 1 =>
            \E i \in 1 .. restored : \E j \in 1 .. i - 1 :
              c \in ChunksIn(pushed[i]) /\ c \in ChunksIn(pushed[j])
  /\ restoring # 0 =>
       restored >= 1 /\ restoring \in ChunksIn(pushed[restored])

(* What MixedInProgress rests on: while packets of the former run are      *)
(* still to come all there is in the table is of that run, and what is     *)
(* left of it afterwards was there when the first of the new run came.     *)
OriginInv ==
  /\ late \in Nat
  /\ late > 0 => Stored \subseteq outdated /\ mixed = {}
  /\ late = 0 => \A p \in Stored \cap outdated : p.csn \in inProgress
  /\ \A i \in mixed :
       i \in 1 .. Len(pushed) /\ ChunksIn(pushed[i]) \subseteq inProgress

DecoderOnceInv ==
  /\ DecoderInv
  /\ duplicates \in Nat
  /\ restarts = 0 => OfferedAsPushed
  /\ Single => PacketsOnce

-----------------------------------------------------------------------------
(* What comes on the wire. *)

LEMMA WireParts ==
  ASSUME NEW n \in Nat
  PROVE  \E b \in Nat, r \in 0 .. Depth - 1, q \in Parts :
           /\ n = (Depth * Total) * b + (Depth * q + r)
           /\ Depth * q + r \in 0 .. Depth * Total - 1
           /\ b = n \div (Depth * Total)
           /\ Wire!OnWire(n) = [csn |-> b * Depth + r + 1, psn |-> q]
<1> DEFINE size == Depth * Total
           b == n \div size
           at == n % size
           q == at \div Depth
           r == at % Depth
<1>1. Depth \in Nat \ {0} /\ Total \in Nat \ {0}
  BY DecoderAssumption, Sizes
<1>2. size \in Nat \ {0}
  <2>1. (Depth - 1) * Total >= 0
    BY <1>1
  <2> QED
    BY <1>1, <2>1
<1>3. Wire!OnWire(n) = [csn |-> b * Depth + r + 1, psn |-> q]
  BY DEF Wire!OnWire, Wire!AtPlace, Wire!BlockSize
<1> HIDE DEF size
<1>4. n = size * b + at /\ b \in Nat /\ at \in 0 .. size - 1
  BY <1>2, DivMod
<1> HIDE DEF b, at
<1>5. at = Depth * q + r /\ q \in Nat /\ r \in 0 .. Depth - 1
  <2>1. at \in Nat
    BY <1>2, <1>4
  <2> QED
    BY <1>1, <2>1, DivMod
<1> HIDE DEF q, r
<1>6. q \in Parts
  <2>1. Depth * q \in Nat /\ Depth * Total \in Nat
    BY <1>1, <1>5
  <2>2. at < Depth * Total
    BY <1>2, <1>4 DEF size
  <2>3. ~ (q >= Total)
    <3> SUFFICES ASSUME q >= Total PROVE FALSE
      OBVIOUS
    <3>1. Depth * (q - Total) >= 0
      BY <1>1, <1>5
    <3>2. Depth * (q - Total) = Depth * q - Depth * Total
      BY <1>1, <1>5
    <3> QED
      BY <1>1, <1>5, <2>1, <2>2, <3>1, <3>2
  <2> QED
    BY <1>1, <1>5, <2>3 DEF Parts
<1>7. /\ n = (Depth * Total) * b + (Depth * q + r)
      /\ Depth * q + r \in 0 .. Depth * Total - 1
      /\ b = n \div (Depth * Total)
  BY <1>4, <1>5 DEF size, b
<1> QED
  BY <1>3, <1>4, <1>5, <1>6, <1>7

LEMMA WireInRange ==
  ASSUME NEW n \in 0 .. PacketsSent - 1
  PROVE  Wire!OnWire(n) \in [csn : Chunks, psn : Parts]
<1>1. Depth \in Nat \ {0} /\ Total \in Nat \ {0} /\ Blocks \in Nat
  BY DecoderAssumption, Sizes
<1>2. n \in Nat
  OBVIOUS
<1>3. PICK b \in Nat, r \in 0 .. Depth - 1, q \in Parts :
        /\ n = (Depth * Total) * b + (Depth * q + r)
        /\ Depth * q + r \in 0 .. Depth * Total - 1
        /\ Wire!OnWire(n) = [csn |-> b * Depth + r + 1, psn |-> q]
  BY <1>2, WireParts
<1>4. b < Blocks
  <2> DEFINE size == Depth * Total
  <2>1. size \in Nat
    BY <1>1
  <2>2. n < Blocks * size
    BY <1>1, <2>1 DEF PacketsSent, Wire!BlockSize
  <2>3. n >= size * b
    <3>1. size * b \in Nat
      BY <2>1
    <3> HIDE DEF size
    <3>2. Depth * q + r \in Nat
      BY <1>3
    <3> QED
      BY <1>3, <3>1, <3>2 DEF size
  <2> HIDE DEF size
  <2>4. ~ (b >= Blocks)
    <3> SUFFICES ASSUME b >= Blocks PROVE FALSE
      OBVIOUS
    <3>1. size * (b - Blocks) >= 0
      BY <1>1, <2>1
    <3>2. size * (b - Blocks) = size * b - Blocks * size
      BY <1>1, <2>1
    <3>3. size * b \in Nat /\ Blocks * size \in Nat
      BY <1>1, <2>1
    <3> QED
      BY <2>2, <2>3, <3>1, <3>2, <3>3
  <2> QED
    BY <1>1, <2>4
<1>5. b * Depth + r + 1 \in Chunks
  <2>1. Depth * Blocks >= Depth * b + Depth
    BY <1>1, <1>4, MultiplesApart
  <2>2. /\ Depth * Blocks = Blocks * Depth /\ Depth * b = b * Depth
        /\ b * Depth \in Nat /\ Blocks * Depth \in Nat
    BY <1>1
  <2> HIDE DEF Chunks
  <2>3. /\ b * Depth + r + 1 >= 1
        /\ b * Depth + r + 1 <= Blocks * Depth
    BY <1>1, <2>1, <2>2
  <2> QED
    BY <1>1, <2>2, <2>3 DEF Chunks
<1> QED
  BY <1>3, <1>5

(* No packet is put on the wire twice. *)
LEMMA WireOnce ==
  ASSUME NEW m \in Nat, NEW n \in Nat, Wire!OnWire(m) = Wire!OnWire(n)
  PROVE  m = n
<1>1. Depth \in Nat
  BY DecoderAssumption
<1>2. PICK b \in Nat, r \in 0 .. Depth - 1, q \in Parts :
        /\ m = (Depth * Total) * b + (Depth * q + r)
        /\ Wire!OnWire(m) = [csn |-> b * Depth + r + 1, psn |-> q]
  BY WireParts
<1>3. PICK c \in Nat, s \in 0 .. Depth - 1, p \in Parts :
        /\ n = (Depth * Total) * c + (Depth * p + s)
        /\ Wire!OnWire(n) = [csn |-> c * Depth + s + 1, psn |-> p]
  BY WireParts
<1>4. q = p /\ b * Depth + r + 1 = c * Depth + s + 1
  BY <1>2, <1>3
<1>5. Depth * b + r = Depth * c + s
  <2>1. b * Depth \in Nat /\ c * Depth \in Nat
        /\ b * Depth = Depth * b /\ c * Depth = Depth * c
    BY <1>1
  <2> QED
    BY <1>4, <2>1
<1>6. b = c /\ r = s
  BY <1>1, <1>5, QuotientUnique
<1> QED
  BY <1>2, <1>3, <1>4, <1>6

-----------------------------------------------------------------------------
(* Each step of the decoder as one of the assembler and of the dispatcher. *)

LEMMA DecoderStep ==
  ASSUME DecoderInv, EncodersPackets, [DecoderNext]_decoderVars
  PROVE  [Next]_vars /\ [Dispatcher!Next]_dispatcherVars
<1>1. CASE UNCHANGED decoderVars
  BY <1>1 DEF decoderVars
<1>2. CASE Transmit \/ Intrude \/ Duplicate \/ Lose \/ Restart \/ Decode
  BY <1>2 DEF Transmit, Intrude, Duplicate, Lose, Restart, Decode, Arrives
<1>3. CASE PassOn
  <2>1. decoded \in Packets
    BY <1>3 DEF PassOn, DecoderInv, FromTheWire
  <2> QED
    BY <1>3, <2>1 DEF PassOn, Next
<1>4. CASE Assemble
  BY <1>4 DEF Assemble, Next
<1>5. CASE TakeLine \/ Crash
  BY <1>5 DEF TakeLine, Crash, Next
<1>6. CASE SendChunk
  <2>1. restoring \in Offerable
    BY <1>6 DEF SendChunk, DecoderInv, RestoredOnly
  <2> QED
    BY <1>6, <2>1 DEF SendChunk, Dispatcher!Next
<1>7. CASE DispatchChunk \/ Deliver
  BY <1>7 DEF DispatchChunk, Deliver, Dispatcher!Next
<1> QED
  BY <1>1, <1>2, <1>3, <1>4, <1>5, <1>6, <1>7 DEF DecoderNext, Run

LEMMA SameOnceInv == Dispatcher!OnceInv <=> Ordering!OnceInv
BY DEF Dispatcher!OnceInv, Ordering!OnceInv,
   Dispatcher!IInv, Ordering!IInv, Dispatcher!TypeOK, Ordering!TypeOK,
   Dispatcher!CursorsAgree, Ordering!CursorsAgree,
   Dispatcher!HeldInItsSlot, Ordering!HeldInItsSlot,
   Dispatcher!AwaitedNeverHeld, Ordering!AwaitedNeverHeld,
   Dispatcher!BranchesMatch, Ordering!BranchesMatch,
   Dispatcher!NothingDiscarded, Ordering!NothingDiscarded,
   Dispatcher!OnlyOffered, Ordering!OnlyOffered,
   Dispatcher!OnlyAccepted, Ordering!OnlyAccepted,
   Dispatcher!OfferedOnce, Ordering!OfferedOnce,
   Dispatcher!EachOnce, Ordering!EachOnce,
   Dispatcher!Queued, Ordering!Queued, Dispatcher!Held, Ordering!Held,
   Dispatcher!InHand, Ordering!InHand, Dispatcher!SentOut, Ordering!SentOut,
   Dispatcher!Slots, Ordering!Slots, Dispatcher!Slot, Ordering!Slot,
   Dispatcher!Empty, Ordering!Empty, Dispatcher!Pcs, Ordering!Pcs

(* The assembler's invariants hold in the decoder. *)
LEMMA NextKeepsOrderInv ==
  ASSUME OrderInv, PartsInRange, [Next]_vars
  PROVE  OrderInv'
<1>1. ASSUME NEW p \in Packets, Join(p) \/ Open(p) \/ Replace(p)
      PROVE  OrderInv'
  BY <1>1, StoreKeepsOrder
<1>2. ASSUME NEW p \in Packets, Arrive(p) \/ Drop(p)
      PROVE  OrderInv'
  BY <1>2, QuietKeepsOrder DEF Arrive, Drop, Receive, state
<1>3. CASE Restore \/ Stop \/ UNCHANGED vars
  BY <1>3, QuietKeepsOrder DEF Restore, Stop, state, vars
<1> QED
  BY <1>1, <1>2, <1>3, PushKeepsOrder DEF Next, Assembly

LEMMA PartsKeep ==
  ASSUME DecoderInv, EncodersPackets,
         [Next]_vars, [Dispatcher!Next]_dispatcherVars
  PROVE  OnceInv' /\ OrderInv' /\ Dispatcher!OnceInv'
<1>1. [Next]_vars /\ [Dispatcher!Next]_dispatcherVars /\ PartsInRange
  BY EncoderKeepsRange
<1>2. OnceInv' /\ OrderInv'
  BY <1>1, NextKeepsOnceInv, NextKeepsOrderInv DEF DecoderInv
<1>3. Ordering!OnceInv
  BY SameOnceInv DEF DecoderInv
<1>4. Ordering!OnceInv'
  BY <1>1, <1>3, OrderingKeepsOnce
<1>5. (Dispatcher!OnceInv <=> Ordering!OnceInv)'
  BY SameOnceInv, PTL
<1> QED
  BY <1>2, <1>4, <1>5

LEMMA StepKeepsParts ==
  ASSUME DecoderInv, EncodersPackets, [DecoderNext]_decoderVars
  PROVE  OnceInv' /\ OrderInv' /\ Dispatcher!OnceInv'
BY DecoderStep, PartsKeep

(* A wire position that is free, and the packets that come from there. *)

LEMMA StepKeepsWire ==
  ASSUME DecoderInv, EncodersPackets, [DecoderNext]_decoderVars
  PROVE  FromTheWire'
<1>1. /\ sent \in 0 .. PacketsSent
      /\ argumentQueue \in Seq(Packets \cup {Stray})
      /\ decoded \in Packets \cup {Nil}
  BY DEF DecoderInv, FromTheWire
<1>2. PacketsSent \in Nat
  BY SentSize
<1>3. \A n \in 0 .. PacketsSent - 1 : Wire!OnWire(n) \in Packets
  BY WireInRange DEF EncodersPackets
<1>4. ASSUME NEW p \in Packets \cup {Stray}, Arrives(p)
      PROVE  /\ argumentQueue' \in Seq(Packets \cup {Stray})
             /\ decoded' = decoded
  BY <1>1, <1>4 DEF Arrives
<1>5. CASE Transmit
  <2>1. sent < PacketsSent /\ sent' = sent + 1 /\ Arrives(Wire!OnWire(sent))
    BY <1>5 DEF Transmit
  <2>2. sent \in 0 .. PacketsSent - 1 /\ sent' \in 0 .. PacketsSent
    BY <1>1, <1>2, <2>1
  <2>3. Wire!OnWire(sent) \in Packets
    BY <1>3, <2>2
  <2> QED
    BY <1>1, <1>4, <2>1, <2>2, <2>3 DEF FromTheWire
<1>6. CASE Duplicate
  <2>1. sent > 0 /\ sent' = sent /\ Arrives(Wire!OnWire(sent - 1))
    BY <1>6 DEF Duplicate
  <2>2. sent - 1 \in 0 .. PacketsSent - 1
    BY <1>1, <1>2, <2>1
  <2>3. Wire!OnWire(sent - 1) \in Packets
    BY <1>3, <2>2
  <2> QED
    BY <1>1, <1>4, <2>1, <2>3 DEF FromTheWire
<1>7. CASE Intrude
  BY <1>1, <1>4, <1>7 DEF Intrude, FromTheWire
<1>8. CASE Lose
  BY <1>1, <1>2, <1>8 DEF Lose, decodeVars, FromTheWire
<1>9. CASE Restart
  <2>1. sent' \in RestartLosses /\ sent' <= PacketsSent
    BY <1>9 DEF Restart
  <2>2. sent' \in 0 .. PacketsSent
    BY <1>2, <2>1, DecoderAssumption
  <2> QED
    BY <1>1, <1>9, <2>2 DEF Restart, decodeVars, FromTheWire
<1>10. CASE Decode
  BY <1>1, <1>10 DEF Decode, networkVars, FromTheWire
<1>11. CASE PassOn
  BY <1>1, <1>11 DEF PassOn, networkVars, FromTheWire
<1>12. CASE Assemble \/ TakeLine \/ Crash
  BY <1>1, <1>12 DEF Assemble, TakeLine, Crash, networkVars, decodeVars,
     FromTheWire
<1>13. CASE SendChunk \/ DispatchChunk \/ Deliver \/ UNCHANGED decoderVars
  BY <1>1, <1>13 DEF SendChunk, DispatchChunk, Deliver, networkVars,
     decodeVars, decoderVars, FromTheWire
<1> QED
  BY <1>5, <1>6, <1>7, <1>8, <1>9, <1>10, <1>11, <1>12, <1>13
     DEF DecoderNext, Run

(* The parts that arrived only become more. *)
LEMMA StillRestorable ==
  ASSUME TypeOK, TypeOK', EncodersPackets, [Next]_vars,
         NEW c \in Chunks, Restorable(c)
  PROVE  Restorable(c)'
<1>1. ArrivedParts(c) \in SUBSET Parts /\ ArrivedParts(c)' \in SUBSET Parts
  BY DEF ArrivedParts
<1>2. ArrivedParts(c) \subseteq ArrivedParts(c)'
  <2> SUFFICES ASSUME NEW i \in Parts, arrived[[csn |-> c, psn |-> i]] > 0
               PROVE  arrived'[[csn |-> c, psn |-> i]] > 0
    BY DEF ArrivedParts
  <2>1. [csn |-> c, psn |-> i] \in Packets
    BY DEF EncodersPackets
  <2>2. arrived'[[csn |-> c, psn |-> i]] >= arrived[[csn |-> c, psn |-> i]]
    BY <2>1, ArrivedGrows
  <2> QED
    BY <2>1, <2>2 DEF TypeOK
<1>3. Cardinality(ArrivedParts(c)) <= Cardinality(ArrivedParts(c)')
  <2>1. IsFiniteSet(ArrivedParts(c)')
    BY <1>1, PartsAreFinite
  <2> QED
    BY <1>2, <2>1, FS_Subset
<1>4. /\ Cardinality(ArrivedParts(c)) \in Nat
      /\ Cardinality(ArrivedParts(c)') \in Nat
  BY <1>1, PartsAreFinite
<1>5. Cardinality(ArrivedParts(c)) >= Data
  BY DEF Restorable
<1>6. Cardinality(ArrivedParts(c)') >= Data
  BY <1>3, <1>4, <1>5, Sizes
<1> QED
  BY <1>6 DEF Restorable

(* What a line holds has arrived: the chunk restored from Data packets of  *)
(* it is restorable.                                                       *)
LEMMA LineIsRestorable ==
  ASSUME DecoderInv, EncodersPackets, NEW n \in 1 .. Len(pushed),
         Reconstructs(pushed[n])
  PROVE  \A c \in ChunksIn(pushed[n]) : c \in Chunks /\ Restorable(c)
<1> DEFINE line == pushed[n]
<1>1. IInv /\ HeldArrived
  BY DEF DecoderInv, OnceInv
<1>2. line \in [Parts -> Valid \cup {Nil}] /\ line \in PushedLines
  BY <1>1 DEF IInv, TypeOK, PushedLines
<1> HIDE DEF line
<1>3. Shards(line) \in SUBSET Parts /\ Cardinality(Shards(line)) >= Data
  BY DEF Shards, Reconstructs, line
<1>5. ASSUME NEW c \in ChunksIn(line)
      PROVE  c \in Chunks /\ Restorable(c)
  <2>1. PICK j \in Shards(line) : c = line[j].csn
    BY DEF ChunksIn
  <2>2. c \in Chunks
    <3>1. line[j] \in Valid
      BY <1>2, <2>1 DEF Shards
    <3>2. line[j] \in [csn : Chunks, psn : Parts]
      BY <3>1 DEF Valid, EncodersPackets
    <3> QED
      BY <2>1, <3>2
  <2>3. Shards(line) \subseteq ArrivedParts(c)
    <3> SUFFICES ASSUME NEW i \in Shards(line)
                 PROVE  i \in Parts /\ arrived[[csn |-> c, psn |-> i]] > 0
      BY DEF ArrivedParts
    <3>1. line[i].csn = c /\ line[i].psn = i
      BY <1>1, <1>2, <2>1 DEF IInv, PushedPure, PurelyOneChunk
    <3>2. line[i] \in Valid /\ i \in Parts
      BY <1>2 DEF Shards
    <3>3. line[i] = [csn |-> c, psn |-> i]
      BY <3>1, <3>2, ValidPacket, EncoderKeepsRange
    <3>4. arrived[line[i]] > 0
      BY <1>1, <1>2 DEF HeldArrived
    <3> QED
      BY <3>2, <3>3, <3>4
  <2>4. ArrivedParts(c) \in SUBSET Parts
    BY DEF ArrivedParts
  <2>5. IsFiniteSet(ArrivedParts(c))
    BY <2>4, PartsAreFinite
  <2>6. Cardinality(Shards(line)) <= Cardinality(ArrivedParts(c))
    BY <2>3, <2>5, FS_Subset
  <2>7. /\ Cardinality(Shards(line)) \in Nat
        /\ Cardinality(ArrivedParts(c)) \in Nat
    BY <1>3, <2>4, PartsAreFinite
  <2>8. Cardinality(ArrivedParts(c)) >= Data
    BY <1>3, <2>6, <2>7, Sizes
  <2> QED
    BY <2>2, <2>8 DEF Restorable
<1> QED
  BY <1>5 DEF line

(* Nothing is mixed before the encoder is restarted. *)
LEMMA StepKeepsFirstRun ==
  ASSUME FirstRun, [DecoderNext]_decoderVars
  PROVE  FirstRun'
<1>1. CASE UNCHANGED <<restarts, late, outdated, mixed, shown>>
  BY <1>1 DEF FirstRun
<1>2. CASE Transmit \/ Intrude \/ Duplicate \/ Lose \/ Decode \/ PassOn
           \/ UNCHANGED decoderVars
  BY <1>1, <1>2 DEF Transmit, Intrude, Duplicate, Lose, Decode, PassOn,
     Arrives, decoderVars, restartVars, originVars, garbageVars
<1>3. CASE Restart
  <2>1. restarts \in Nat /\ restarts' = restarts + 1
    BY <1>3 DEF Restart, FirstRun
  <2>2. restarts' \in Nat /\ restarts' # 0
    BY <2>1
  <2> QED
    BY <2>2 DEF FirstRun
<1>4. CASE Assemble
  <2>1. /\ NoteOrigin /\ UNCHANGED <<restarts, shown>>
        /\ restarts \in Nat
    BY <1>4 DEF Assemble, garbageVars, FirstRun
  <2>2. ASSUME restarts = 0
        PROVE  late' = 0 /\ outdated' = {} /\ mixed' = {} /\ shown' = {}
    <3>1. late = 0 /\ outdated = {} /\ mixed = {} /\ shown = {}
      BY <2>2 DEF FirstRun
    <3> QED
      BY <2>1, <3>1 DEF NoteOrigin
  <2> QED
    BY <2>1, <2>2 DEF FirstRun
<1>5. CASE TakeLine \/ Crash
  <2>1. /\ UNCHANGED <<restarts, late, outdated, mixed>>
        /\ shown' = shown \/ Garbled(restored')
    BY <1>5 DEF TakeLine, Crash, originVars
  <2>2. Garbled(restored') => mixed # {}
    BY DEF Garbled
  <2> QED
    BY <2>1, <2>2 DEF FirstRun
<1>6. CASE SendChunk \/ DispatchChunk \/ Deliver
  BY <1>1, <1>6 DEF SendChunk, DispatchChunk, Deliver, restartVars,
     originVars, garbageVars
<1> QED
  BY <1>2, <1>3, <1>4, <1>5, <1>6 DEF DecoderNext, Run

(* What restore hands on is accounted for. *)
LEMMA HeadersAccounted ==
  ASSUME DecoderInv, EncodersPackets, TakeLine
  PROVE  /\ restored' \in 1 .. Len(pushed)
         /\ restoring' # 0 =>
              /\ restoring' \in Offerable
              /\ restoring' \in shown' \/
                   /\ restoring' \in Chunks /\ Restorable(restoring')
                   /\ restoring' \in ChunksIn(pushed[restored'])
<1>1. /\ restored' \in 1 .. Len(pushed)
      /\ restoring' \in Headers(restored')
  <2>1. restored \in Nat /\ Len(pushed) \in Nat
    BY DEF DecoderInv, OnceInv, IInv, TypeOK
  <2>2. restored < Len(pushed) /\ restored' = restored + 1
    BY DEF TakeLine, Restore
  <2> QED
    BY <2>1, <2>2 DEF TakeLine
<1>2. CASE Garbled(restored')
  <2>1. restoring' \in Garbage \cup {0} /\ restoring' \in shown'
    BY <1>1, <1>2 DEF Headers, TakeLine
  <2> QED
    BY <1>1, <2>1 DEF Offerable
<1>3. CASE ~ Garbled(restored') /\ restoring' # 0
  <2>1. /\ Reconstructs(pushed[restored'])
        /\ restoring' \in ChunksIn(pushed[restored'])
    BY <1>1, <1>3 DEF Headers
  <2>2. restoring' \in Chunks /\ Restorable(restoring')
    BY <1>1, <2>1, LineIsRestorable
  <2> QED
    BY <1>1, <2>1, <2>2 DEF Offerable
<1> QED
  BY <1>1, <1>2, <1>3

(* Only chunks that can be restored go to the dispatcher. *)
LEMMA StepKeepsRestored ==
  ASSUME DecoderInv, EncodersPackets, [DecoderNext]_decoderVars
  PROVE  RestoredOnly'
<1>1. [Next]_vars /\ TypeOK /\ TypeOK'
  <2>1. OnceInv'
    BY StepKeepsParts
  <2> QED
    BY <2>1, DecoderStep DEF DecoderInv, OnceInv, IInv
<1>2. shown \subseteq shown'
  BY DEF DecoderNext, Run, Transmit, Intrude, Duplicate, Lose, Restart,
     Arrives, Decode, PassOn, Assemble, TakeLine, Crash, SendChunk,
     DispatchChunk, Deliver, decoderVars, restartVars, garbageVars
<1>3. ASSUME NEW c, Accounted(c)
      PROVE  Accounted(c)'
  <2>1. CASE c \in shown
    BY <1>2, <2>1 DEF Accounted
  <2>2. CASE c \in Chunks /\ Restorable(c)
    <3>1. Restorable(c)'
      BY <1>1, <2>2, StillRestorable
    <3> QED
      BY <2>2, <3>1 DEF Accounted
  <2> QED
    BY <1>3, <2>1, <2>2 DEF Accounted
<1>4. /\ restored \in Nat /\ restored <= Len(pushed) /\ Len(pushed) \in Nat
      /\ offered \in [Offerable -> Nat]
      /\ restoring # 0 => restoring \in Offerable /\ Accounted(restoring)
      /\ \A c \in Offerable : offered[c] > 0 => Accounted(c)
  BY <1>1 DEF DecoderInv, RestoredOnly, TypeOK, Dispatcher!OnceInv,
     Dispatcher!IInv, Dispatcher!TypeOK
<1>5. ASSUME NEW c, c # 0 => c \in Offerable /\ Accounted(c)'
      PROVE  restoring' = c =>
               (restoring' # 0 =>
                  restoring' \in Offerable /\ Accounted(restoring)')
  BY <1>5 DEF Accounted, Restorable, ArrivedParts
<1>6. ASSUME UNCHANGED <<restoring, offered>>, restored' <= Len(pushed')
      PROVE  RestoredOnly'
  <2>1. \A c \in Offerable : offered'[c] > 0 => Accounted(c)'
    BY <1>3, <1>4, <1>6
  <2>2. restoring # 0 => restoring \in Offerable /\ Accounted(restoring)
    BY <1>4
  <2>3. PICK c : c = restoring
    OBVIOUS
  <2>4. c # 0 => c \in Offerable /\ Accounted(c)
    BY <2>2, <2>3 DEF Accounted, Restorable, ArrivedParts
  <2>5. c # 0 => c \in Offerable /\ Accounted(c)'
    BY <1>3, <2>4
  <2>6. restoring' # 0 => restoring' \in Offerable /\ Accounted(restoring)'
    BY <1>5, <1>6, <2>3, <2>5
  <2> QED
    BY <1>6, <2>1, <2>6 DEF RestoredOnly
<1>7. CASE Transmit \/ Intrude \/ Duplicate \/ Lose \/ Restart \/ Decode
           \/ Crash \/ UNCHANGED decoderVars
  <2>1. UNCHANGED <<restoring, offered, pushed>>
    BY <1>7 DEF Transmit, Intrude, Duplicate, Lose, Restart, Decode, Crash,
       Restore, Arrives, decoderVars, vars, dispatcherVars
  <2>2. restored' <= Len(pushed')
    <3>1. CASE Crash
      BY <1>4, <2>1, <3>1 DEF Crash, Restore
    <3>2. CASE restored' = restored
      BY <1>4, <2>1, <3>2
    <3> QED
      BY <1>7, <3>1, <3>2 DEF Transmit, Intrude, Duplicate, Lose, Restart,
         Decode, Arrives, decoderVars, vars
  <2> QED
    BY <1>6, <2>1, <2>2
<1>8. CASE PassOn
  BY <1>4, <1>6, <1>8 DEF PassOn, Arrive, dispatcherVars
<1>9. CASE DispatchChunk \/ Deliver
  BY <1>4, <1>6, <1>9 DEF DispatchChunk, Deliver, vars,
     Dispatcher!Dispatch, Dispatcher!DropDetached, Dispatcher!Hold,
     Dispatcher!Collide, Dispatcher!Match, Dispatcher!Evict,
     Dispatcher!Deliver, Dispatcher!Drain, Dispatcher!Send,
     Dispatcher!Accept, Dispatcher!Receive, Dispatcher!Consume
<1>10. CASE Assemble
  <2>1. Assembly /\ UNCHANGED <<restoring, offered>>
    BY <1>10 DEF Assemble, dispatcherVars
  <2>2. restored' = restored
    BY <2>1 DEF Assembly, Drop, Join, Open, Replace, Admit, Receive, Push
  <2>3. CASE Push
    <3>1. Len(pushed') = Len(pushed) + 1
      BY <2>3, PushFacts, EncoderKeepsRange DEF DecoderInv, OrderInv
    <3> QED
      BY <1>4, <1>6, <2>1, <2>2, <3>1
  <2>4. CASE pushed' = pushed
    BY <1>4, <1>6, <2>1, <2>2, <2>4
  <2> QED
    BY <1>1, <2>3, <2>4, PushedGrows
<1>11. CASE SendChunk
  <2>1. PICK c : c = restoring
    OBVIOUS
  <2>2. /\ c \in Offerable /\ Accounted(c) /\ restoring' = 0
        /\ offered' = [offered EXCEPT ![c] = @ + 1]
        /\ UNCHANGED <<restored, pushed>>
    BY <1>4, <1>11, <2>1 DEF SendChunk, Dispatcher!Offer, vars, Accounted,
       Restorable, ArrivedParts
  <2>3. \A d \in Offerable : offered'[d] > 0 => Accounted(d)
    BY <1>4, <2>2
  <2>4. \A d \in Offerable : offered'[d] > 0 => Accounted(d)'
    BY <1>3, <2>3
  <2> QED
    BY <1>4, <2>2, <2>4 DEF RestoredOnly
<1>12. CASE TakeLine
  <2>1. /\ restored' <= Len(pushed) /\ pushed' = pushed /\ offered' = offered
        /\ UNCHANGED arrived
    BY <1>4, <1>12, HeadersAccounted DEF TakeLine, Restore, dispatcherVars
  <2>2. PICK c : c = restoring'
    OBVIOUS
  <2>3. c # 0 =>
          /\ c \in Offerable
          /\ c \in shown' \/ (c \in Chunks /\ Restorable(c))
    BY <1>12, <2>2, HeadersAccounted DEF Restorable, ArrivedParts
  <2>4. c # 0 => c \in Offerable /\ Accounted(c)'
    BY <1>1, <2>1, <2>3 DEF Accounted, Restorable, ArrivedParts
  <2>5. restoring' # 0 => restoring' \in Offerable /\ Accounted(restoring)'
    BY <1>5, <2>2, <2>4
  <2>6. \A c1 \in Offerable : offered'[c1] > 0 => Accounted(c1)'
    BY <1>3, <1>4, <2>1
  <2> QED
    BY <2>1, <2>5, <2>6 DEF RestoredOnly
<1> QED
  BY <1>7, <1>8, <1>9, <1>10, <1>11, <1>12 DEF DecoderNext, Run

LEMMA StepKeepsDecoder ==
  ASSUME DecoderInv, EncodersPackets, [DecoderNext]_decoderVars
  PROVE  DecoderInv'
<1>1. OnceInv' /\ OrderInv' /\ Dispatcher!OnceInv'
  BY StepKeepsParts
<1>2. FirstRun'
  BY StepKeepsFirstRun DEF DecoderInv
<1> QED
  BY <1>1, <1>2, StepKeepsWire, StepKeepsRestored DEF DecoderInv

LEMMA InitOrder == Init => OrderInv
<1> SUFFICES ASSUME Init PROVE OrderInv
  OBVIOUS
<1>1. IInv /\ HeldArrived
  BY InitOnceInv DEF OnceInv
<1>2. PushedLines = {} /\ PushedCsn = {}
  BY DEF Init, PushedLines, PushedCsn
<1> QED
  BY <1>1, <1>2 DEF Init, OrderInv, CursorBehind, LinesBehind,
     PushesAheadOfCursor, AscendingPushes

LEMMA InitDecoder ==
  ASSUME DecoderInit, EncodersPackets
  PROVE  DecoderInv
<1>1. OnceInv /\ OrderInv
  BY InitOnceInv, InitOrder DEF DecoderInit
<1>2. Dispatcher!OnceInv
  BY OrderingInit, SameOnceInv DEF DecoderInit
<1>3. FromTheWire
  BY SentSize DEF DecoderInit, FromTheWire
<1>4. RestoredOnly
  <2>1. restored = 0 /\ pushed = << >> /\ restoring = 0
    BY DEF DecoderInit, Init
  <2>2. \A c \in Offerable : offered[c] = 0
    BY DEF DecoderInit, Dispatcher!Init
  <2> QED
    BY <2>1, <2>2 DEF RestoredOnly
<1>5. FirstRun
  BY DEF DecoderInit, FirstRun
<1> QED
  BY <1>1, <1>2, <1>3, <1>4, <1>5 DEF DecoderInv

(* The invariants of assembler and dispatcher hold in the decoder, what is *)
(* on its way came from the wire, and what is offered to the dispatcher    *)
(* can be restored or, once the encoder was restarted, has a csn that was  *)
(* read from a garbled header (decoder.go:196-214, chunk.go:85).           *)
THEOREM DecoderInvariance == EncodersPackets /\ DecoderSpec => []DecoderInv
<1> SUFFICES ASSUME EncodersPackets PROVE DecoderSpec => []DecoderInv
  OBVIOUS
<1>1. DecoderInit => DecoderInv
  BY InitDecoder
<1>2. DecoderInv /\ [DecoderNext]_decoderVars => DecoderInv'
  BY StepKeepsDecoder
<1> QED
  BY <1>1, <1>2, PTL DEF DecoderSpec

(* Whatever the network loses, doubles or brings in and whenever the       *)
(* encoder is restarted, the client is handed a chunk only if at least     *)
(* Data different packets with its csn reached the assembler, or if the    *)
(* csn was read from a header garbled by packets of two runs.              *)
THEOREM DeliversOnlyRestorable ==
  EncodersPackets /\ DecoderSpec => []DeliveredWereRestorable
<1>1. DecoderInv => DeliveredWereRestorable
  <2> SUFFICES ASSUME DecoderInv, NEW c \in Dispatcher!SentOut
               PROVE  \/ c \in Chunks /\ Cardinality(ArrivedParts(c)) >= Data
                      \/ restarts > 0 /\ c \in shown
    BY DEF DeliveredWereRestorable
  <2>1. c \in accepted
    BY DEF DecoderInv, Dispatcher!OnceInv, Dispatcher!OnlyAccepted
  <2>2. c \in Offerable /\ offered[c] > 0
    BY <2>1 DEF DecoderInv, Dispatcher!OnceInv, Dispatcher!OnlyOffered,
       Dispatcher!IInv, Dispatcher!TypeOK
  <2>3. Accounted(c)
    BY <2>2 DEF DecoderInv, RestoredOnly
  <2>4. c \in shown => restarts > 0
    BY DEF DecoderInv, FirstRun
  <2> QED
    BY <2>3, <2>4 DEF Accounted, Restorable
<1> QED
  BY <1>1, DecoderInvariance, PTL

(* The decoder's assembly goroutine is the assembler and its dispatch      *)
(* goroutine the dispatcher: every behaviour of the decoder, with faults   *)
(* and restarts, is one of each specification, and what holds of them      *)
(* whatever they are fed holds here.                                       *)
THEOREM ImplementsAssembler == EncodersPackets /\ DecoderSpec => Spec
<1> SUFFICES ASSUME EncodersPackets PROVE DecoderSpec => Spec
  OBVIOUS
<1>1. DecoderInit => Init
  BY DEF DecoderInit
<1>2. DecoderInv /\ [DecoderNext]_decoderVars
        => [Next]_vars
  BY DecoderStep
<1> QED
  BY <1>1, <1>2, DecoderInvariance, PTL DEF DecoderSpec, Spec

THEOREM ImplementsDispatcher ==
  EncodersPackets /\ DecoderSpec => Dispatcher!Spec
<1> SUFFICES ASSUME EncodersPackets PROVE DecoderSpec => Dispatcher!Spec
  OBVIOUS
<1>1. DecoderInit => Dispatcher!Init
  BY DEF DecoderInit
<1>2. DecoderInv /\ [DecoderNext]_decoderVars
        => [Dispatcher!Next]_(Dispatcher!vars)
  BY DecoderStep DEF dispatcherVars, Dispatcher!vars
<1> QED
  BY <1>1, <1>2, DecoderInvariance, PTL DEF DecoderSpec, Dispatcher!Spec

-----------------------------------------------------------------------------
(* As long as nothing is doubled and the encoder is not restarted, every   *)
(* packet comes once, and without restarts every chunk is offered as often *)
(* as it was pushed.                                                       *)

LEMMA PacketKinds ==
  ASSUME EncodersPackets
  PROVE  Nil \notin Packets /\ Stray \notin Packets /\ Stray # Nil
<1>1. Total \in Nat \ {0}
  BY Sizes
<1>2. Nil.csn \notin Chunks
  BY DEF Nil, Chunks
<1>3. Stray.csn \notin Chunks /\ Stray.psn # Nil.psn
  BY <1>1 DEF Stray, Chunks, Nil
<1> QED
  BY <1>2, <1>3 DEF EncodersPackets

(* What is on the wire stays there, and the packet sent next is not.       *)
LEMMA WireGrows ==
  ASSUME sent \in Nat, sent' \in {sent, sent + 1}, NEW p, OnTheWire(p)
  PROVE  \E n \in 0 .. sent' - 1 : p = Wire!OnWire(n)
<1>1. PICK n \in 0 .. sent - 1 : p = Wire!OnWire(n)
  BY DEF OnTheWire
<1>2. ASSUME NEW k \in {sent, sent + 1} PROVE n \in 0 .. k - 1
  OBVIOUS
<1>3. n \in 0 .. sent' - 1
  BY <1>2
<1> QED
  BY <1>1, <1>3

LEMMA NextIsNew ==
  ASSUME sent \in Nat
  PROVE  ~ OnTheWire(Wire!OnWire(sent))
<1> SUFFICES ASSUME NEW n \in 0 .. sent - 1,
                    Wire!OnWire(sent) = Wire!OnWire(n)
             PROVE  FALSE
  BY DEF OnTheWire
<1>1. n \in Nat /\ n < sent
  OBVIOUS
<1>2. n = sent
  BY <1>1, WireOnce
<1> QED
  BY <1>1, <1>2

LEMMA StepKeepsPacketsOnce ==
  ASSUME DecoderInv, EncodersPackets, PacketsOnce,
         [DecoderNext]_decoderVars, ~ Duplicate, ~ Restart
  PROVE  PacketsOnce'
<1> DEFINE queue == argumentQueue
           Sent(p) == \E n \in 0 .. sent' - 1 : p = Wire!OnWire(n)
<1>1. /\ sent \in Nat /\ sent' \in Nat
      /\ queue \in Seq(Packets \cup {Stray}) /\ Len(queue) \in Nat
      /\ decoded \in Packets \cup {Nil}
      /\ arrived \in [Packets -> Nat]
  BY StepKeepsWire, SentSize DEF DecoderInv, FromTheWire, OnceInv, IInv, TypeOK
<1>2. Nil \notin Packets /\ Stray \notin Packets
  BY PacketKinds
<1>3. /\ \A p \in Packets : arrived[p] <= 1
      /\ \A p \in Packets : arrived[p] > 0 => OnTheWire(p)
      /\ decoded # Nil => OnTheWire(decoded) /\ arrived[decoded] = 0
      /\ \A i \in 1 .. Len(queue) : queue[i] # Stray =>
           /\ OnTheWire(queue[i]) /\ arrived[queue[i]] = 0
           /\ queue[i] # decoded
           /\ \A j \in 1 .. Len(queue) : queue[i] = queue[j] => i = j
  BY DEF PacketsOnce, NoCopies
<1>4. ASSUME sent' = sent
      PROVE  \A p : OnTheWire(p) => Sent(p)
  BY <1>1, <1>4, WireGrows
<1>5. CASE UNCHANGED <<sent, arrived, decoded, argumentQueue>>
  BY <1>3, <1>4, <1>5 DEF PacketsOnce, NoCopies, OnTheWire
<1>6. CASE Lose
  <2>1. sent' = sent + 1 /\ UNCHANGED <<arrived, decoded, argumentQueue>>
    BY <1>6 DEF Lose, vars, decodeVars
  <2>2. \A p : OnTheWire(p) => Sent(p)
    BY <1>1, <2>1, WireGrows
  <2> QED
    BY <1>3, <2>1, <2>2 DEF PacketsOnce, NoCopies, OnTheWire
<1>7. ASSUME NEW p \in Packets \cup {Stray}, Arrives(p)
      PROVE  /\ queue' \in Seq(Packets \cup {Stray})
             /\ Len(queue') = Len(queue) + 1
             /\ \A i \in 1 .. Len(queue) : queue'[i] = queue[i]
             /\ queue'[Len(queue) + 1] = p
             /\ UNCHANGED <<arrived, decoded>>
  BY <1>1, <1>7 DEF Arrives, vars
<1>8. CASE Intrude
  <2>1. Arrives(Stray) /\ sent' = sent
    BY <1>8 DEF Intrude
  <2>2. /\ Len(queue') = Len(queue) + 1
        /\ \A i \in 1 .. Len(queue) : queue'[i] = queue[i]
        /\ queue'[Len(queue) + 1] = Stray
        /\ UNCHANGED <<arrived, decoded>>
    BY <1>7, <2>1
  <2>3. \A i \in 1 .. Len(queue') : queue'[i] # Stray =>
          i \in 1 .. Len(queue) /\ queue'[i] = queue[i]
    BY <1>1, <2>2
  <2>4. \A i \in 1 .. Len(queue') : queue'[i] # Stray =>
          /\ Sent(queue'[i]) /\ arrived[queue'[i]] = 0
          /\ queue'[i] # decoded
          /\ \A j \in 1 .. Len(queue') : queue'[i] = queue'[j] => i = j
    BY <1>3, <1>4, <2>1, <2>3
  <2> QED
    BY <1>3, <1>4, <2>1, <2>2, <2>4 DEF PacketsOnce, NoCopies, OnTheWire
<1>9. CASE Transmit
  <2> DEFINE q == Wire!OnWire(sent)
  <2>1. Arrives(q) /\ sent' = sent + 1 /\ sent \in 0 .. PacketsSent - 1
    BY <1>1, SentSize, <1>9 DEF Transmit
  <2>2. q \in Packets
    BY <2>1, WireInRange DEF EncodersPackets
  <2>3. ~ OnTheWire(q)
    BY <1>1, NextIsNew
  <2>4. Sent(q)
    <3>1. sent \in 0 .. sent' - 1
      BY <1>1, <2>1
    <3> QED
      BY <3>1
  <2>5. \A p : OnTheWire(p) => Sent(p)
    BY <1>1, <2>1, WireGrows
  <2> HIDE DEF q
  <2>6. /\ Len(queue') = Len(queue) + 1
        /\ \A i \in 1 .. Len(queue) : queue'[i] = queue[i]
        /\ queue'[Len(queue) + 1] = q
        /\ UNCHANGED <<arrived, decoded>>
    BY <1>7, <2>1, <2>2
  <2>7. arrived[q] = 0 /\ q # decoded /\ q # Stray
    BY <1>1, <1>2, <1>3, <2>2, <2>3
  <2>8. \A i \in 1 .. Len(queue) : queue[i] # q
    BY <1>3, <2>3, <2>7
  <2>9. \A i \in 1 .. Len(queue') :
          \/ i \in 1 .. Len(queue) /\ queue'[i] = queue[i]
          \/ i = Len(queue) + 1 /\ queue'[i] = q
    BY <1>1, <2>6
  <2>10. ASSUME NEW i \in 1 .. Len(queue'), queue'[i] # Stray
         PROVE  /\ Sent(queue'[i]) /\ arrived[queue'[i]] = 0
                /\ queue'[i] # decoded
                /\ \A j \in 1 .. Len(queue') : queue'[i] = queue'[j] => i = j
    <3>1. CASE i = Len(queue) + 1
      BY <2>4, <2>6, <2>7, <2>8, <2>9, <3>1
    <3>2. CASE i \in 1 .. Len(queue)
      <4>1. queue'[i] = queue[i]
        BY <2>6, <3>2
      <4> QED
        BY <1>3, <2>5, <2>8, <2>9, <2>10, <3>2, <4>1
    <3> QED
      BY <2>9, <3>1, <3>2
  <2> QED
    BY <1>3, <2>5, <2>6, <2>10 DEF PacketsOnce, NoCopies, OnTheWire
<1>10. CASE Decode
  <2> DEFINE h == Head(queue)
  <2>1. /\ decoded = Nil /\ queue # << >> /\ queue' = Tail(queue)
        /\ decoded' = IF h = Stray THEN Nil ELSE h
        /\ UNCHANGED <<sent, arrived>>
    BY <1>10 DEF Decode, vars, networkVars
  <2>2. /\ Len(queue) >= 1 /\ h = queue[1] /\ Len(queue') = Len(queue) - 1
        /\ \A i \in 1 .. Len(queue') : i + 1 \in 1 .. Len(queue)
                                         /\ queue'[i] = queue[i + 1]
    BY <1>1, <2>1, EmptySeq
  <2> HIDE DEF h
  <2>3. h \in Packets \cup {Stray}
    BY <1>1, <2>2
  <2>4. decoded' # Nil =>
          /\ decoded' = queue[1] /\ queue[1] # Stray
          /\ Sent(decoded') /\ arrived[decoded'] = 0
    BY <1>1, <1>3, <1>4, <2>1, <2>2
  <2>5. ASSUME NEW i \in 1 .. Len(queue'), queue'[i] # Stray
        PROVE  /\ Sent(queue'[i]) /\ arrived[queue'[i]] = 0
               /\ queue'[i] # decoded'
               /\ \A j \in 1 .. Len(queue') : queue'[i] = queue'[j] => i = j
    <3>1. i + 1 \in 1 .. Len(queue) /\ queue'[i] = queue[i + 1]
      BY <2>2
    <3>2. /\ Sent(queue'[i]) /\ arrived[queue'[i]] = 0
          /\ queue'[i] \in Packets
      BY <1>1, <1>3, <1>4, <2>1, <2>5, <3>1
    <3>3. queue'[i] # decoded'
      <4>1. queue[i + 1] # queue[1]
        BY <1>1, <1>3, <2>2, <2>5, <3>1
      <4> QED
        BY <1>2, <2>4, <3>1, <3>2, <4>1
    <3>4. ASSUME NEW j \in 1 .. Len(queue'), queue'[i] = queue'[j]
          PROVE  i = j
      <4>1. j + 1 \in 1 .. Len(queue) /\ queue'[j] = queue[j + 1]
        BY <2>2
      <4>2. i + 1 = j + 1
        BY <1>3, <2>5, <3>1, <3>4, <4>1
      <4> QED
        BY <4>2
    <3> QED
      BY <3>2, <3>3, <3>4
  <2> QED
    BY <1>3, <1>4, <2>1, <2>4, <2>5 DEF PacketsOnce, NoCopies, OnTheWire
<1>11. CASE PassOn
  <2>1. /\ decoded \in Packets /\ decoded' = Nil
        /\ arrived' = [arrived EXCEPT ![decoded] = @ + 1]
        /\ UNCHANGED <<sent, argumentQueue>>
    BY <1>1, <1>11 DEF PassOn, Arrive, networkVars
  <2>2. /\ OnTheWire(decoded) /\ arrived'[decoded] = 1
        /\ \A p \in Packets \ {decoded} : arrived'[p] = arrived[p]
    BY <1>1, <1>2, <1>3, <2>1
  <2>3. \A p \in Packets :
          arrived'[p] <= 1 /\ (arrived'[p] > 0 => Sent(p))
    BY <1>3, <1>4, <2>1, <2>2
  <2>4. ASSUME NEW i \in 1 .. Len(queue'), queue'[i] # Stray
        PROVE  /\ Sent(queue'[i]) /\ arrived'[queue'[i]] = 0
               /\ queue'[i] # decoded'
               /\ \A j \in 1 .. Len(queue') : queue'[i] = queue'[j] => i = j
    <3>1. i \in 1 .. Len(queue) /\ queue' = queue
      BY <2>1, <2>4
    <3>2. queue[i] \in Packets /\ queue[i] # decoded
      BY <1>1, <1>3, <2>4, <3>1
    <3> QED
      BY <1>2, <1>3, <1>4, <2>1, <2>2, <2>4, <3>1, <3>2
  <2> QED
    BY <1>4, <2>1, <2>3, <2>4 DEF PacketsOnce, NoCopies, OnTheWire
<1>12. CASE Assemble
  BY <1>5, <1>12 DEF Assemble, Assembly, Drop, Join, Open, Replace, Admit,
     Receive, Push, networkVars, decodeVars
<1>13. CASE TakeLine \/ Crash \/ SendChunk \/ DispatchChunk \/ Deliver
            \/ UNCHANGED decoderVars
  BY <1>5, <1>13 DEF TakeLine, Crash, Restore, SendChunk, DispatchChunk,
     Deliver, networkVars, decodeVars, vars, decoderVars
<1> QED
  BY <1>6, <1>8, <1>9, <1>10, <1>11, <1>12, <1>13 DEF DecoderNext, Run

(* A chunk that is offered was restored from a line before, and from two   *)
(* lines if it is offered twice.                                           *)
LEMMA StepKeepsOffered ==
  ASSUME DecoderInv, EncodersPackets, restarts = 0, OfferedAsPushed,
         [DecoderNext]_decoderVars
  PROVE  OfferedAsPushed'
<1>1. /\ restored \in Nat /\ restored <= Len(pushed) /\ Len(pushed) \in Nat
      /\ offered \in [Offerable -> Nat]
      /\ OnceInv /\ IInv /\ TypeOK
      /\ mixed = {} /\ shown = {}
  BY DEF DecoderInv, OnceInv, IInv, TypeOK, RestoredOnly, FirstRun,
     Dispatcher!OnceInv, Dispatcher!IInv, Dispatcher!TypeOK
<1>2. /\ \A c \in Chunks :
           /\ offered[c] > 0 =>
                \E i \in 1 .. restored :
                  c \in ChunksIn(pushed[i]) /\ (i = restored => restoring = 0)
           /\ offered[c] > 1 =>
                \E i \in 1 .. restored : \E j \in 1 .. i - 1 :
                  c \in ChunksIn(pushed[i]) /\ c \in ChunksIn(pushed[j])
      /\ restoring # 0 =>
           restored >= 1 /\ restoring \in ChunksIn(pushed[restored])
  BY DEF OfferedAsPushed
<1>3. ASSUME UNCHANGED <<restored, restoring, offered>>,
             \A i \in 1 .. Len(pushed) : pushed'[i] = pushed[i]
      PROVE  OfferedAsPushed'
  <2>1. \A i \in 1 .. restored : pushed'[i] = pushed[i]
    BY <1>1, <1>3
  <2>2. \A i \in 1 .. restored : \A j \in 1 .. i - 1 : pushed'[j] = pushed[j]
    BY <1>1, <1>3
  <2>3. ASSUME NEW c \in Chunks, offered[c] > 0
        PROVE  \E i \in 1 .. restored :
                 c \in ChunksIn(pushed'[i]) /\ (i = restored => restoring = 0)
    BY <1>2, <2>1, <2>3
  <2>4. ASSUME NEW c \in Chunks, offered[c] > 1
        PROVE  \E i \in 1 .. restored : \E j \in 1 .. i - 1 :
                 c \in ChunksIn(pushed'[i]) /\ c \in ChunksIn(pushed'[j])
    BY <1>2, <2>1, <2>2, <2>4
  <2>5. restoring # 0 =>
          restored >= 1 /\ restoring \in ChunksIn(pushed'[restored])
    BY <1>1, <1>2, <2>1
  <2> QED
    BY <1>3, <2>3, <2>4, <2>5 DEF OfferedAsPushed, ChunksIn, Shards
<1>4. CASE Transmit \/ Intrude \/ Duplicate \/ Lose \/ Restart \/ Decode
           \/ UNCHANGED decoderVars
  BY <1>3, <1>4 DEF Transmit, Intrude, Duplicate, Lose, Restart, Decode,
     Arrives, decoderVars, vars, dispatcherVars
<1>5. CASE PassOn
  BY <1>3, <1>5 DEF PassOn, Arrive, dispatcherVars
<1>6. CASE DispatchChunk \/ Deliver
  BY <1>3, <1>6 DEF DispatchChunk, Deliver, vars,
     Dispatcher!Dispatch, Dispatcher!DropDetached, Dispatcher!Hold,
     Dispatcher!Collide, Dispatcher!Match, Dispatcher!Evict,
     Dispatcher!Deliver, Dispatcher!Drain, Dispatcher!Send,
     Dispatcher!Accept, Dispatcher!Receive, Dispatcher!Consume
<1>7. CASE Assemble
  <2>1. Assembly /\ UNCHANGED <<restoring, offered>>
    BY <1>7 DEF Assemble, dispatcherVars
  <2>2. restored' = restored
    BY <2>1 DEF Assembly, Drop, Join, Open, Replace, Admit, Receive, Push
  <2>3. \A i \in 1 .. Len(pushed) : pushed'[i] = pushed[i]
    <3>1. CASE Push
      BY <1>1, <3>1, PushFacts, EncoderKeepsRange
    <3>2. CASE pushed' = pushed
      BY <3>2
    <3>3. [Next]_vars
      BY <2>1 DEF Next
    <3> QED
      BY <1>1, <3>1, <3>2, <3>3, PushedGrows
  <2> QED
    BY <1>3, <2>1, <2>2, <2>3
<1>8. CASE SendChunk
  <2> DEFINE c == restoring
  <2>1. /\ c # 0 /\ restoring' = 0
        /\ offered' = [offered EXCEPT ![c] = @ + 1]
        /\ UNCHANGED <<restored, pushed>>
    BY <1>8 DEF SendChunk, Dispatcher!Offer, vars
  <2>2. /\ c \in Offerable
        /\ restored \in 1 .. restored /\ c \in ChunksIn(pushed[restored])
    BY <1>1, <1>2, <2>1 DEF DecoderInv, RestoredOnly
  <2>3. ASSUME NEW d \in Chunks
        PROVE  /\ offered'[d] > 0 =>
                    \E i \in 1 .. restored : d \in ChunksIn(pushed[i])
               /\ offered'[d] > 1 =>
                    \E i \in 1 .. restored : \E j \in 1 .. i - 1 :
                      d \in ChunksIn(pushed[i]) /\ d \in ChunksIn(pushed[j])
    <3>1. CASE d = c
      <4>1. offered'[d] = offered[d] + 1 /\ offered[d] \in Nat
        BY <1>1, <2>1, <2>2, <3>1
      <4>2. ASSUME offered'[d] > 1
            PROVE  \E j \in 1 .. restored - 1 : d \in ChunksIn(pushed[j])
        <5>1. offered[d] > 0
          BY <4>1, <4>2
        <5>2. PICK j \in 1 .. restored :
                d \in ChunksIn(pushed[j]) /\ (j = restored => restoring = 0)
          BY <1>2, <5>1
        <5>3. j \in 1 .. restored - 1
          BY <1>1, <2>1, <5>2
        <5> QED
          BY <5>2, <5>3
      <4> QED
        BY <2>2, <3>1, <4>2
    <3>2. CASE d # c
      <4>1. offered'[d] = offered[d]
        BY <1>1, <2>1, <3>2 DEF Offerable
      <4> QED
        BY <1>2, <4>1
    <3> QED
      BY <3>1, <3>2
  <2> QED
    BY <2>1, <2>3 DEF OfferedAsPushed, ChunksIn, Shards
<1>9. CASE TakeLine
  <2>1. /\ restored' = restored + 1 /\ pushed' = pushed /\ offered' = offered
    BY <1>9 DEF TakeLine, Restore, dispatcherVars
  <2>2. shown' = {}
    BY <1>1, <1>9 DEF TakeLine, Garbled
  <2>3. restoring' # 0 =>
          restored' >= 1 /\ restoring' \in ChunksIn(pushed'[restored'])
    BY <1>1, <1>9, <2>1, <2>2, HeadersAccounted
  <2>4. 1 .. restored \subseteq 1 .. restored' /\ restored' \notin 1 .. restored
    BY <1>1, <2>1
  <2>5. \A c \in Chunks :
          /\ offered'[c] > 0 =>
               \E i \in 1 .. restored' :
                 c \in ChunksIn(pushed[i]) /\ (i = restored' => restoring' = 0)
          /\ offered'[c] > 1 =>
               \E i \in 1 .. restored' : \E j \in 1 .. i - 1 :
                 c \in ChunksIn(pushed[i]) /\ c \in ChunksIn(pushed[j])
    BY <1>2, <2>1, <2>4
  <2> QED
    BY <2>1, <2>3, <2>5 DEF OfferedAsPushed, ChunksIn, Shards
<1>10. CASE Crash
  BY <1>1, <1>10 DEF Crash, Garbled
<1> QED
  BY <1>4, <1>5, <1>6, <1>7, <1>8, <1>9, <1>10 DEF DecoderNext, Run

LEMMA NextKeepsDecoderOnce ==
  ASSUME DecoderOnceInv, EncodersPackets, [DecoderNext]_decoderVars
  PROVE  DecoderOnceInv'
<1>1. DecoderInv'
  BY StepKeepsDecoder DEF DecoderOnceInv
<1>2. /\ duplicates' \in Nat
      /\ duplicates' = duplicates + 1 \/ duplicates' = duplicates
      /\ restarts' = restarts + 1 \/ restarts' = restarts
      /\ Duplicate => duplicates' = duplicates + 1
      /\ Restart => restarts' = restarts + 1
      /\ duplicates \in Nat /\ restarts \in Nat
  BY DEF DecoderOnceInv, DecoderInv, FirstRun, DecoderNext, Run, Transmit,
     Intrude, Duplicate, Lose, Restart, Arrives, Decode, PassOn, Assemble,
     TakeLine, Crash, SendChunk, DispatchChunk, Deliver, decoderVars,
     networkVars, restartVars
<1>3. ASSUME Single'
      PROVE  Single /\ ~ Duplicate /\ ~ Restart
  <2>1. duplicates' = 0 /\ restarts' = 0
    BY <1>3 DEF Single
  <2> QED
    BY <1>2, <2>1 DEF Single
<1>4. ASSUME Single'
      PROVE  PacketsOnce'
  <2>1. PacketsOnce /\ DecoderInv
    BY <1>3, <1>4 DEF DecoderOnceInv
  <2> QED
    BY <1>3, <1>4, <2>1, StepKeepsPacketsOnce
<1>5. ASSUME restarts' = 0
      PROVE  OfferedAsPushed'
  <2>1. restarts = 0
    BY <1>2, <1>5
  <2> QED
    BY <2>1, StepKeepsOffered DEF DecoderOnceInv
<1> QED
  BY <1>1, <1>2, <1>4, <1>5 DEF DecoderOnceInv

LEMMA InitDecoderOnce ==
  ASSUME DecoderInit, EncodersPackets
  PROVE  DecoderOnceInv
<1>1. DecoderInv
  BY InitDecoder
<1>2. PacketsOnce
  <2>1. \A p \in Packets : arrived[p] = 0
    BY DEF DecoderInit, Init
  <2>2. decoded = Nil /\ argumentQueue = << >>
    BY DEF DecoderInit
  <2> QED
    BY <2>1, <2>2 DEF PacketsOnce, NoCopies
<1>3. OfferedAsPushed
  <2>1. (\A c \in Chunks : ~ offered[c] > 0 /\ ~ offered[c] > 1)
          /\ restoring = 0
    BY DEF DecoderInit, Dispatcher!Init, Offerable
  <2>2. ~ restoring # 0
    BY <2>1
  <2> QED
    BY <2>1, <2>2 DEF OfferedAsPushed
<1>4. duplicates = 0 /\ restarts = 0
  BY DEF DecoderInit
<1> QED
  BY <1>1, <1>2, <1>3, <1>4 DEF DecoderOnceInv

(* As long as the encoder is not restarted, no chunk is delivered twice,   *)
(* whatever is lost or strays in and however far the assembler's cursor    *)
(* (decoder.go:294) and the dispatcher's (decoder.go:130) go back, if      *)
(* Total < 2 * Data and no packet was doubled; and for every Total and     *)
(* whatever is doubled, unless a chunk older than one that was pushed is   *)
(* still missing.                                                          *)
THEOREM DeliversEachOnce == EncodersPackets /\ DecoderSpec => []DeliveredOnce
<1> SUFFICES ASSUME EncodersPackets
             PROVE  DecoderSpec => []DeliveredOnce
  OBVIOUS
<1>1. DecoderInit => DecoderOnceInv
  BY InitDecoderOnce
<1>2. DecoderOnceInv /\ [DecoderNext]_decoderVars => DecoderOnceInv'
  BY NextKeepsDecoderOnce
<1>3. DecoderOnceInv => DeliveredOnce
  <2> SUFFICES ASSUME DecoderOnceInv, restarts = 0,
                      ~ \A i, j \in 1 .. Len(delivered) :
                          delivered[i] = delivered[j] => i = j
               PROVE  /\ duplicates > 0 \/ Total >= 2 * Data
                      /\ \E c \in PushedCsn :
                           \E g \in 1 .. c - 1 : Unfinished(g)
    BY DEF DeliveredOnce
  <2>1. DecoderInv /\ OfferedAsPushed /\ duplicates \in Nat
    BY DEF DecoderOnceInv
  <2>2. PICK c \in Offerable : ~ offered[c] <= 1
    <3>1. ~ Dispatcher!OfferedOnce
      BY <2>1 DEF DecoderInv, Dispatcher!OnceInv, Dispatcher!EachOnce
    <3> QED
      BY <3>1 DEF Dispatcher!OfferedOnce
  <2>3. offered[c] > 1 /\ c \in Chunks
    <3>1. offered[c] \in Nat
      BY <2>1 DEF DecoderInv, Dispatcher!OnceInv, Dispatcher!IInv,
         Dispatcher!TypeOK
    <3>2. offered[c] > 1
      BY <2>2, <3>1
    <3>3. Accounted(c) /\ shown = {}
      BY <2>1, <3>1, <3>2 DEF DecoderInv, RestoredOnly, FirstRun
    <3> QED
      BY <3>2, <3>3 DEF Accounted
  <2>4. PICK i \in 1 .. restored : \E j \in 1 .. i - 1 :
          c \in ChunksIn(pushed[i]) /\ c \in ChunksIn(pushed[j])
    BY <2>1, <2>3 DEF OfferedAsPushed
  <2>5. PICK j \in 1 .. i - 1 :
          c \in ChunksIn(pushed[i]) /\ c \in ChunksIn(pushed[j])
    BY <2>4
  <2>6. i \in 1 .. Len(pushed) /\ j \in 1 .. Len(pushed) /\ j < i
    <3>1. restored \in Nat /\ Len(pushed) \in Nat /\ restored <= Len(pushed)
      BY <2>1 DEF DecoderInv, OnceInv, IInv, TypeOK, RestoredOnly
    <3> QED
      BY <3>1
  <2>7. \E g \in 1 .. c - 1 : Unfinished(g)
    <3>1. AscendingPushes
      BY <2>1 DEF DecoderInv, OrderInv
    <3>2. c < c \/ \E g \in 1 .. c - 1 : Unfinished(g)
      BY <2>5, <2>6, <3>1 DEF AscendingPushes
    <3> QED
      BY <2>3, <3>2 DEF Chunks
  <2>8. c \in PushedCsn
    BY <2>5, <2>6 DEF PushedCsn, PushedLines
  <2>9. duplicates > 0 \/ Total >= 2 * Data
    <3> SUFFICES ASSUME duplicates = 0, Total < 2 * Data PROVE FALSE
      BY <2>1, Sizes
    <3>1. NoCopies /\ OnceInv
      BY <2>1 DEF DecoderOnceInv, Single, PacketsOnce, DecoderInv
    <3>2. PushedOnce
      BY <3>1, TooFewForTwo, EncoderKeepsRange
    <3>3. c \in ChunksIn(pushed[i]) \cap ChunksIn(pushed[j])
      BY <2>5
    <3>4. i = j
      BY <2>6, <3>2, <3>3 DEF PushedOnce
    <3> QED
      BY <2>6, <3>4
  <2> QED
    BY <2>7, <2>8, <2>9
<1> QED
  BY <1>1, <1>2, <1>3, PTL DEF DecoderSpec

-----------------------------------------------------------------------------
(* The packets of two runs of the encoder in the table. *)

LEMMA StoredCollected == IInv => \A p \in Stored : p.csn \in Collected
<1> SUFFICES ASSUME IInv, NEW p \in Stored PROVE p.csn \in Collected
  OBVIOUS
<1>1. PICK line \in LineNumbers, i \in Parts :
        found[line] # 0 /\ p = [csn |-> csn[line], psn |-> i]
  BY StoredIs
<1>2. p.csn = csn[line]
  BY <1>1
<1> QED
  BY <1>1, <1>2 DEF Collected

LEMMA ReceiveStores ==
  ASSUME IInv, PartsInRange, NEW p \in Packets,
         Drop(p) \/ Join(p) \/ Open(p) \/ Replace(p)
  PROVE  /\ Stored' \subseteq Stored \cup {p}
         /\ p = Head(assemblyQueue) /\ assemblyQueue' # assemblyQueue
<1>1. Receive(p) /\ TypeOK
  BY DEF Drop, Join, Open, Replace, Admit, IInv
<1>2. assemblyQueue' # assemblyQueue
  <2>1. /\ Len(assemblyQueue) \in Nat
        /\ Len(assemblyQueue') = Len(assemblyQueue) - 1
    BY <1>1, ReceiveFacts
  <2> QED
    BY <2>1
<1>3. ASSUME Drop(p) PROVE Stored' \subseteq Stored \cup {p}
  BY <1>3 DEF Drop, state, Stored
<1>4. ASSUME Join(p) \/ Open(p) \/ Replace(p)
      PROVE  Stored' \subseteq Stored \cup {p}
  <2>1. PICK table \in [Places -> Valid \cup {Nil}] :
          /\ \A at \in Places : table[at] \in {Nil, packets[at]}
          /\ packets' = [table EXCEPT ![AtPacket(p)] = p]
    BY <1>4, StoreIs
  <2>2. \A at \in Places : packets'[at] \in {p, Nil, packets[at]}
    BY <2>1
  <2> QED
    BY <2>2 DEF Stored
<1>5. Stored' \subseteq Stored \cup {p}
  BY <1>3, <1>4
<1> QED
  BY <1>1, <1>2, <1>5 DEF Receive

LEMMA PushTakes ==
  ASSUME IInv, PartsInRange, Push
  PROVE  /\ Stored' \subseteq Stored /\ assemblyQueue' = assemblyQueue
         /\ PacketsIn(pushed'[Len(pushed')]) \subseteq Stored
         /\ \A p, q \in PacketsIn(pushed'[Len(pushed')]) : p.csn = q.csn
<1> DEFINE line == Copy(packet.csn)
<1>1. /\ pushed'[Len(pushed')] = line
      /\ AtChunk(packet.csn) \in LineNumbers
      /\ \A i \in Parts : line[i] = packets[Place(AtChunk(packet.csn), i)]
      /\ \A i \in Shards(line) : line[i] = [csn |-> packet.csn, psn |-> i]
  <2>1. /\ Len(pushed') = Len(pushed) + 1
        /\ pushed'[Len(pushed) + 1] = line
    BY PushFacts
  <2> QED
    BY <2>1, PushFacts
<1>2. Stored' \subseteq Stored
  BY DEF Push, Stored, Cleared
<1> HIDE DEF line
<1>3. PacketsIn(line) \subseteq Stored
  <2> SUFFICES ASSUME NEW i \in Shards(line) PROVE line[i] \in Stored
    BY DEF PacketsIn
  <2>1. i \in Parts /\ line[i] # Nil
    BY DEF Shards
  <2>2. Place(AtChunk(packet.csn), i) \in Places
    BY <1>1, <2>1, PlaceType
  <2> QED
    BY <1>1, <2>1, <2>2 DEF Stored
<1>4. \A p \in PacketsIn(line) : p.csn = packet.csn
  <2> SUFFICES ASSUME NEW i \in Shards(line) PROVE line[i].csn = packet.csn
    BY DEF PacketsIn
  <2>1. line[i] = [csn |-> packet.csn, psn |-> i]
    BY <1>1
  <2> QED
    BY <2>1
<1> QED
  BY <1>1, <1>2, <1>3, <1>4 DEF Push

LEMMA StepKeepsOrigin ==
  ASSUME DecoderInv, EncodersPackets, OriginInv, [DecoderNext]_decoderVars
  PROVE  OriginInv'
<1>1. IInv /\ IInv' /\ PartsInRange
  <2>1. OnceInv'
    BY StepKeepsParts
  <2> QED
    BY <2>1, EncoderKeepsRange DEF DecoderInv, OnceInv
<1>2. /\ late \in Nat /\ restarts \in Nat
      /\ restarts = 0 => late = 0 /\ outdated = {} /\ mixed = {}
      /\ late > 0 => Stored \subseteq outdated /\ mixed = {}
      /\ late = 0 => \A p \in Stored \cap outdated : p.csn \in inProgress
      /\ \A i \in mixed :
           i \in 1 .. Len(pushed) /\ ChunksIn(pushed[i]) \subseteq inProgress
  BY DEF OriginInv, DecoderInv, FirstRun
<1>3. ASSUME UNCHANGED <<packets, pushed, late, outdated, inProgress, mixed>>
      PROVE  OriginInv'
  BY <1>2, <1>3 DEF OriginInv, Stored, ChunksIn, Shards
<1>4. CASE Transmit \/ Intrude \/ Duplicate \/ Lose \/ Decode \/ PassOn
           \/ UNCHANGED decoderVars
  BY <1>3, <1>4 DEF Transmit, Intrude, Duplicate, Lose, Decode, PassOn, Arrive,
     Arrives, decoderVars, vars, state, restartVars, originVars
<1>5. CASE TakeLine \/ Crash \/ SendChunk \/ DispatchChunk \/ Deliver
  BY <1>3, <1>5 DEF TakeLine, Crash, Restore, SendChunk, DispatchChunk,
     Deliver, vars, state, restartVars, originVars
<1>6. CASE Restart
  <2>1. restarts = 0
    BY <1>2, <1>6, DecoderAssumption DEF Restart
  <2>2. /\ late' = Underway /\ outdated' = Stored /\ inProgress' = Collected
        /\ mixed' = {} /\ packets' = packets
    BY <1>2, <1>6, <2>1 DEF Restart, vars
  <2>3. Underway \in Nat
    <3>1. Len(argumentQueue) \in Nat /\ Len(assemblyQueue) \in Nat
      BY <1>1 DEF DecoderInv, FromTheWire, IInv, TypeOK
    <3>2. IsFiniteSet(1 .. Len(argumentQueue))
      BY <3>1, FS_Interval
    <3> DEFINE ours == {i \in 1 .. Len(argumentQueue) :
                          argumentQueue[i] # Stray}
    <3>3. IsFiniteSet(ours)
      BY <3>2, FS_Subset
    <3>4. Cardinality(ours) \in Nat
      BY <3>3, FS_CardinalityType
    <3> QED
      BY <3>1, <3>4 DEF Underway
  <2>4. Stored' = Stored /\ \A p \in Stored : p.csn \in Collected
    BY <1>1, <2>2, StoredCollected DEF Stored
  <2> QED
    BY <2>1, <2>2, <2>3, <2>4 DEF OriginInv
<1>7. \A p \in Stored' : p.csn \in Collected'
  <2>1. (IInv => \A p \in Stored : p.csn \in Collected)'
    BY StoredCollected, PTL
  <2> QED
    BY <1>1, <2>1
<1>8. CASE Assemble
  <2>1. Assembly /\ NoteOrigin
    BY <1>8 DEF Assemble
  <2>2. CASE Push
    <3> DEFINE line == PacketsIn(pushed'[Len(pushed')])
    <3>1. /\ Stored' \subseteq Stored /\ line \subseteq Stored
          /\ \A p, q \in line : p.csn = q.csn
          /\ assemblyQueue' = assemblyQueue
      BY <1>1, <2>2, PushTakes
    <3>2. /\ UNCHANGED <<late, outdated, inProgress>>
          /\ mixed' = IF line \cap outdated # {} /\ ~ line \subseteq outdated
                        THEN mixed \cup {Len(pushed')} ELSE mixed
      BY <2>1, <3>1 DEF NoteOrigin
    <3>3. ChunksIn(pushed'[Len(pushed')]) = {p.csn : p \in line}
      BY DEF ChunksIn, PacketsIn
    <3>4. /\ Len(pushed) \in Nat /\ Len(pushed') = Len(pushed) + 1
          /\ \A i \in 1 .. Len(pushed) : pushed'[i] = pushed[i]
      BY <1>1, <2>2, PushFacts DEF IInv, TypeOK
    <3>5. \A i \in mixed :
            /\ i \in 1 .. Len(pushed')
            /\ ChunksIn(pushed'[i]) \subseteq inProgress
      <4> SUFFICES ASSUME NEW i \in mixed
                   PROVE  /\ i \in 1 .. Len(pushed')
                          /\ ChunksIn(pushed'[i]) \subseteq inProgress
        OBVIOUS
      <4>1. /\ i \in 1 .. Len(pushed)
            /\ ChunksIn(pushed[i]) \subseteq inProgress
        BY <1>2
      <4> QED
        BY <3>4, <4>1
    <3> HIDE DEF line
    <3>6. CASE mixed' = mixed
      <4>1. \A i \in mixed :
              /\ i \in 1 .. Len(pushed')
              /\ ChunksIn(pushed[i])' \subseteq inProgress
        BY <3>5 DEF ChunksIn, Shards
      <4> QED
        BY <1>2, <3>1, <3>2, <3>6, <4>1 DEF OriginInv
    <3>7. CASE mixed' # mixed
      <4>1. /\ line \cap outdated # {} /\ ~ line \subseteq outdated
            /\ mixed' = mixed \cup {Len(pushed')}
        BY <3>2, <3>7
      <4>2. late = 0 /\ restarts # 0
        BY <1>2, <3>1, <4>1
      <4>3. PICK p \in line : p \in outdated
        BY <4>1
      <4>4. p.csn \in inProgress
        BY <1>2, <3>1, <4>2, <4>3
      <4>5. ChunksIn(pushed'[Len(pushed')]) \subseteq inProgress
        BY <3>1, <3>3, <4>4
      <4>6. \A i \in mixed' :
              /\ i \in 1 .. Len(pushed')
              /\ ChunksIn(pushed'[i]) \subseteq inProgress
        BY <3>4, <3>5, <4>1, <4>5
      <4>7. \A i \in mixed' :
              /\ i \in 1 .. Len(pushed')
              /\ ChunksIn(pushed[i])' \subseteq inProgress
        BY <4>6 DEF ChunksIn, Shards
      <4> QED
        BY <1>2, <3>1, <3>2, <4>2, <4>7 DEF OriginInv
    <3> QED
      BY <3>6, <3>7
  <2>3. ASSUME NEW p \in Packets,
               Drop(p) \/ Join(p) \/ Open(p) \/ Replace(p)
        PROVE  OriginInv'
    <3> DEFINE dropped == Invalid(p) \/ Detached(p)
    <3>1. /\ Stored' \subseteq IF dropped THEN Stored ELSE Stored \cup {p}
          /\ p = Head(assemblyQueue) /\ assemblyQueue' # assemblyQueue
          /\ pushed' = pushed
      <4>1. /\ Stored' \subseteq Stored \cup {p}
            /\ p = Head(assemblyQueue) /\ assemblyQueue' # assemblyQueue
        BY <1>1, <2>3, ReceiveStores
      <4>2. pushed' = pushed /\ (dropped => Drop(p))
        BY <2>3 DEF Drop, Join, Open, Replace, Admit, Receive
      <4>3. Drop(p) => Stored' = Stored
        BY DEF Drop, state, Stored
      <4> QED
        BY <4>1, <4>2, <4>3
    <3>2. /\ late' = IF late = 0 THEN 0 ELSE late - 1
          /\ outdated' = IF dropped THEN outdated
                         ELSE IF late = 0 THEN outdated \ {p}
                         ELSE outdated \cup {p}
          /\ inProgress' = IF late = 1 THEN Collected' ELSE inProgress
          /\ mixed' = mixed
      BY <2>1, <3>1 DEF NoteOrigin
    <3> HIDE DEF dropped
    <3>3. (\A i \in mixed :
             /\ i \in 1 .. Len(pushed)
             /\ ChunksIn(pushed[i]) \subseteq inProgress)
          => \A i \in mixed' :
               /\ i \in 1 .. Len(pushed')
               /\ ChunksIn(pushed[i])' \subseteq inProgress
      BY <3>1, <3>2 DEF ChunksIn, Shards
    <3>4. CASE late = 0
      <4>1. \A q \in Stored' \cap outdated' : q.csn \in inProgress
        BY <1>2, <3>1, <3>2, <3>4
      <4> QED
        BY <1>2, <3>2, <3>4, <3>3, <4>1 DEF OriginInv
    <3>5. CASE late # 0
      <4>1. late > 0 /\ mixed = {} /\ late' \in Nat
        BY <1>2, <3>2, <3>5
      <4>2. Stored' \subseteq outdated'
        BY <1>2, <3>1, <3>2, <4>1
      <4>3. late' = 0 => \A q \in Stored' : q.csn \in inProgress'
        <5>1. \A q \in Stored' : q.csn \in Collected'
          BY <1>7
        <5>2. late' = 0 => inProgress' = Collected'
          BY <1>2, <3>2, <4>1
        <5> QED
          BY <5>1, <5>2
      <4> QED
        BY <3>2, <4>1, <4>2, <4>3 DEF OriginInv
    <3> QED
      BY <3>4, <3>5
  <2> QED
    BY <2>1, <2>2, <2>3 DEF Assembly
<1> QED
  BY <1>4, <1>5, <1>6, <1>8 DEF DecoderNext, Run

(* Packets of two runs of the encoder end up in one line only for a chunk  *)
(* that was in the table when the first packet of the new run came in      *)
(* (decoder.go:261).                                                       *)
THEOREM MixesOnlyInProgress ==
  EncodersPackets /\ DecoderSpec => []MixedInProgress
<1> SUFFICES ASSUME EncodersPackets PROVE DecoderSpec => []MixedInProgress
  OBVIOUS
<1>1. DecoderInit => OriginInv
  BY DEF DecoderInit, Init, OriginInv
<1>2. DecoderInv /\ OriginInv /\ [DecoderNext]_decoderVars => OriginInv'
  BY StepKeepsOrigin
<1>3. OriginInv => MixedInProgress
  BY DEF OriginInv, MixedInProgress
<1> QED
  BY <1>1, <1>2, <1>3, DecoderInvariance, PTL DEF DecoderSpec

-----------------------------------------------------------------------------
(* The client around the decoder.  Its steps are the decoder's, but for    *)
(* the ends of assembly and dispatch, and its own.                         *)

(* What ListenerFollows rests on.  The port is sent what the decoder       *)
(* delivered, each chunk in its turn and none twice (HandsOn); where the   *)
(* application wrote from is sent the same from some chunk on, one chunk   *)
(* later at most (Follows).                                                *)

Pending == IF senderPc = "caller" /\ inHand # 0 THEN 1 ELSE 0

HandsOn ==
  /\ consumed <= Len(delivered)
  /\ Len(toCaller) + Pending = consumed
  /\ \A i \in 1 .. Len(toCaller) : toCaller[i] = delivered[i]
  /\ Pending = 1 => inHand = delivered[consumed]

Ahead == IF senderPc = "listener" /\ inHand # 0 THEN 1 ELSE 0

Follows ==
  /\ Len(toListener) + Ahead <= Len(toCaller)
  /\ \A i \in 1 .. Len(toListener) :
       toListener[i] = toCaller[Len(toCaller) - Ahead - Len(toListener) + i]
  /\ Ahead = 1 => toCaller[Len(toCaller)] = inHand
  /\ ~ addressKnown => toListener = << >> /\ senderPc # "listener"

SenderInv ==
  /\ senderPc \in {"select", "caller", "listener"}
  /\ inHand \in Offerable \cup {0}
  /\ toCaller \in Seq(Offerable) /\ toListener \in Seq(Offerable)
  /\ HandsOn
  /\ Follows

LEMMA InboundStep ==
  ASSUME ~ crashed, [InboundNext]_inboundVars
  PROVE  [DecoderNext]_decoderVars \/ ReturnAssembly \/ ReturnDispatch
<1>1. CASE UNCHANGED inboundVars
  BY <1>1 DEF inboundVars
<1>2. CASE ReadPacket \/ Work
  BY <1>2 DEF ReadPacket, Work, DecodePacket, AssemblePacket, RestoreChunk,
     Order, Send, TakeResult, TakeNil, WriteCaller, WriteListener, FailWrite,
     DecoderNext, Run
<1>3. CASE Accept \/ Cancel \/ Panic
  BY <1>3 DEF Accept, Cancel, Panic
<1>4. CASE End
  BY <1>4 DEF End, CloseSockets, CloseChannel, Return
<1> QED
  BY <1>1, <1>2, <1>3, <1>4 DEF InboundNext

LEMMA ReturnKeepsDecoder ==
  ASSUME DecoderInv, EncodersPackets, ReturnAssembly \/ ReturnDispatch
  PROVE  DecoderInv'
<1>1. /\ UNCHANGED <<assemblyQueue, pushed, restored, arrived, networkVars,
                     decodeVars, restoring, restartVars, offered>>
      /\ [Next]_vars /\ [Dispatcher!Next]_dispatcherVars
  <2>1. CASE ReturnAssembly
    BY <2>1 DEF ReturnAssembly, Stop, Next, dispatcherVars
  <2>2. CASE ReturnDispatch
    BY <2>2 DEF ReturnDispatch, vars, Dispatcher!Stop, Dispatcher!Next
  <2> QED
    BY <2>1, <2>2
<1>2. OnceInv' /\ OrderInv' /\ Dispatcher!OnceInv'
  BY <1>1, PartsKeep
<1>3. FromTheWire'
  BY <1>1 DEF DecoderInv, FromTheWire, networkVars, decodeVars
<1>4. RestoredOnly' /\ FirstRun'
  BY <1>1 DEF DecoderInv, RestoredOnly, Accounted, Restorable, ArrivedParts,
     FirstRun, restartVars, originVars, garbageVars
<1> QED
  BY <1>2, <1>3, <1>4 DEF DecoderInv

LEMMA InboundKeepsDecoder ==
  ASSUME DecoderInv, ~ crashed, EncodersPackets, [InboundNext]_inboundVars
  PROVE  DecoderInv'
<1>1. CASE [DecoderNext]_decoderVars
  BY <1>1, StepKeepsDecoder
<1>2. CASE ReturnAssembly \/ ReturnDispatch
  BY <1>2, ReturnKeepsDecoder
<1> QED
  BY <1>1, <1>2, InboundStep

(* Nothing is mixed where nothing is restarted. *)
LEMMA NothingCrashes ==
  ASSUME [InboundNext]_inboundVars
  PROVE  crashed' = crashed
BY DEF InboundNext, inboundVars, decoderVars, restartVars, garbageVars,
   ReadPacket, Transmit, Arrives, Work, DecodePacket, Decode, PassOn,
   AssemblePacket, Assemble, RestoreChunk, TakeLine, SendChunk, Order,
   DispatchChunk, Send, TakeResult, Deliver, TakeNil, WriteCaller,
   WriteListener, FailWrite, Accept, Cancel, Panic, End, CloseSockets,
   CloseChannel, Return, ReturnAssembly, ReturnDispatch

(* What dispatch delivered stays, and only the client takes from it. *)
LEMMA DeliveredGrows ==
  ASSUME DecoderInv, ~ crashed, EncodersPackets, [InboundNext]_inboundVars
  PROVE  /\ Len(delivered) \in Nat /\ Len(delivered') \in Nat
         /\ Len(delivered) <= Len(delivered')
         /\ \A i \in 1 .. Len(delivered) :
              delivered[i] \in Offerable /\ delivered'[i] = delivered[i]
         /\ TakeResult \/ consumed' = consumed
<1>1. [Dispatcher!Next]_dispatcherVars
  BY InboundStep, DecoderStep DEF ReturnAssembly, ReturnDispatch,
     Dispatcher!Next
<1>2. /\ delivered \in Seq(Offerable) /\ chunk \in Offerable \cup {0}
      /\ delivered' \in Seq(Offerable)
  <2>1. DecoderInv'
    BY InboundKeepsDecoder
  <2>2. Offerable \ {0} = Offerable
    BY OrderingConstants
  <2> QED
    BY <2>1, <2>2 DEF DecoderInv, Dispatcher!OnceInv, Dispatcher!IInv,
       Dispatcher!TypeOK, Dispatcher!Empty
<1>3. delivered' = delivered \/ \E c : delivered' = Append(delivered, c)
  BY <1>1 DEF Dispatcher!Next, Dispatcher!Offer, Dispatcher!Consume,
     Dispatcher!Dispatch, Dispatcher!DropDetached, Dispatcher!Hold,
     Dispatcher!Collide, Dispatcher!Match, Dispatcher!Evict,
     Dispatcher!Deliver, Dispatcher!Drain, Dispatcher!Send,
     Dispatcher!Accept, Dispatcher!Receive, Dispatcher!Stop, dispatcherVars
<1>4. TakeResult \/ consumed' = consumed
  <2>1. CASE UNCHANGED inboundVars
    BY <2>1 DEF inboundVars, decoderVars, dispatcherVars
  <2>2. CASE ReadPacket
    BY <2>2 DEF ReadPacket, Transmit, Arrives, dispatcherVars
  <2>3. CASE DecodePacket \/ AssemblePacket
    BY <2>3 DEF DecodePacket, AssemblePacket, Decode, PassOn, Assemble,
       dispatcherVars
  <2>4. CASE RestoreChunk
    BY <2>4 DEF RestoreChunk, TakeLine, SendChunk, Dispatcher!Offer,
       dispatcherVars
  <2>5. CASE Order
    BY <2>5 DEF Order, DispatchChunk, Dispatcher!Dispatch,
       Dispatcher!DropDetached, Dispatcher!Hold, Dispatcher!Collide,
       Dispatcher!Match, Dispatcher!Evict, Dispatcher!Deliver,
       Dispatcher!Drain, Dispatcher!Send, Dispatcher!Accept,
       Dispatcher!Receive
  <2>6. CASE Send
    BY <2>6 DEF Send, TakeNil, WriteCaller, WriteListener, FailWrite,
       decoderVars, dispatcherVars
  <2>7. CASE Accept \/ Cancel \/ Panic \/ End
    BY <2>7 DEF Accept, Cancel, Panic, End, CloseSockets, CloseChannel,
       Return, ReturnAssembly, ReturnDispatch, Dispatcher!Stop, decoderVars,
       dispatcherVars
  <2> QED
    BY <2>1, <2>2, <2>3, <2>4, <2>5, <2>6, <2>7 DEF InboundNext, Work
<1>5. /\ Len(delivered) <= Len(delivered')
      /\ \A i \in 1 .. Len(delivered) : delivered'[i] = delivered[i]
  <2>1. ASSUME NEW c, delivered' = Append(delivered, c)
        PROVE  /\ Len(delivered') = Len(delivered) + 1
               /\ \A i \in 1 .. Len(delivered) : delivered'[i] = delivered[i]
    <3>1. delivered \in Seq(Offerable \cup {c})
      BY <1>2
    <3> QED
      BY <2>1, <3>1
  <2>2. Len(delivered) \in Nat
    BY <1>2
  <2> QED
    BY <1>3, <2>1, <2>2
<1> QED
  BY <1>2, <1>4, <1>5

(* The goroutine that sends to the application. *)
LEMMA SenderWaits ==
  ASSUME DecoderInv, ~ crashed, EncodersPackets, SenderInv,
         [InboundNext]_inboundVars,
         consumed' = consumed,
         UNCHANGED <<senderPc, inHand, toCaller, toListener>>,
         addressKnown' = addressKnown \/ (Accept /\ ~ addressKnown)
  PROVE  SenderInv'
<1>1. /\ Len(delivered) <= Len(delivered')
      /\ Len(delivered) \in Nat /\ Len(delivered') \in Nat
      /\ \A i \in 1 .. Len(delivered) : delivered'[i] = delivered[i]
      /\ consumed \in Nat /\ Len(toCaller) \in Nat
      /\ Pending \in {0, 1}
  BY DeliveredGrows DEF SenderInv, DecoderInv, Dispatcher!OnceInv,
     Dispatcher!IInv, Dispatcher!TypeOK, Pending
<1>2. /\ consumed <= Len(delivered)
      /\ Len(toCaller) + Pending = consumed
      /\ \A i \in 1 .. Len(toCaller) : toCaller[i] = delivered[i]
      /\ Pending = 1 => inHand = delivered[consumed]
  BY DEF SenderInv, HandsOn
<1>3. HandsOn'
  <2>1. consumed <= Len(delivered')
    BY <1>1, <1>2
  <2>2. \A i \in 1 .. Len(toCaller) : toCaller[i] = delivered'[i]
    <3> SUFFICES ASSUME NEW i \in 1 .. Len(toCaller)
                 PROVE  toCaller[i] = delivered'[i]
      OBVIOUS
    <3>1. i \in 1 .. Len(delivered)
      BY <1>1, <1>2
    <3> QED
      BY <1>1, <1>2, <3>1
  <2>3. Pending = 1 => inHand = delivered'[consumed]
    <3> SUFFICES ASSUME Pending = 1 PROVE inHand = delivered'[consumed]
      OBVIOUS
    <3>1. consumed \in 1 .. Len(delivered)
      BY <1>1, <1>2
    <3> QED
      BY <1>1, <1>2, <3>1
  <2>4. Pending' = Pending
    BY DEF Pending
  <2> QED
    BY <1>2, <2>1, <2>2, <2>3, <2>4 DEF HandsOn
<1>4. Follows'
  BY DEF SenderInv, Follows, Ahead, Accept
<1> QED
  BY <1>3, <1>4 DEF SenderInv

LEMMA SenderTakes ==
  ASSUME DecoderInv, ~ crashed, EncodersPackets, SenderInv,
         [InboundNext]_inboundVars,
         TakeResult
  PROVE  SenderInv'
<1>1. /\ senderPc = "select" /\ senderPc' = "caller"
      /\ consumed < Len(delivered) /\ consumed' = consumed + 1
      /\ delivered' = delivered /\ inHand' = delivered[consumed + 1]
      /\ UNCHANGED <<toCaller, toListener, addressKnown>>
  BY DEF TakeResult, Deliver, Dispatcher!Consume
<1>2. /\ consumed \in Nat /\ Len(delivered) \in Nat
      /\ consumed + 1 \in 1 .. Len(delivered)
  BY <1>1, DeliveredGrows DEF DecoderInv, Dispatcher!OnceInv,
     Dispatcher!IInv, Dispatcher!TypeOK
<1>3. inHand' \in Offerable /\ inHand' # 0
  <2>1. delivered[consumed + 1] \in Offerable
    BY <1>2, DeliveredGrows
  <2> QED
    BY <1>1, <2>1, OrderingConstants
<1>4. HandsOn'
  <2>1. Pending = 0 /\ Pending' = 1
    BY <1>1, <1>3 DEF Pending
  <2>2. /\ Len(toCaller) + 0 = consumed /\ Len(toCaller) \in Nat
        /\ \A i \in 1 .. Len(toCaller) : toCaller[i] = delivered[i]
    BY <2>1 DEF SenderInv, HandsOn
  <2>3. Len(toCaller) + 1 = consumed + 1 /\ consumed + 1 <= Len(delivered)
    BY <1>2, <2>2
  <2>4. /\ consumed' <= Len(delivered')
        /\ Len(toCaller') + Pending' = consumed'
        /\ \A i \in 1 .. Len(toCaller') : toCaller'[i] = delivered'[i]
        /\ inHand' = delivered'[consumed']
    BY <1>1, <2>1, <2>2, <2>3
  <2> QED
    BY <2>4 DEF HandsOn
<1>5. Follows'
  <2>1. Ahead = 0 /\ Ahead' = 0
    BY <1>1 DEF Ahead
  <2> QED
    BY <1>1, <2>1 DEF SenderInv, Follows
<1> QED
  BY <1>1, <1>3, <1>4, <1>5 DEF SenderInv

LEMMA SenderTakesNil ==
  ASSUME SenderInv, TakeNil
  PROVE  SenderInv'
<1>1. /\ senderPc = "select" /\ senderPc' = "caller" /\ inHand' = 0
      /\ UNCHANGED <<consumed, delivered, toCaller, toListener, addressKnown>>
  BY DEF TakeNil, decoderVars, dispatcherVars
<1>2. Pending = 0 /\ Pending' = 0 /\ Ahead = 0 /\ Ahead' = 0
  BY <1>1 DEF Pending, Ahead
<1> QED
  BY <1>1, <1>2 DEF SenderInv, HandsOn, Follows

LEMMA SenderWrites ==
  ASSUME DecoderInv, SenderInv, WriteCaller
  PROVE  SenderInv'
<1>1. /\ senderPc = "caller"
      /\ toCaller' = Written(toCaller)
      /\ senderPc' = IF addressKnown THEN "listener" ELSE "select"
      /\ inHand' = IF addressKnown THEN inHand ELSE 0
      /\ UNCHANGED <<consumed, delivered, toListener, addressKnown>>
  BY DEF WriteCaller, decoderVars, dispatcherVars
<1>2. /\ inHand \in Offerable \cup {0} /\ toCaller \in Seq(Offerable)
      /\ toListener \in Seq(Offerable)
      /\ Len(toCaller) \in Nat /\ Len(toListener) \in Nat
      /\ consumed \in Nat /\ Len(delivered) \in Nat
  BY DEF SenderInv, DecoderInv, Dispatcher!OnceInv, Dispatcher!IInv,
     Dispatcher!TypeOK
<1>3. /\ consumed <= Len(delivered)
      /\ Len(toCaller) + Pending = consumed
      /\ \A i \in 1 .. Len(toCaller) : toCaller[i] = delivered[i]
      /\ Pending = 1 => inHand = delivered[consumed]
  BY DEF SenderInv, HandsOn
<1>4. /\ Len(toListener) <= Len(toCaller)
      /\ \A i \in 1 .. Len(toListener) :
           toListener[i] = toCaller[Len(toCaller) - Len(toListener) + i]
      /\ ~ addressKnown => toListener = << >>
  <2>1. Ahead = 0
    BY <1>1 DEF Ahead
  <2> QED
    BY <1>2, <2>1 DEF SenderInv, Follows
<1>5. Pending' = 0
  BY <1>1 DEF Pending
<1>6. CASE inHand = 0
  <2>1. toCaller' = toCaller /\ inHand' = 0
    BY <1>1, <1>6 DEF Written
  <2>2. Pending = 0 /\ Ahead' = 0
    BY <1>6, <2>1 DEF Pending, Ahead
  <2>3. HandsOn'
    BY <1>1, <1>3, <1>5, <2>1, <2>2 DEF HandsOn
  <2>4. Follows'
    BY <1>1, <1>2, <1>4, <2>1, <2>2 DEF Follows
  <2> QED
    BY <1>1, <1>2, <2>1, <2>3, <2>4 DEF SenderInv
<1>7. CASE inHand # 0
  <2>1. Pending = 1
    BY <1>1, <1>7 DEF Pending
  <2>2. /\ toCaller' = Append(toCaller, inHand) /\ inHand \in Offerable
        /\ toCaller' \in Seq(Offerable) /\ Len(toCaller') = Len(toCaller) + 1
        /\ \A i \in 1 .. Len(toCaller) : toCaller'[i] = toCaller[i]
        /\ toCaller'[Len(toCaller) + 1] = inHand
    BY <1>1, <1>2, <1>7 DEF Written
  <2>3. HandsOn'
    <3>1. \A i \in 1 .. Len(toCaller') :
            i \in 1 .. Len(toCaller) \/ i = Len(toCaller) + 1
      BY <1>2, <2>2
    <3>2. consumed = Len(toCaller) + 1
      BY <1>3, <2>1
    <3>3. \A i \in 1 .. Len(toCaller') : toCaller'[i] = delivered[i]
      BY <1>3, <2>1, <2>2, <3>1, <3>2
    <3>4. Len(toCaller') + Pending' = consumed
      BY <1>2, <1>5, <2>2, <3>2
    <3> QED
      BY <1>1, <1>3, <1>5, <3>3, <3>4 DEF HandsOn
  <2>4. CASE addressKnown
    <3>1. Ahead' = 1 /\ inHand' = inHand
      BY <1>1, <1>7, <2>4 DEF Ahead
    <3>2. \A i \in 1 .. Len(toListener) :
            toListener[i] = toCaller'[Len(toCaller') - 1 - Len(toListener) + i]
      <4> SUFFICES ASSUME NEW i \in 1 .. Len(toListener)
                   PROVE  toListener[i] =
                            toCaller'[Len(toCaller') - 1 - Len(toListener) + i]
        OBVIOUS
      <4>1. /\ Len(toCaller') - 1 - Len(toListener) + i
                 = Len(toCaller) - Len(toListener) + i
            /\ Len(toCaller) - Len(toListener) + i \in 1 .. Len(toCaller)
        BY <1>2, <1>4, <2>2
      <4> QED
        BY <1>4, <2>2, <4>1
    <3>3. Len(toListener) + 1 <= Len(toCaller')
      BY <1>2, <1>4, <2>2
    <3>4. Follows'
      BY <1>1, <2>2, <2>4, <3>1, <3>2, <3>3 DEF Follows
    <3> QED
      BY <1>1, <1>2, <2>2, <2>3, <3>1, <3>4 DEF SenderInv
  <2>5. CASE ~ addressKnown
    <3>1. Ahead' = 0 /\ senderPc' = "select" /\ inHand' = 0
      BY <1>1, <2>5 DEF Ahead
    <3>2. toListener' = << >> /\ Len(toListener') = 0
      BY <1>1, <1>4, <2>5
    <3>3. Follows'
      BY <1>1, <1>2, <2>2, <2>5, <3>1, <3>2 DEF Follows
    <3> QED
      BY <1>1, <1>2, <2>2, <2>3, <3>1, <3>3 DEF SenderInv
  <2> QED
    BY <2>4, <2>5
<1> QED
  BY <1>6, <1>7

LEMMA ListenerWrites ==
  ASSUME DecoderInv, SenderInv, WriteListener
  PROVE  SenderInv'
<1>1. /\ senderPc = "listener" /\ senderPc' = "select" /\ inHand' = 0
      /\ toListener' = Written(toListener)
      /\ UNCHANGED <<consumed, delivered, toCaller, addressKnown>>
  BY DEF WriteListener, decoderVars, dispatcherVars
<1>2. /\ inHand \in Offerable \cup {0} /\ toCaller \in Seq(Offerable)
      /\ toListener \in Seq(Offerable)
      /\ Len(toCaller) \in Nat /\ Len(toListener) \in Nat
  BY DEF SenderInv
<1>3. HandsOn'
  <2>1. Pending = 0 /\ Pending' = 0
    BY <1>1 DEF Pending
  <2> QED
    BY <1>1, <2>1 DEF SenderInv, HandsOn
<1>4. /\ Len(toListener) + Ahead <= Len(toCaller)
      /\ \A i \in 1 .. Len(toListener) :
           toListener[i] = toCaller[Len(toCaller) - Ahead - Len(toListener) + i]
      /\ Ahead = 1 => toCaller[Len(toCaller)] = inHand
      /\ addressKnown
  BY <1>1 DEF SenderInv, Follows
<1>5. Ahead' = 0
  BY <1>1 DEF Ahead
<1>6. CASE inHand = 0
  <2>1. toListener' = toListener /\ Ahead = 0
    BY <1>1, <1>6 DEF Written, Ahead
  <2> QED
    BY <1>1, <1>2, <1>3, <1>4, <1>5, <2>1 DEF SenderInv, Follows
<1>7. CASE inHand # 0
  <2>1. Ahead = 1
    BY <1>1, <1>7 DEF Ahead
  <2>2. /\ toListener' = Append(toListener, inHand)
        /\ toListener' \in Seq(Offerable)
        /\ Len(toListener') = Len(toListener) + 1
        /\ \A i \in 1 .. Len(toListener) : toListener'[i] = toListener[i]
        /\ toListener'[Len(toListener) + 1] = inHand
    BY <1>1, <1>2, <1>7 DEF Written
  <2>3. ASSUME NEW i \in 1 .. Len(toListener')
        PROVE  toListener'[i] =
                 toCaller[Len(toCaller) - 0 - Len(toListener') + i]
    <3>1. CASE i = Len(toListener) + 1
      <4>1. Len(toCaller) - 0 - Len(toListener') + i = Len(toCaller)
        BY <1>2, <2>2, <3>1
      <4> QED
        BY <1>4, <2>1, <2>2, <3>1, <4>1
    <3>2. CASE i \in 1 .. Len(toListener)
      <4>1. Len(toCaller) - 0 - Len(toListener') + i
              = Len(toCaller) - 1 - Len(toListener) + i
        BY <1>2, <2>2, <3>2
      <4> QED
        BY <1>4, <2>1, <2>2, <3>2, <4>1
    <3> QED
      BY <1>2, <2>2, <3>1, <3>2
  <2>4. Len(toListener') + 0 <= Len(toCaller)
    BY <1>2, <1>4, <2>1, <2>2
  <2>5. Follows'
    BY <1>1, <1>4, <1>5, <2>3, <2>4 DEF Follows
  <2> QED
    BY <1>1, <1>2, <1>3, <2>2, <2>5 DEF SenderInv
<1> QED
  BY <1>6, <1>7

LEMMA NextKeepsSenderInv ==
  ASSUME DecoderInv, ~ crashed, EncodersPackets, SenderInv,
         [InboundNext]_inboundVars
  PROVE  SenderInv'
<1>1. TakeResult \/ consumed' = consumed
  BY DeliveredGrows
<1>2. CASE TakeResult
  BY <1>2, SenderTakes
<1>3. CASE TakeNil \/ WriteCaller \/ WriteListener
  BY <1>3, SenderTakesNil, SenderWrites, ListenerWrites
<1>4. ASSUME ~ TakeResult, UNCHANGED <<senderVars, addressKnown>>
      PROVE  SenderInv'
  BY <1>1, <1>4, SenderWaits DEF senderVars
<1>5. CASE Accept
  <2>1. /\ ~ addressKnown /\ addressKnown' = TRUE
        /\ UNCHANGED <<senderVars, consumed>>
    BY <1>5 DEF Accept, decoderVars, dispatcherVars
  <2> QED
    BY <1>5, <2>1, SenderWaits DEF senderVars
<1>6. CASE UNCHANGED inboundVars
  BY <1>2, <1>4, <1>6 DEF inboundVars
<1>7. CASE ReadPacket \/ DecodePacket \/ AssemblePacket \/ RestoreChunk
           \/ Order \/ FailWrite \/ Cancel \/ Panic
  BY <1>2, <1>4, <1>7 DEF ReadPacket, DecodePacket, AssemblePacket,
     RestoreChunk, Order, FailWrite, Cancel, Panic
<1>8. CASE End
  BY <1>2, <1>4, <1>8 DEF End, CloseSockets, CloseChannel, Return,
     ReturnAssembly, ReturnDispatch
<1> QED
  BY <1>2, <1>3, <1>5, <1>6, <1>7, <1>8 DEF InboundNext, Work, Send

LEMMA InitInbound ==
  ASSUME InboundInit, EncodersPackets
  PROVE  DecoderInv /\ SenderInv /\ ~ crashed
<1>1. DecoderInv
  BY InitDecoder DEF InboundInit
<1>2. SenderInv
  <2>1. /\ senderPc = "select" /\ inHand = 0 /\ addressKnown = FALSE
        /\ toCaller = << >> /\ toListener = << >>
        /\ consumed = 0 /\ delivered = << >>
    BY DEF InboundInit, DecoderInit, Dispatcher!Init
  <2>2. Pending = 0 /\ Ahead = 0
    BY <2>1 DEF Pending, Ahead
  <2> QED
    BY <2>1, <2>2 DEF SenderInv, HandsOn, Follows
<1>3. ~ crashed
  BY DEF InboundInit, DecoderInit
<1> QED
  BY <1>1, <1>2, <1>3

(* The application is sent what the decoder delivered, at the port each    *)
(* chunk in its turn, where it wrote from one chunk later at most, also    *)
(* while the client ends.                                                  *)
THEOREM SenderInvariance ==
  EncodersPackets /\ InboundSpec => [](DecoderInv /\ SenderInv)
<1> SUFFICES ASSUME EncodersPackets
             PROVE  InboundSpec => [](DecoderInv /\ SenderInv)
  OBVIOUS
<1>1. InboundInit => DecoderInv /\ SenderInv /\ ~ crashed
  BY InitInbound
<1>2. DecoderInv /\ SenderInv /\ ~ crashed /\ [InboundNext]_inboundVars
        => DecoderInv' /\ SenderInv' /\ ~ crashed'
  BY InboundKeepsDecoder, NextKeepsSenderInv, NothingCrashes
<1> QED
  BY <1>1, <1>2, PTL DEF InboundSpec

(* From some chunk on the application is sent every chunk to where it      *)
(* wrote from (client.go:188-195).                                         *)
THEOREM ListenerIsServed ==
  EncodersPackets /\ InboundSpec => []ListenerFollows
<1>1. SenderInv => ListenerFollows
  <2> SUFFICES ASSUME SenderInv, senderPc = "select"
               PROVE  \E start \in 0 .. Len(toCaller) :
                        toListener = SubSeq(toCaller, start + 1, Len(toCaller))
    BY DEF ListenerFollows
  <2> DEFINE start == Len(toCaller) - Len(toListener)
             rest == SubSeq(toCaller, start + 1, Len(toCaller))
  <2>1. /\ toCaller \in Seq(Offerable) /\ toListener \in Seq(Offerable)
        /\ Len(toCaller) \in Nat /\ Len(toListener) \in Nat
    BY DEF SenderInv
  <2>2. /\ Len(toListener) <= Len(toCaller)
        /\ \A i \in 1 .. Len(toListener) :
             toListener[i] = toCaller[start + i]
    <3>1. Ahead = 0
      BY DEF Ahead
    <3> QED
      BY <2>1, <3>1 DEF SenderInv, Follows
  <2>3. start \in 0 .. Len(toCaller)
    BY <2>1, <2>2
  <2>4. /\ rest \in Seq(Offerable) /\ Len(rest) = Len(toListener)
        /\ \A i \in 1 .. Len(toListener) : rest[i] = toCaller[start + i]
    BY <2>1, <2>2, <2>3
  <2>5. toListener = rest
    <3> HIDE DEF start, rest
    <3> QED
      BY <2>1, <2>2, <2>4, SeqEqual
  <2> QED
    BY <2>3, <2>5
<1> QED
  BY <1>1, SenderInvariance, PTL

-----------------------------------------------------------------------------
(* What GaplessStream rests on.  As long as nothing is lost or doubled the *)
(* assembler has taken the first n packets of the wire and the others are  *)
(* under way in order; a chunk is pushed with its packet number Needed, so *)
(* in order, as those packets are on the wire; and dispatch is never given *)
(* a chunk but the awaited one.                                            *)

Position(c, i) ==
  Wire!BlockSize * ((c - 1) \div Depth) + (Depth * i + ((c - 1) % Depth))

(* With one data part the first packet of a chunk does not push it         *)
(* (decoder.go:283-288), the second one does.                              *)
Needed == IF Data = 1 THEN 2 ELSE Data

(* But for stray ones the queue holds the packets from number k up to      *)
(* number s of the wire, in their order.                                   *)
InWireOrder(queue, k, s) ==
  /\ \A i \in 1 .. Len(queue) : queue[i] # Stray =>
       \E at \in k .. s - 1 :
         /\ queue[i] = Wire!OnWire(at)
         /\ \A j \in 1 .. i - 1 : \A later \in at .. s - 1 :
              queue[j] # Wire!OnWire(later)
  /\ \A at \in k .. s - 1 : \E i \in 1 .. Len(queue) :
       queue[i] = Wire!OnWire(at)

UnderwayInOrder(n) ==
  LET m == n + Len(assemblyQueue)
      k == IF decoded = Nil THEN m ELSE m + 1
  IN /\ k <= sent
     /\ \A i \in 1 .. Len(assemblyQueue) :
          assemblyQueue[i] = Wire!OnWire((n + i) - 1)
     /\ decoded # Nil => decoded = Wire!OnWire(m)
     /\ InWireOrder(argumentQueue, k, sent)

AssembledInOrder(n) ==
  /\ pc = "push" => packet.csn = last + 1
  /\ \A c \in Chunks :
       Position(c, Needed - 1) < n <=>
         c <= last \/ (pc = "push" /\ c = packet.csn)
  /\ \A line \in LineNumbers : found[line] # 0 =>
       /\ csn[line] \in Chunks /\ csn[line] > last
       /\ Position(csn[line], 0) < n
  /\ \A c \in Chunks : (c > last /\ Position(c, 0) < n) =>
       /\ csn[AtChunk(c)] = c
       /\ \A i \in Parts : Position(c, i) < n <=> i < found[AtChunk(c)]
  /\ Len(pushed) = last
  /\ \A c \in 1 .. Len(pushed) : ChunksIn(pushed[c]) \subseteq {c}

DispatchedInOrder ==
  LET handed == IF restoring = 0 THEN restored ELSE restored - 1
      t == handed - Len(dispatchQueue)
  IN /\ restoring # 0 => restoring = restored
     /\ \A i \in 1 .. Len(dispatchQueue) : dispatchQueue[i] = t + i
     /\ \A at \in Dispatcher!Slots : chunks[at] = Dispatcher!Empty
     /\ first = t
     /\ \/ dispatchPc = "select" /\ dispatched = t
        \/ dispatchPc = "deliver" /\ dispatched = t - 1 /\ chunk = t
     /\ Len(delivered) = dispatched
     /\ \A i \in 1 .. Len(delivered) : delivered[i] = i

GaplessInv ==
  /\ lost \in Nat /\ duplicates \in Nat /\ restarts \in Nat
  /\ Undisturbed =>
       /\ PacketsOnce
       /\ DispatchedInOrder
       /\ \E n \in 0 .. sent : UnderwayInOrder(n) /\ AssembledInOrder(n)

(* The gapless stream.  Where the packets of a chunk are on the wire: in   *)
(* the block of the chunk, the parts one after another, and each part      *)
(* before that part of a later chunk.                                      *)

LEMMA PositionIs ==
  ASSUME NEW c \in Chunks, NEW i \in Parts
  PROVE  \E b \in Nat, r \in 0 .. Depth - 1 :
           /\ b < Blocks
           /\ c = (Depth * b + r) + 1
           /\ Depth * i + r \in 0 .. Depth * Total - 1
           /\ Position(c, i) = (Depth * Total) * b + (Depth * i + r)
           /\ b = (c - 1) \div Depth /\ r = (c - 1) % Depth
<1> DEFINE b == (c - 1) \div Depth
           r == (c - 1) % Depth
<1>1. /\ Depth \in Nat \ {0} /\ Total \in Nat \ {0} /\ Blocks \in Nat
      /\ Blocks * Depth \in Nat
  BY DecoderAssumption, Sizes
<1>2. c - 1 \in Nat /\ c - 1 < Blocks * Depth /\ c \in Nat
  BY <1>1 DEF Chunks
<1>3. c - 1 = Depth * b + r /\ b \in Nat /\ r \in 0 .. Depth - 1
  BY <1>1, <1>2, DivMod
<1>4. Position(c, i) = (Depth * Total) * b + (Depth * i + r)
  BY DEF Position, Wire!BlockSize
<1>5. b = (c - 1) \div Depth /\ r = (c - 1) % Depth
  OBVIOUS
<1> HIDE DEF b, r
<1>6. b < Blocks
  <2>1. ~ (b >= Blocks)
    <3> SUFFICES ASSUME b >= Blocks PROVE FALSE
      OBVIOUS
    <3>1. Depth * (b - Blocks) >= 0
      BY <1>1, <1>3
    <3>2. Depth * (b - Blocks) = Depth * b - Blocks * Depth
      BY <1>1, <1>3
    <3>3. Depth * b \in Nat
      BY <1>1, <1>3
    <3> QED
      BY <1>1, <1>2, <1>3, <3>1, <3>2, <3>3
  <2> QED
    BY <1>1, <1>3, <2>1
<1>7. Depth * i + r \in 0 .. Depth * Total - 1
  <2>1. i \in Nat /\ i < Total
    BY <1>1 DEF Parts
  <2>2. Depth * Total >= Depth * i + Depth
    BY <1>1, <2>1, MultiplesApart
  <2>3. Depth * i \in Nat /\ Depth * Total \in Nat
    BY <1>1, <2>1
  <2> QED
    BY <1>1, <1>3, <2>2, <2>3
<1> QED
  BY <1>2, <1>3, <1>4, <1>5, <1>6, <1>7

LEMMA OnWireAtPosition ==
  ASSUME NEW c \in Chunks, NEW i \in Parts
  PROVE  /\ Position(c, i) \in 0 .. PacketsSent - 1
         /\ Wire!OnWire(Position(c, i)) = [csn |-> c, psn |-> i]
<1> DEFINE size == Depth * Total
           n == Position(c, i)
<1>1. /\ Depth \in Nat \ {0} /\ Total \in Nat \ {0} /\ Blocks \in Nat
      /\ size \in Nat
  BY DecoderAssumption, Sizes
<1>2. PICK b \in Nat, r \in 0 .. Depth - 1 :
        /\ b < Blocks /\ c = (Depth * b + r) + 1
        /\ Depth * i + r \in 0 .. size - 1
        /\ n = size * b + (Depth * i + r)
  BY PositionIs
<1> HIDE DEF n
<1>3. i \in Nat
  BY DEF Parts
<1>4. n \in 0 .. PacketsSent - 1
  <2>1. PacketsSent = size * Blocks
    BY <1>1 DEF PacketsSent, Wire!BlockSize
  <2> HIDE DEF size
  <2>2. size * Blocks >= size * b + size
    BY <1>1, <1>2, MultiplesApart
  <2>3. size * b \in Nat /\ size * Blocks \in Nat
    BY <1>1, <1>2
  <2> DEFINE at == Depth * i + r
  <2>4. at \in 0 .. size - 1 /\ n = size * b + at
    BY <1>2
  <2> HIDE DEF at
  <2> QED
    BY <1>1, <2>1, <2>2, <2>3, <2>4
<1>5. PICK d \in Nat, s \in 0 .. Depth - 1, q \in Parts :
        /\ n = (Depth * Total) * d + (Depth * q + s)
        /\ Depth * q + s \in 0 .. Depth * Total - 1
        /\ Wire!OnWire(n) = [csn |-> d * Depth + s + 1, psn |-> q]
  <2>1. n \in Nat
    BY <1>4
  <2>2. \E d \in Nat, s \in 0 .. Depth - 1, q \in Parts :
          /\ n = (Depth * Total) * d + (Depth * q + s)
          /\ Depth * q + s \in 0 .. Depth * Total - 1
          /\ d = n \div (Depth * Total)
          /\ Wire!OnWire(n) = [csn |-> d * Depth + s + 1, psn |-> q]
    BY <2>1, WireParts
  <2> QED
    BY <2>2
<1>6. d = b /\ Depth * q + s = Depth * i + r
  <2>1. n = size * d + (Depth * q + s) /\ Depth * q + s \in 0 .. size - 1
    BY <1>5
  <2> HIDE DEF size
  <2> QED
    BY <1>1, <1>2, <2>1, QuotientUnique
<1>7. q = i /\ s = r
  <2>1. q \in Nat
    BY DEF Parts
  <2> QED
    BY <1>1, <1>3, <1>6, <2>1, QuotientUnique
<1>8. d * Depth + s + 1 = c
  <2>1. d * Depth = Depth * b /\ Depth * b \in Nat
    BY <1>1, <1>6
  <2> QED
    BY <1>2, <1>7, <2>1
<1> QED
  BY <1>4, <1>5, <1>7, <1>8 DEF n

LEMMA PositionOf ==
  ASSUME NEW n \in 0 .. PacketsSent - 1,
         NEW c \in Chunks, NEW i \in Parts,
         Wire!OnWire(n) = [csn |-> c, psn |-> i]
  PROVE  Position(c, i) = n
<1>1. Wire!OnWire(Position(c, i)) = Wire!OnWire(n)
  BY OnWireAtPosition
<1>2. Position(c, i) \in Nat /\ n \in Nat
  BY OnWireAtPosition
<1> QED
  BY <1>1, <1>2, WireOnce

LEMMA PartsInOrder ==
  ASSUME NEW c \in Chunks, NEW i \in Parts, NEW j \in Parts, i < j
  PROVE  Position(c, i) < Position(c, j)
<1>1. Depth \in Nat \ {0} /\ i \in Nat /\ j \in Nat /\ Total \in Nat
  BY DecoderAssumption, Sizes DEF Parts
<1> DEFINE base == (Depth * Total) * ((c - 1) \div Depth)
           r == (c - 1) % Depth
<1>2. Position(c, i) = base + (Depth * i + r)
      /\ Position(c, j) = base + (Depth * j + r)
  BY DEF Position, Wire!BlockSize
<1>3. base \in Int /\ r \in Int
  <2>1. PICK b \in Nat, s \in 0 .. Depth - 1 :
          b = (c - 1) \div Depth /\ s = (c - 1) % Depth
    BY PositionIs
  <2>2. (Depth * Total) * b \in Int
    BY <1>1
  <2> QED
    BY <2>1, <2>2
<1> HIDE DEF base, r
<1>4. Depth * j >= Depth * i + Depth /\ Depth * i \in Nat /\ Depth * j \in Nat
  BY <1>1, MultiplesApart
<1> QED
  BY <1>1, <1>2, <1>3, <1>4

LEMMA ChunksInOrder ==
  ASSUME NEW c \in Chunks, NEW d \in Chunks, NEW i \in Parts, c < d
  PROVE  Position(c, i) < Position(d, i)
<1> DEFINE size == Depth * Total
<1>1. Depth \in Nat \ {0} /\ Total \in Nat /\ size \in Nat /\ Depth * i \in Nat
  BY DecoderAssumption, Sizes DEF Parts
<1>2. PICK a \in Nat, r \in 0 .. Depth - 1 :
        /\ c = (Depth * a + r) + 1 /\ Depth * i + r \in 0 .. size - 1
        /\ Position(c, i) = size * a + (Depth * i + r)
  BY PositionIs
<1>3. PICK b \in Nat, s \in 0 .. Depth - 1 :
        /\ d = (Depth * b + s) + 1 /\ Depth * i + s \in 0 .. size - 1
        /\ Position(d, i) = size * b + (Depth * i + s)
  BY PositionIs
<1> HIDE DEF size
<1>4. /\ size * a \in Nat /\ size * b \in Nat
      /\ Depth * a \in Nat /\ Depth * b \in Nat
  BY <1>1
<1> DEFINE off == Depth * i
           pa == size * a
           pb == size * b
           ca == Depth * a
           cb == Depth * b
<1>5. /\ off \in Nat /\ pa \in Nat /\ pb \in Nat /\ ca \in Nat /\ cb \in Nat
      /\ Position(c, i) = pa + (off + r) /\ Position(d, i) = pb + (off + s)
      /\ off + r \in 0 .. size - 1 /\ off + s \in 0 .. size - 1
      /\ c = (ca + r) + 1 /\ d = (cb + s) + 1
  BY <1>1, <1>2, <1>3, <1>4
<1>6. /\ a > b => ca >= cb + Depth
      /\ b > a => pb >= pa + size
      /\ a = b => pa = pb /\ ca = cb
  BY <1>1, MultiplesApart
<1> HIDE DEF off, pa, pb, ca, cb
<1>7. ~ (a > b)
  BY <1>1, <1>5, <1>6
<1>8. CASE b > a
  BY <1>1, <1>5, <1>6, <1>8
<1>9. CASE a = b
  BY <1>1, <1>5, <1>6, <1>9
<1> QED
  BY <1>7, <1>8, <1>9

(* A chunk of which a packet lies between two of another chunk is of the   *)
(* same block, so it has a line of its own.                                *)
LEMMA LinesApart ==
  ASSUME Depth <= Lines, NEW c \in Chunks, NEW d \in Chunks,
         NEW i \in Parts, NEW j \in Parts, NEW k \in Parts,
         Position(d, j) <= Position(c, i), Position(c, i) <= Position(d, k),
         AtChunk(c) = AtChunk(d)
  PROVE  c = d
<1> DEFINE size == Depth * Total
<1>1. Depth \in Nat \ {0} /\ Total \in Nat /\ size \in Nat
  BY DecoderAssumption, Sizes
<1>2. PICK a \in Nat, r \in 0 .. Depth - 1 :
        /\ c = (Depth * a + r) + 1 /\ Depth * i + r \in 0 .. size - 1
        /\ Position(c, i) = size * a + (Depth * i + r)
  BY PositionIs
<1>3. PICK b \in Nat, s \in 0 .. Depth - 1 :
        /\ d = (Depth * b + s) + 1 /\ Depth * j + s \in 0 .. size - 1
        /\ Position(d, j) = size * b + (Depth * j + s)
        /\ b = (d - 1) \div Depth
  BY PositionIs
<1>4. PICK e \in Nat, t \in 0 .. Depth - 1 :
        /\ d = (Depth * e + t) + 1 /\ Depth * k + t \in 0 .. size - 1
        /\ Position(d, k) = size * e + (Depth * k + t)
        /\ e = (d - 1) \div Depth
  BY PositionIs
<1>5. e = b
  BY <1>3, <1>4
<1> DEFINE x == Depth * i + r
           y == Depth * j + s
           z == Depth * k + t
           pa == size * a
           pb == size * b
<1> HIDE DEF size
<1>6. /\ x \in 0 .. size - 1 /\ y \in 0 .. size - 1 /\ z \in 0 .. size - 1
      /\ Position(c, i) = pa + x /\ Position(d, j) = pb + y
      /\ Position(d, k) = pb + z
      /\ pa \in Nat /\ pb \in Nat
      /\ a > b => pa >= pb + size
      /\ b > a => pb >= pa + size
  BY <1>1, <1>2, <1>3, <1>4, <1>5, MultiplesApart
<1>7. a = b
  <2> HIDE DEF x, y, z, pa, pb
  <2>1. ~ (a > b) /\ ~ (b > a)
    BY <1>1, <1>6
  <2> QED
    BY <2>1
<1>8. c - d < Lines /\ d - c < Lines
  <2> DEFINE base == Depth * a
  <2>1. base \in Nat /\ c = (base + r) + 1 /\ d = (base + s) + 1
    BY <1>1, <1>2, <1>3, <1>7
  <2> HIDE DEF base
  <2> QED
    BY <1>1, <2>1, LinesAssumption
<1>9. c \in Nat /\ d \in Nat
  BY DEF Chunks
<1> QED
  BY <1>8, <1>9, LinesAssumption, RemainderTellsApart DEF AtChunk

(* Queues in the order of the wire. *)

LEMMA OnWireIsNoStray ==
  ASSUME NEW at \in Nat
  PROVE  Wire!OnWire(at) # Stray
<1>1. PICK b \in Nat, r \in 0 .. Depth - 1, q \in Parts :
        /\ at = (Depth * Total) * b + (Depth * q + r)
        /\ Depth * q + r \in 0 .. Depth * Total - 1
        /\ b = at \div (Depth * Total)
        /\ Wire!OnWire(at) = [csn |-> b * Depth + r + 1, psn |-> q]
  BY WireParts
<1>2. q # Total
  BY Sizes DEF Parts
<1> QED
  BY <1>1, <1>2 DEF Stray

LEMMA NextInOrder ==
  ASSUME NEW T, NEW queue \in Seq(T), NEW k \in Nat, NEW s \in Nat, k <= s,
         InWireOrder(queue, k, s), Wire!OnWire(s) \in T
  PROVE  InWireOrder(Append(queue, Wire!OnWire(s)), k, s + 1)
<1> DEFINE p == Wire!OnWire(s)
           longer == Append(queue, p)
           size == Len(queue)
<1>1. /\ size \in Nat /\ Len(longer) = size + 1 /\ longer[size + 1] = p
      /\ \A i \in 1 .. size : longer[i] = queue[i]
  OBVIOUS
<1>2. p # Stray
  BY OnWireIsNoStray
<1>3. \A at \in k .. s - 1 : Wire!OnWire(at) # p
  <2> SUFFICES ASSUME NEW at \in k .. s - 1, Wire!OnWire(at) = p PROVE FALSE
    OBVIOUS
  <2>1. at \in Nat /\ at # s
    OBVIOUS
  <2> QED
    BY <2>1, WireOnce
<1>4. \A i \in 1 .. size : queue[i] # Stray =>
        \E at \in k .. s - 1 :
          /\ queue[i] = Wire!OnWire(at)
          /\ \A j \in 1 .. i - 1 : \A later \in at .. s - 1 :
               queue[j] # Wire!OnWire(later)
  BY DEF InWireOrder
<1>5. \A i \in 1 .. size : queue[i] # p
  BY <1>2, <1>3, <1>4
<1>6. \A at \in k .. s - 1 : \E i \in 1 .. size : queue[i] = Wire!OnWire(at)
  BY DEF InWireOrder
<1>7. p = Wire!OnWire(s)
  OBVIOUS
<1> HIDE DEF longer, size, p
<1>8. ASSUME NEW i \in 1 .. Len(longer), longer[i] # Stray
      PROVE  \E at \in k .. (s + 1) - 1 :
               /\ longer[i] = Wire!OnWire(at)
               /\ \A j \in 1 .. i - 1 : \A later \in at .. (s + 1) - 1 :
                    longer[j] # Wire!OnWire(later)
  <2>1. CASE i = size + 1
    <3>1. longer[i] = Wire!OnWire(s) /\ s \in k .. (s + 1) - 1
      BY <1>1, <1>7, <2>1
    <3>2. ASSUME NEW j \in 1 .. i - 1, NEW later \in s .. (s + 1) - 1
          PROVE  longer[j] # Wire!OnWire(later)
      <4>1. later = s /\ j \in 1 .. size
        BY <1>1, <2>1
      <4> QED
        BY <1>1, <1>5, <1>7, <4>1
    <3> QED
      BY <3>1, <3>2
  <2>2. CASE i \in 1 .. size
    <3>1. PICK at \in k .. s - 1 :
            /\ queue[i] = Wire!OnWire(at)
            /\ \A j \in 1 .. i - 1 : \A later \in at .. s - 1 :
                 queue[j] # Wire!OnWire(later)
      BY <1>1, <1>4, <1>8, <2>2
    <3>2. ASSUME NEW j \in 1 .. i - 1, NEW later \in at .. (s + 1) - 1
          PROVE  longer[j] # Wire!OnWire(later)
      <4>1. j \in 1 .. size /\ longer[j] = queue[j]
        BY <1>1, <2>2
      <4>2. later \in at .. s - 1 \/ later = s
        OBVIOUS
      <4> QED
        BY <1>5, <1>7, <3>1, <4>1, <4>2
    <3>3. at \in k .. (s + 1) - 1 /\ longer[i] = Wire!OnWire(at)
      BY <1>1, <2>2, <3>1
    <3> QED
      BY <3>2, <3>3
  <2> QED
    BY <1>1, <2>1, <2>2
<1>9. ASSUME NEW at \in k .. (s + 1) - 1
      PROVE  \E i \in 1 .. Len(longer) : longer[i] = Wire!OnWire(at)
  <2>1. CASE at = s
    BY <1>1, <1>7, <2>1
  <2>2. CASE at \in k .. s - 1
    BY <1>1, <1>6, <2>2
  <2> QED
    BY <2>1, <2>2
<1>10. InWireOrder(longer, k, s + 1)
  BY <1>8, <1>9 DEF InWireOrder
<1> QED
  BY <1>10 DEF longer, p

LEMMA StrayInOrder ==
  ASSUME NEW T, NEW queue \in Seq(T), NEW k \in Nat, NEW s \in Nat,
         InWireOrder(queue, k, s), Stray \in T
  PROVE  InWireOrder(Append(queue, Stray), k, s)
<1> DEFINE longer == Append(queue, Stray)
           size == Len(queue)
<1>1. /\ size \in Nat /\ Len(longer) = size + 1 /\ longer[size + 1] = Stray
      /\ \A i \in 1 .. size : longer[i] = queue[i]
  OBVIOUS
<1>2. /\ \A i \in 1 .. size : queue[i] # Stray =>
           \E at \in k .. s - 1 :
             /\ queue[i] = Wire!OnWire(at)
             /\ \A j \in 1 .. i - 1 : \A later \in at .. s - 1 :
                  queue[j] # Wire!OnWire(later)
      /\ \A at \in k .. s - 1 : \E i \in 1 .. size :
           queue[i] = Wire!OnWire(at)
  BY DEF InWireOrder
<1> HIDE DEF longer, size
<1>3. ASSUME NEW i \in 1 .. Len(longer), longer[i] # Stray
      PROVE  \E at \in k .. s - 1 :
               /\ longer[i] = Wire!OnWire(at)
               /\ \A j \in 1 .. i - 1 : \A later \in at .. s - 1 :
                    longer[j] # Wire!OnWire(later)
  <2>1. i \in 1 .. size /\ longer[i] = queue[i]
    BY <1>1, <1>3
  <2>2. PICK at \in k .. s - 1 :
          /\ queue[i] = Wire!OnWire(at)
          /\ \A j \in 1 .. i - 1 : \A later \in at .. s - 1 :
               queue[j] # Wire!OnWire(later)
    BY <1>2, <1>3, <2>1
  <2>3. \A j \in 1 .. i - 1 : longer[j] = queue[j]
    BY <1>1, <2>1
  <2> QED
    BY <2>1, <2>2, <2>3
<1>4. \A at \in k .. s - 1 : \E i \in 1 .. Len(longer) :
        longer[i] = Wire!OnWire(at)
  BY <1>1, <1>2
<1>5. InWireOrder(longer, k, s)
  BY <1>3, <1>4 DEF InWireOrder
<1> QED
  BY <1>5 DEF longer

(* The first of such a queue is the next packet of the wire.               *)
LEMMA FirstInOrder ==
  ASSUME NEW T, NEW queue \in Seq(T), NEW k \in Nat, NEW s \in Nat,
         InWireOrder(queue, k, s), queue # << >>
  PROVE  /\ Head(queue) = Stray => InWireOrder(Tail(queue), k, s)
         /\ Head(queue) # Stray =>
              /\ k < s /\ Head(queue) = Wire!OnWire(k)
              /\ InWireOrder(Tail(queue), k + 1, s)
<1> DEFINE rest == Tail(queue)
           size == Len(queue)
<1>1. /\ size \in Nat /\ size >= 1 /\ Head(queue) = queue[1]
      /\ Len(rest) = size - 1
      /\ \A i \in 1 .. Len(rest) : i + 1 \in 1 .. size
                                     /\ rest[i] = queue[i + 1]
  <2>1. size \in Nat /\ size >= 1
    BY EmptySeq
  <2> QED
    BY <2>1
<1>2. /\ \A i \in 1 .. size : queue[i] # Stray =>
           \E at \in k .. s - 1 :
             /\ queue[i] = Wire!OnWire(at)
             /\ \A j \in 1 .. i - 1 : \A later \in at .. s - 1 :
                  queue[j] # Wire!OnWire(later)
      /\ \A at \in k .. s - 1 : \E i \in 1 .. size :
           queue[i] = Wire!OnWire(at)
  BY DEF InWireOrder
<1> HIDE DEF rest, size
<1>3. ASSUME NEW from \in {k, k + 1}, from = k + 1 => queue[1] = Wire!OnWire(k),
             from = k => queue[1] = Stray
      PROVE  InWireOrder(rest, from, s)
  <2>1. ASSUME NEW i \in 1 .. Len(rest), rest[i] # Stray
        PROVE  \E at \in from .. s - 1 :
                 /\ rest[i] = Wire!OnWire(at)
                 /\ \A j \in 1 .. i - 1 : \A later \in at .. s - 1 :
                      rest[j] # Wire!OnWire(later)
    <3>1. i + 1 \in 1 .. size /\ rest[i] = queue[i + 1]
      BY <1>1
    <3>2. PICK at \in k .. s - 1 :
            /\ queue[i + 1] = Wire!OnWire(at)
            /\ \A j \in 1 .. (i + 1) - 1 : \A later \in at .. s - 1 :
                 queue[j] # Wire!OnWire(later)
      BY <1>2, <2>1, <3>1
    <3>3. at \in from .. s - 1
      <4>1. 1 \in 1 .. (i + 1) - 1 /\ at \in at .. s - 1
        BY <1>1
      <4>2. queue[1] # Wire!OnWire(at)
        BY <3>2, <4>1
      <4>3. from = k + 1 => at # k
        BY <1>3, <4>2
      <4> QED
        BY <1>3, <4>3
    <3>4. ASSUME NEW j \in 1 .. i - 1, NEW later \in at .. s - 1
          PROVE  rest[j] # Wire!OnWire(later)
      <4>1. j \in 1 .. Len(rest) /\ j + 1 \in 1 .. (i + 1) - 1
        BY <1>1
      <4> QED
        BY <1>1, <3>2, <4>1
    <3> QED
      BY <3>1, <3>2, <3>3, <3>4
  <2>2. ASSUME NEW at \in from .. s - 1
        PROVE  \E i \in 1 .. Len(rest) : rest[i] = Wire!OnWire(at)
    <3>1. at \in k .. s - 1 /\ at \in Nat
      BY <1>3
    <3>2. PICK i \in 1 .. size : queue[i] = Wire!OnWire(at)
      BY <1>2, <3>1
    <3>3. queue[1] # Wire!OnWire(at)
      <4>1. CASE from = k
        BY <1>3, <3>1, <4>1, OnWireIsNoStray
      <4>2. CASE from = k + 1
        <5>1. at # k
          BY <4>2
        <5> QED
          BY <1>3, <3>1, <4>2, <5>1, WireOnce
      <4> QED
        BY <4>1, <4>2
    <3>4. i - 1 \in 1 .. Len(rest) /\ (i - 1) + 1 = i
      BY <1>1, <3>2, <3>3
    <3> QED
      BY <1>1, <3>2, <3>4
  <2> QED
    BY <2>1, <2>2 DEF InWireOrder
<1>4. CASE queue[1] = Stray
  <2>1. k # k + 1
    OBVIOUS
  <2>2. InWireOrder(rest, k, s)
    BY <1>3, <1>4, <2>1
  <2> QED
    BY <1>1, <1>4, <2>2 DEF rest
<1>5. CASE queue[1] # Stray
  <2>1. PICK at \in k .. s - 1 : queue[1] = Wire!OnWire(at)
    BY <1>1, <1>2, <1>5
  <2>2. k \in k .. s - 1 /\ k < s
    BY <2>1
  <2>3. PICK i \in 1 .. size : queue[i] = Wire!OnWire(k)
    BY <1>2, <2>2
  <2>4. i = 1
    <3> SUFFICES ASSUME i # 1 PROVE FALSE
      OBVIOUS
    <3>1. queue[i] # Stray
      BY <2>3, OnWireIsNoStray
    <3>2. PICK when \in k .. s - 1 :
            /\ queue[i] = Wire!OnWire(when)
            /\ \A j \in 1 .. i - 1 : \A later \in when .. s - 1 :
                 queue[j] # Wire!OnWire(later)
      BY <1>2, <3>1
    <3>3. when = k
      <4>1. when \in Nat
        OBVIOUS
      <4> QED
        BY <2>3, <3>2, <4>1, WireOnce
    <3>4. 1 \in 1 .. i - 1 /\ at \in when .. s - 1
      BY <1>1, <3>3
    <3> QED
      BY <2>1, <3>2, <3>4
  <2>5. queue[1] = Wire!OnWire(k)
    BY <2>3, <2>4
  <2>6. k # k + 1
    OBVIOUS
  <2>7. InWireOrder(rest, k + 1, s)
    BY <1>3, <2>5, <2>6
  <2> QED
    BY <1>1, <1>5, <2>2, <2>5, <2>7 DEF rest
<1> QED
  BY <1>4, <1>5

-----------------------------------------------------------------------------
(* The assembler takes the packets of the wire in their order.             *)

LEMMA NeededIs ==
  /\ Needed - 1 \in Parts /\ Needed - 1 # 0
  /\ \A i \in 1 .. Needed - 1 : i + 1 >= Data <=> i = Needed - 1
BY PartsAssumption DEF Needed, Parts

LEMMA PositionStep ==
  ASSUME NEW n \in 0 .. PacketsSent - 1, NEW c \in Chunks, NEW i \in Parts,
         Wire!OnWire(n) = [csn |-> c, psn |-> i]
  PROVE  /\ n \in Nat /\ Position(c, i) = n
         /\ \A d \in Chunks, j \in Parts :
              /\ Position(d, j) \in Nat
              /\ Position(d, j) < n + 1 <=>
                   Position(d, j) < n \/ (d = c /\ j = i)
<1>1. n \in Nat /\ Position(c, i) = n
  BY PositionOf
<1>2. ASSUME NEW d \in Chunks, NEW j \in Parts
      PROVE  /\ Position(d, j) \in Nat
             /\ Position(d, j) = n <=> d = c /\ j = i
  <2>1. /\ Position(d, j) \in Nat
        /\ Wire!OnWire(Position(d, j)) = [csn |-> d, psn |-> j]
    BY OnWireAtPosition
  <2>2. ASSUME Position(d, j) = n PROVE d = c /\ j = i
    BY <2>1, <2>2
  <2> QED
    BY <1>1, <2>1, <2>2
<1>3. ASSUME NEW d \in Chunks, NEW j \in Parts
      PROVE  Position(d, j) < n + 1 <=>
               Position(d, j) < n \/ (d = c /\ j = i)
  <2> DEFINE at == Position(d, j)
  <2>1. at \in Nat /\ (at = n <=> d = c /\ j = i)
    BY <1>2
  <2> HIDE DEF at
  <2>2. at < n + 1 <=> at < n \/ at = n
    BY <1>1, <2>1
  <2> QED
    BY <2>1, <2>2 DEF at
<1> QED
  BY <1>1, <1>2, <1>3

(* What the order of the wire says of the chunk whose packet comes next:   *)
(* it was pushed already, or it is new and its line is free, or its line   *)
(* has just the packets before this one.                                   *)
LEMMA NextInTable ==
  ASSUME IInv, EncodersPackets, Depth <= Lines, pc = "select",
         NEW n \in 0 .. PacketsSent - 1, AssembledInOrder(n),
         NEW c \in Chunks, NEW i \in Parts,
         Wire!OnWire(n) = [csn |-> c, psn |-> i]
  PROVE  \/ c <= last
         \/ c > last /\ i = 0 /\ found[AtChunk(c)] = 0
         \/ /\ c > last /\ i \in 1 .. Needed - 1
            /\ csn[AtChunk(c)] = c /\ found[AtChunk(c)] = i
            /\ Position(c, 0) < n
            /\ i = Needed - 1 => c = last + 1
<1> DEFINE line == AtChunk(c)
           N == Needed - 1
<1>1. /\ c \in Nat /\ i \in Nat /\ last \in Nat /\ line \in LineNumbers
      /\ found[line] \in Nat
  BY AtChunkType, Sizes DEF Chunks, Parts, IInv, TypeOK
<1>2. n \in Nat /\ Position(c, i) = n
  BY PositionStep
<1>3. N \in Parts /\ 0 \in Parts /\ N \in Nat
  BY NeededIs, Sizes DEF Parts
<1> HIDE DEF N
<1>4. \A d \in Chunks : Position(d, N) < n <=> d <= last
  BY DEF AssembledInOrder, N
<1> SUFFICES ASSUME ~ (c <= last)
             PROVE  \/ c > last /\ i = 0 /\ found[line] = 0
                    \/ /\ c > last /\ i \in 1 .. N
                       /\ csn[line] = c /\ found[line] = i
                       /\ Position(c, 0) < n
                       /\ i = N => c = last + 1
  BY DEF N
<1>5. c > last
  BY <1>1
<1>6. i <= N
  <2> SUFFICES ASSUME i > N PROVE FALSE
    BY <1>1, <1>3
  <2>1. Position(c, N) < n
    BY <1>2, <1>3, PartsInOrder
  <2> QED
    BY <1>4, <2>1
<1>7. CASE i = 0
  <2> SUFFICES ASSUME found[line] # 0 PROVE FALSE
    BY <1>5, <1>7
  <2> DEFINE d == csn[line]
  <2>1. d \in Chunks /\ d > last /\ Position(d, 0) < n
    <3>1. \A l \in LineNumbers : found[l] # 0 =>
            csn[l] \in Chunks /\ csn[l] > last /\ Position(csn[l], 0) < n
      BY DEF AssembledInOrder
    <3> QED
      BY <1>1, <3>1
  <2>2. AtChunk(d) = line
    BY <1>1 DEF IInv, LinesOwned
  <2> HIDE DEF d
  <2>3. ~ (Position(d, N) < n)
    <3>1. d \in Nat
      BY <2>1 DEF Chunks
    <3> QED
      BY <1>1, <1>4, <2>1, <3>1
  <2>4. Position(d, 0) \in Nat /\ Position(d, N) \in Nat
    BY <1>3, <2>1, OnWireAtPosition
  <2>5. /\ Position(d, 0) <= Position(c, i)
        /\ Position(c, i) <= Position(d, N)
    BY <1>2, <2>1, <2>3, <2>4
  <2>6. c = d
    BY <1>3, <2>1, <2>2, <2>5, LinesApart
  <2> QED
    BY <1>2, <1>7, <2>1, <2>6
<1>8. CASE i # 0
  <2>1. i \in 1 .. N /\ i - 1 \in Parts /\ i - 1 < i
    BY <1>1, <1>3, <1>6, <1>8, Sizes DEF Parts
  <2>2. Position(c, 0) < n /\ Position(c, i - 1) < n
    BY <1>2, <1>3, <2>1, PartsInOrder
  <2>3. /\ csn[line] = c
        /\ \A j \in Parts : Position(c, j) < n <=> j < found[line]
    BY <1>5, <2>2 DEF AssembledInOrder
  <2>4. found[line] = i
    <3>1. i - 1 < found[line]
      BY <2>1, <2>2, <2>3
    <3>2. ~ (i < found[line])
      BY <1>2, <2>3
    <3> QED
      BY <1>1, <3>1, <3>2
  <2>5. ASSUME i = N PROVE c = last + 1
    <3> SUFFICES ASSUME c # last + 1 PROVE FALSE
      OBVIOUS
    <3> DEFINE d == last + 1
    <3>1. d \in Chunks /\ d < c
      <4>1. d \in Nat /\ d >= 1 /\ d < c
        BY <1>1, <1>5
      <4> DEFINE most == Blocks * Depth
      <4>2. most \in Nat /\ c \in 1 .. most
        BY DecoderAssumption DEF Chunks
      <4> HIDE DEF most, d
      <4>3. d \in 1 .. most
        BY <1>1, <4>1, <4>2
      <4> QED
        BY <4>1, <4>3 DEF Chunks, most
    <3>2. ~ (d <= last)
      BY <1>1
    <3> HIDE DEF d
    <3>3. Position(d, N) < n
      BY <1>2, <1>3, <2>5, <3>1, ChunksInOrder
    <3> QED
      BY <1>4, <3>1, <3>2, <3>3
  <2> QED
    BY <1>5, <2>1, <2>2, <2>3, <2>4, <2>5
<1> QED
  BY <1>7, <1>8

LEMMA ReceiveInOrder ==
  ASSUME IInv, EncodersPackets, Depth <= Lines,
         NEW n \in 0 .. PacketsSent - 1, AssembledInOrder(n),
         NEW p \in Packets, p = Wire!OnWire(n),
         Drop(p) \/ Join(p) \/ Open(p) \/ Replace(p)
  PROVE  AssembledInOrder(n + 1)'
<1> DEFINE N == Needed - 1
           c == p.csn
           i == p.psn
           line == AtChunk(c)
<1>1. /\ c \in Chunks /\ i \in Parts /\ p = [csn |-> c, psn |-> i]
      /\ Wire!OnWire(n) = [csn |-> c, psn |-> i]
  <2>1. p \in [csn : Chunks, psn : Parts]
    BY DEF EncodersPackets
  <2>2. p.csn \in Chunks /\ p.psn \in Parts /\ p = [csn |-> p.csn, psn |-> p.psn]
    BY <2>1
  <2> QED
    BY <2>2
<1>2. /\ pc = "select" /\ UNCHANGED pushed /\ n \in Nat
  BY DEF Drop, Join, Open, Replace, Admit, Receive
<1>3. /\ c \in Nat /\ c # 0 /\ i \in 0 .. Total - 1 /\ last \in Nat
      /\ line \in LineNumbers /\ Total \in Nat
      /\ csn \in [LineNumbers -> Nat] /\ found \in [LineNumbers -> Nat]
  <2>1. c \in Nat /\ c # 0
    BY <1>1 DEF Chunks
  <2>2. /\ last \in Nat /\ csn \in [LineNumbers -> Nat]
        /\ found \in [LineNumbers -> 0 .. Data + 1]
    BY DEF IInv, TypeOK
  <2>3. found \in [LineNumbers -> Nat]
    BY <2>2, Sizes
  <2> HIDE DEF c
  <2> QED
    BY <1>1, <2>1, <2>2, <2>3, AtChunkType, Sizes DEF Parts
<1>4. N \in Parts /\ N # 0 /\ 0 \in Parts
  BY NeededIs, Sizes DEF Parts
<1>5. \A d \in Chunks, j \in Parts :
        /\ Position(d, j) \in Nat
        /\ Position(d, j) < n + 1 <=> Position(d, j) < n \/ (d = c /\ j = i)
  <2> HIDE DEF c, i
  <2> QED
    BY <1>1, PositionStep
<1>6. \/ c <= last
      \/ c > last /\ i = 0 /\ found[line] = 0
      \/ /\ c > last /\ i \in 1 .. N
         /\ csn[line] = c /\ found[line] = i
         /\ Position(c, 0) < n
         /\ i = N => c = last + 1
  <2> HIDE DEF c, i
  <2> QED
    BY <1>1, <1>2, NextInTable
<1>7. ~ Invalid(p)
  BY <1>3 DEF Invalid
<1>8. /\ \A d \in Chunks : Position(d, N) < n <=> d <= last
      /\ \A l \in LineNumbers : found[l] # 0 =>
           csn[l] \in Chunks /\ csn[l] > last /\ Position(csn[l], 0) < n
      /\ \A d \in Chunks : (d > last /\ Position(d, 0) < n) =>
           /\ csn[AtChunk(d)] = d
           /\ \A j \in Parts : Position(d, j) < n <=> j < found[AtChunk(d)]
      /\ Len(pushed) = last
      /\ \A d \in 1 .. Len(pushed) : ChunksIn(pushed[d]) \subseteq {d}
  BY <1>2 DEF AssembledInOrder, N
<1>9. \A d \in Chunks : d \in Nat /\ AtChunk(d) \in LineNumbers
  BY AtChunkType DEF Chunks
<1> HIDE DEF N, c, i, line
<1>10. SUFFICES
         /\ pc' = "push" => packet'.csn = last' + 1
         /\ \A d \in Chunks :
              Position(d, N) < n + 1 <=>
                d <= last' \/ (pc' = "push" /\ d = packet'.csn)
         /\ \A l \in LineNumbers : found'[l] # 0 =>
              /\ csn'[l] \in Chunks /\ csn'[l] > last'
              /\ Position(csn'[l], 0) < n + 1
         /\ \A d \in Chunks : (d > last' /\ Position(d, 0) < n + 1) =>
              /\ csn'[AtChunk(d)] = d
              /\ \A j \in Parts :
                   Position(d, j) < n + 1 <=> j < found'[AtChunk(d)]
         /\ last' = last
  BY <1>2, <1>8 DEF AssembledInOrder, N
<1>11. CASE c <= last
  <2>1. UNCHANGED <<last, csn, found, packet, pc>>
    <3>1. Drop(p)
      BY <1>11 DEF Join, Open, Replace, Admit, Detached, c
    <3> QED
      BY <3>1 DEF Drop, state
  <2>2. \A d \in Chunks : d > last => d # c
    BY <1>3, <1>9, <1>11
  <2>3. \A d \in Chunks : Position(d, N) < n + 1 <=> d <= last
    <3>1. c <= last => Position(c, N) < n
      BY <1>1, <1>8 DEF c
    <3> QED
      BY <1>4, <1>5, <1>8, <1>11, <3>1
  <2>4. \A l \in LineNumbers : found[l] # 0 =>
          csn[l] \in Chunks /\ csn[l] > last /\ Position(csn[l], 0) < n + 1
    BY <1>4, <1>5, <1>8
  <2>5. \A d \in Chunks : (d > last /\ Position(d, 0) < n + 1) =>
          /\ csn[AtChunk(d)] = d
          /\ \A j \in Parts : Position(d, j) < n + 1 <=> j < found[AtChunk(d)]
    BY <1>4, <1>5, <1>8, <2>2
  <2> QED
    BY <1>2, <2>1, <2>3, <2>4, <2>5
<1>12. CASE c > last /\ i = 0 /\ found[line] = 0
  <2>1. Open(p)
    BY <1>3, <1>7, <1>12 DEF Drop, Join, Replace, Detached, c, line
  <2>2. /\ csn' = [csn EXCEPT ![line] = c] /\ found' = [found EXCEPT ![line] = 1]
        /\ UNCHANGED <<last, pc>>
    BY <2>1 DEF Open, c, line
  <2>3. \A l \in LineNumbers :
          /\ l = line => csn'[l] = c /\ found'[l] = 1
          /\ l # line => csn'[l] = csn[l] /\ found'[l] = found[l]
    BY <1>3, <2>2
  <2>4. Position(c, 0) = n /\ \A j \in Parts : Position(c, j) < n + 1 <=> j < 1
    <3>1. Position(c, 0) = n
      BY <1>1, <1>12, PositionStep DEF c, i
    <3>2. \A j \in Parts : j # 0 => Position(c, 0) < Position(c, j)
      <4>1. \A j \in Parts : j # 0 => 0 < j
        BY DEF Parts
      <4> QED
        BY <1>1, <1>4, <4>1, PartsInOrder DEF c
    <3>3. \A j \in Parts : Position(c, j) \in Nat /\ j \in Nat
      BY <1>1, <1>5 DEF Parts, c
    <3> QED
      BY <1>2, <3>1, <3>2, <3>3
  <2>5. \A d \in Chunks : Position(d, N) < n + 1 <=> d <= last
    BY <1>4, <1>5, <1>8, <1>12
  <2>6. ASSUME NEW l \in LineNumbers, found'[l] # 0
        PROVE  /\ csn'[l] \in Chunks /\ csn'[l] > last
               /\ Position(csn'[l], 0) < n + 1
    <3>1. CASE l = line
      BY <1>1, <1>2, <1>12, <2>3, <2>4, <3>1 DEF c
    <3>2. CASE l # line
      BY <1>4, <1>5, <1>8, <2>3, <2>6, <3>2
    <3> QED
      BY <3>1, <3>2
  <2>7. ASSUME NEW d \in Chunks, d > last, Position(d, 0) < n + 1
        PROVE  /\ csn'[AtChunk(d)] = d
               /\ \A j \in Parts :
                    Position(d, j) < n + 1 <=> j < found'[AtChunk(d)]
    <3>1. CASE d = c
      BY <1>3, <2>3, <2>4, <3>1 DEF line
    <3>2. CASE d # c
      <4>1. Position(d, 0) < n
        BY <1>4, <1>5, <2>7, <3>2
      <4>2. /\ csn[AtChunk(d)] = d
            /\ \A j \in Parts : Position(d, j) < n <=> j < found[AtChunk(d)]
        BY <1>8, <2>7, <4>1
      <4>3. AtChunk(d) # line
        BY <1>4, <1>12, <4>1, <4>2
      <4> QED
        BY <1>5, <1>9, <2>3, <3>2, <4>2, <4>3
    <3> QED
      BY <3>1, <3>2
  <2> QED
    BY <1>2, <2>2, <2>5, <2>6, <2>7
<1>13. CASE /\ c > last /\ i \in 1 .. N
            /\ csn[line] = c /\ found[line] = i
            /\ Position(c, 0) < n
            /\ i = N => c = last + 1
  <2>1. i # 0 /\ found[line] # 0
    BY <1>13
  <2>2. Join(p)
    BY <1>3, <1>7, <1>13, <2>1 DEF Drop, Open, Replace, Detached, c, line
  <2>3. /\ found' = [found EXCEPT ![line] = i + 1] /\ packet' = p
        /\ UNCHANGED <<last, csn>>
        /\ pc' = IF found'[line] >= Data THEN "push" ELSE "select"
    BY <1>13, <2>2 DEF Join, Admit, c, line
  <2>4. found'[line] = i + 1
        /\ \A l \in LineNumbers : l # line => found'[l] = found[l]
    BY <1>3, <2>3
  <2>5. pc' = "push" <=> i = N
    <3>1. i + 1 >= Data <=> i = N
      BY <1>13, NeededIs DEF N
    <3> QED
      BY <2>3, <2>4, <3>1
  <2>6. \A d \in Chunks :
          Position(d, N) < n + 1 <=>
            d <= last \/ (pc' = "push" /\ d = packet'.csn)
    BY <1>4, <1>5, <1>8, <2>3, <2>5 DEF c
  <2>7. \A l \in LineNumbers : found'[l] # 0 =>
          csn[l] \in Chunks /\ csn[l] > last /\ Position(csn[l], 0) < n + 1
    BY <1>4, <1>5, <1>8, <2>1, <2>4
  <2>8. ASSUME NEW d \in Chunks, d > last, Position(d, 0) < n + 1
        PROVE  /\ csn[AtChunk(d)] = d
               /\ \A j \in Parts :
                    Position(d, j) < n + 1 <=> j < found'[AtChunk(d)]
    <3>1. Position(d, 0) < n
      BY <1>4, <1>5, <2>1, <2>8
    <3>2. /\ csn[AtChunk(d)] = d
          /\ \A j \in Parts : Position(d, j) < n <=> j < found[AtChunk(d)]
      BY <1>8, <2>8, <3>1
    <3>3. CASE d = c
      <4>1. \A j \in Parts : j < i + 1 <=> j < i \/ j = i
        BY <1>3 DEF Parts
      <4>2. AtChunk(d) = line
        BY <3>3 DEF line
      <4> QED
        BY <1>5, <1>13, <2>4, <3>2, <3>3, <4>1, <4>2
    <3>4. CASE d # c
      <4>1. AtChunk(d) # line
        BY <1>13, <3>2, <3>4
      <4> QED
        BY <1>5, <1>9, <2>4, <3>2, <3>4, <4>1
    <3> QED
      BY <3>3, <3>4
  <2>9. pc' = "push" => packet'.csn = last + 1
    BY <1>13, <2>3, <2>5 DEF c
  <2> QED
    BY <2>3, <2>6, <2>7, <2>8, <2>9
<1> QED
  BY <1>6, <1>11, <1>12, <1>13

LEMMA PushInOrder ==
  ASSUME IInv, EncodersPackets, NEW n \in Nat, AssembledInOrder(n), Push
  PROVE  AssembledInOrder(n)'
<1> DEFINE N == Needed - 1
           c == packet.csn
           line == AtChunk(c)
<1>1. /\ c \in Nat \ {0} /\ line \in LineNumbers
      /\ found[line] # 0 /\ csn[line] = c
      /\ Len(pushed) \in Nat /\ Len(pushed') = Len(pushed) + 1
      /\ \A i \in 1 .. Len(pushed) : pushed'[i] = pushed[i]
      /\ pushed'[Len(pushed) + 1] = Copy(c)
      /\ ChunksIn(Copy(c)) \subseteq {c}
  BY PushFacts, PushedChunks, EncoderKeepsRange
<1>2. /\ pc = "push" /\ pc' = "select" /\ last' = c
      /\ found' = [found EXCEPT ![line] = 0]
      /\ csn' = [csn EXCEPT ![line] = 0]
  BY DEF Push
<1>3. /\ last \in Nat /\ csn \in [LineNumbers -> Nat]
      /\ found \in [LineNumbers -> 0 .. Data + 1]
  BY DEF IInv, TypeOK
<1> HIDE DEF N, c, line
<1>4. /\ c = last + 1
      /\ \A d \in Chunks : Position(d, N) < n <=> d <= last \/ d = c
      /\ \A l \in LineNumbers : found[l] # 0 =>
           csn[l] \in Chunks /\ csn[l] > last /\ Position(csn[l], 0) < n
      /\ \A d \in Chunks : (d > last /\ Position(d, 0) < n) =>
           /\ csn[AtChunk(d)] = d
           /\ \A j \in Parts : Position(d, j) < n <=> j < found[AtChunk(d)]
      /\ Len(pushed) = last
      /\ \A d \in 1 .. Len(pushed) : ChunksIn(pushed[d]) \subseteq {d}
  BY <1>2 DEF AssembledInOrder, N, c
<1>5. \A d \in Chunks : d \in Nat /\ AtChunk(d) \in LineNumbers
  BY AtChunkType DEF Chunks
<1>6. \A d \in Chunks : Position(d, N) < n <=> d <= last'
  <2>1. \A d \in Chunks : d <= c <=> d <= last \/ d = c
    BY <1>3, <1>4, <1>5
  <2> QED
    BY <1>2, <1>4, <2>1
<1>7. \A l \in LineNumbers :
        /\ l = line => found'[l] = 0
        /\ l # line => found'[l] = found[l] /\ csn'[l] = csn[l]
  BY <1>2, <1>3
<1>8. ASSUME NEW l \in LineNumbers, found'[l] # 0
      PROVE  /\ csn'[l] \in Chunks /\ csn'[l] > last'
             /\ Position(csn'[l], 0) < n
  <2>1. l # line /\ found[l] # 0 /\ csn'[l] = csn[l]
    BY <1>7, <1>8
  <2>2. /\ csn[l] \in Chunks /\ csn[l] > last /\ Position(csn[l], 0) < n
        /\ csn[l] \in Nat
    BY <1>4, <1>5, <2>1
  <2>3. csn[l] # c
    <3>1. AtChunk(csn[l]) = l
      BY <2>1 DEF IInv, LinesOwned
    <3> QED
      BY <2>1, <3>1 DEF line
  <2> QED
    BY <1>2, <1>3, <1>4, <2>1, <2>2, <2>3
<1>9. ASSUME NEW d \in Chunks, d > last', Position(d, 0) < n
      PROVE  /\ csn'[AtChunk(d)] = d
             /\ \A j \in Parts : Position(d, j) < n <=> j < found'[AtChunk(d)]
  <2>1. d > last /\ d # c
    BY <1>2, <1>3, <1>4, <1>5, <1>9
  <2>2. /\ csn[AtChunk(d)] = d
        /\ \A j \in Parts : Position(d, j) < n <=> j < found[AtChunk(d)]
    BY <1>4, <1>9, <2>1
  <2>3. AtChunk(d) # line
    BY <1>1, <2>1, <2>2
  <2> QED
    BY <1>5, <1>7, <2>2, <2>3
<1>10. /\ Len(pushed') = last'
       /\ \A d \in 1 .. Len(pushed') : ChunksIn(pushed'[d]) \subseteq {d}
  <2>1. Len(pushed') = last' /\ c = Len(pushed) + 1
    BY <1>1, <1>2, <1>4
  <2>2. ASSUME NEW d \in 1 .. Len(pushed')
        PROVE  ChunksIn(pushed'[d]) \subseteq {d}
    <3>1. CASE d = Len(pushed) + 1
      BY <1>1, <2>1, <3>1
    <3>2. CASE d \in 1 .. Len(pushed)
      BY <1>1, <1>4, <3>2
    <3> QED
      BY <1>1, <3>1, <3>2
  <2> QED
    BY <2>1, <2>2
<1> HIDE DEF c
<1> QED
  BY <1>2, <1>6, <1>8, <1>9, <1>10
     DEF AssembledInOrder, N, ChunksIn, Shards

(* The packets under way: one joins them, one goes on, one is taken.       *)

LEMMA UnderwayFacts ==
  ASSUME DecoderInv, NEW n \in Nat, UnderwayInOrder(n)
  PROVE  /\ Len(assemblyQueue) \in Nat /\ n + Len(assemblyQueue) \in Nat
         /\ sent \in Nat /\ sent <= PacketsSent /\ PacketsSent \in Nat
         /\ argumentQueue \in Seq(Packets \cup {Stray})
         /\ assemblyQueue \in Seq(Packets)
         /\ decoded \in Packets \cup {Nil}
<1>1. assemblyQueue \in Seq(Packets)
  BY DEF DecoderInv, OnceInv, IInv, TypeOK
<1>2. Len(assemblyQueue) \in Nat
  BY <1>1
<1>3. /\ sent \in 0 .. PacketsSent
      /\ argumentQueue \in Seq(Packets \cup {Stray})
      /\ decoded \in Packets \cup {Nil}
  BY DEF DecoderInv, FromTheWire
<1> QED
  BY <1>1, <1>2, <1>3, SentSize

LEMMA ArrivalInOrder ==
  ASSUME DecoderInv, EncodersPackets, NEW n \in Nat, UnderwayInOrder(n),
         Transmit \/ Intrude
  PROVE  UnderwayInOrder(n)'
<1> DEFINE m == n + Len(assemblyQueue)
           k == IF decoded = Nil THEN m ELSE m + 1
<1>1. /\ m \in Nat /\ k \in Nat /\ sent \in Nat
      /\ sent <= PacketsSent /\ PacketsSent \in Nat
      /\ argumentQueue \in Seq(Packets \cup {Stray})
  BY UnderwayFacts
<1>2. /\ k <= sent /\ InWireOrder(argumentQueue, k, sent)
      /\ \A i \in 1 .. Len(assemblyQueue) :
           assemblyQueue[i] = Wire!OnWire((n + i) - 1)
      /\ decoded # Nil => decoded = Wire!OnWire(m)
  BY DEF UnderwayInOrder
<1>3. UNCHANGED <<assemblyQueue, decoded>>
  BY DEF Transmit, Intrude, Arrives, vars
<1>4. k <= sent' /\ InWireOrder(argumentQueue', k, sent')
  <2>1. CASE Transmit
    <3>1. /\ sent' = sent + 1 /\ sent < PacketsSent
          /\ argumentQueue' = Append(argumentQueue, Wire!OnWire(sent))
      BY <2>1 DEF Transmit, Arrives
    <3>2. Wire!OnWire(sent) \in Packets \cup {Stray}
      <4>1. sent \in 0 .. PacketsSent - 1
        BY <1>1, <3>1
      <4> QED
        BY <4>1, WireInRange DEF EncodersPackets
    <3> HIDE DEF k
    <3>3. InWireOrder(Append(argumentQueue, Wire!OnWire(sent)), k, sent + 1)
      BY <1>1, <1>2, <3>2, NextInOrder
    <3> QED
      BY <1>1, <1>2, <3>1, <3>3
  <2>2. CASE Intrude
    <3>1. sent' = sent /\ argumentQueue' = Append(argumentQueue, Stray)
      BY <2>2 DEF Intrude, Arrives
    <3> HIDE DEF k
    <3>2. InWireOrder(Append(argumentQueue, Stray), k, sent)
      BY <1>1, <1>2, StrayInOrder
    <3> QED
      BY <1>2, <3>1, <3>2
  <2> QED
    BY <2>1, <2>2
<1> QED
  BY <1>2, <1>3, <1>4 DEF UnderwayInOrder, InWireOrder

LEMMA DecodeInOrder ==
  ASSUME DecoderInv, EncodersPackets, NEW n \in Nat, UnderwayInOrder(n), Decode
  PROVE  UnderwayInOrder(n)'
<1> DEFINE m == n + Len(assemblyQueue)
           h == Head(argumentQueue)
<1>1. /\ m \in Nat /\ sent \in Nat
      /\ sent <= PacketsSent /\ PacketsSent \in Nat
      /\ argumentQueue \in Seq(Packets \cup {Stray})
  BY UnderwayFacts
<1>2. /\ decoded = Nil /\ argumentQueue # << >>
      /\ argumentQueue' = Tail(argumentQueue)
      /\ decoded' = IF h = Stray THEN Nil ELSE h
      /\ UNCHANGED <<assemblyQueue, sent>>
  BY DEF Decode, vars, networkVars
<1>3. /\ m <= sent /\ InWireOrder(argumentQueue, m, sent)
      /\ \A i \in 1 .. Len(assemblyQueue) :
           assemblyQueue[i] = Wire!OnWire((n + i) - 1)
  BY <1>2 DEF UnderwayInOrder
<1> HIDE DEF m
<1>4. /\ h = Stray => InWireOrder(argumentQueue', m, sent)
      /\ h # Stray =>
           /\ m < sent /\ h = Wire!OnWire(m)
           /\ InWireOrder(argumentQueue', m + 1, sent)
  BY <1>1, <1>2, <1>3, FirstInOrder
<1>5. h # Stray => h # Nil
  <2> SUFFICES ASSUME h # Stray PROVE h # Nil
    OBVIOUS
  <2>1. m \in 0 .. PacketsSent - 1 /\ h = Wire!OnWire(m)
    BY <1>1, <1>4
  <2>2. h \in Packets
    BY <2>1, WireInRange DEF EncodersPackets
  <2> QED
    BY <2>2, PacketKinds
<1> HIDE DEF h
<1> DEFINE k == IF decoded' = Nil THEN m ELSE m + 1
<1>6. /\ k <= sent
      /\ decoded' # Nil => decoded' = Wire!OnWire(m)
      /\ InWireOrder(argumentQueue', k, sent)
  BY <1>1, <1>2, <1>3, <1>4, <1>5
<1>7. sent' = sent /\ assemblyQueue' = assemblyQueue
      /\ m = n + Len(assemblyQueue)
  BY <1>2 DEF m
<1>8. CASE decoded' = Nil
  <2>1. m <= sent /\ InWireOrder(argumentQueue', m, sent)
    BY <1>6, <1>8
  <2> QED
    BY <1>3, <1>7, <1>8, <2>1 DEF UnderwayInOrder, InWireOrder
<1>9. CASE decoded' # Nil
  <2>1. /\ m + 1 <= sent /\ InWireOrder(argumentQueue', m + 1, sent)
        /\ decoded' = Wire!OnWire(m)
    BY <1>6, <1>9
  <2> QED
    BY <1>3, <1>7, <1>9, <2>1 DEF UnderwayInOrder, InWireOrder
<1> QED
  BY <1>8, <1>9

LEMMA PassOnInOrder ==
  ASSUME DecoderInv, EncodersPackets, NEW n \in Nat, UnderwayInOrder(n), PassOn
  PROVE  UnderwayInOrder(n)'
<1> DEFINE m == n + Len(assemblyQueue)
<1>1. /\ m \in Nat /\ sent \in Nat /\ Len(assemblyQueue) \in Nat
      /\ assemblyQueue \in Seq(Packets) /\ decoded \in Packets \cup {Nil}
  BY UnderwayFacts
<1>2. /\ decoded # Nil /\ decoded' = Nil
      /\ assemblyQueue' = Append(assemblyQueue, decoded)
      /\ UNCHANGED <<argumentQueue, sent>>
  BY DEF PassOn, Arrive, networkVars
<1>3. /\ m + 1 <= sent /\ InWireOrder(argumentQueue, m + 1, sent)
      /\ decoded = Wire!OnWire(m)
      /\ \A i \in 1 .. Len(assemblyQueue) :
           assemblyQueue[i] = Wire!OnWire((n + i) - 1)
  BY <1>2 DEF UnderwayInOrder
<1>4. /\ Len(assemblyQueue') = Len(assemblyQueue) + 1
      /\ \A i \in 1 .. Len(assemblyQueue) :
           assemblyQueue'[i] = assemblyQueue[i]
      /\ assemblyQueue'[Len(assemblyQueue) + 1] = decoded
  BY <1>1, <1>2
<1>5. n + Len(assemblyQueue') = m + 1
  BY <1>1, <1>4
<1>6. ASSUME NEW i \in 1 .. Len(assemblyQueue')
      PROVE  assemblyQueue'[i] = Wire!OnWire((n + i) - 1)
  <2>1. CASE i = Len(assemblyQueue) + 1
    <3>1. (n + i) - 1 = m
      BY <1>1, <2>1
    <3> QED
      BY <1>3, <1>4, <2>1, <3>1
  <2>2. CASE i \in 1 .. Len(assemblyQueue)
    BY <1>3, <1>4, <2>2
  <2> QED
    BY <1>1, <1>4, <2>1, <2>2
<1> QED
  BY <1>2, <1>3, <1>5, <1>6 DEF UnderwayInOrder, InWireOrder

LEMMA TakenInOrder ==
  ASSUME DecoderInv, EncodersPackets, NEW n \in Nat, UnderwayInOrder(n),
         NEW p \in Packets, Receive(p), UNCHANGED <<networkVars, decodeVars>>
  PROVE  /\ n \in 0 .. PacketsSent - 1 /\ n + 1 \in 0 .. sent
         /\ p = Wire!OnWire(n)
         /\ UnderwayInOrder(n + 1)'
<1> DEFINE size == Len(assemblyQueue)
           k == IF decoded = Nil THEN n + size ELSE (n + size) + 1
<1>1. /\ size \in Nat /\ sent \in Nat /\ k \in Nat
      /\ sent <= PacketsSent /\ PacketsSent \in Nat
  BY UnderwayFacts
<1>2. /\ k <= sent /\ InWireOrder(argumentQueue, k, sent)
      /\ decoded # Nil => decoded = Wire!OnWire(n + size)
      /\ \A i \in 1 .. size : assemblyQueue[i] = Wire!OnWire((n + i) - 1)
  BY DEF UnderwayInOrder
<1>3. /\ size >= 1 /\ p = assemblyQueue[1]
      /\ Len(assemblyQueue') = size - 1
      /\ \A i \in 1 .. Len(assemblyQueue') :
           i + 1 \in 1 .. size /\ assemblyQueue'[i] = assemblyQueue[i + 1]
  <2>1. TypeOK
    BY DEF DecoderInv, OnceInv, IInv
  <2> QED
    BY <2>1, ReceiveFacts
<1> HIDE DEF size
<1>4. n \in 0 .. PacketsSent - 1 /\ n + 1 \in 0 .. sent
  BY <1>1, <1>2, <1>3
<1>5. p = Wire!OnWire(n)
  <2>1. 1 \in 1 .. size /\ (n + 1) - 1 = n
    BY <1>1, <1>3
  <2>2. assemblyQueue[1] = Wire!OnWire((n + 1) - 1)
    BY <1>2, <2>1
  <2> QED
    BY <1>3, <2>1, <2>2
<1>6. /\ UNCHANGED <<sent, decoded, argumentQueue>>
      /\ (n + 1) + Len(assemblyQueue') = n + size
  BY <1>1, <1>3 DEF networkVars, decodeVars
<1>7. ASSUME NEW i \in 1 .. Len(assemblyQueue')
      PROVE  assemblyQueue'[i] = Wire!OnWire(((n + 1) + i) - 1)
  <2>1. i + 1 \in 1 .. size /\ assemblyQueue'[i] = assemblyQueue[i + 1]
    BY <1>3
  <2>2. (n + (i + 1)) - 1 = ((n + 1) + i) - 1
    BY <1>1, <1>3
  <2> QED
    BY <1>2, <2>1, <2>2
<1>8. UnderwayInOrder(n + 1)'
  BY <1>2, <1>6, <1>7 DEF UnderwayInOrder, InWireOrder
<1> QED
  BY <1>4, <1>5, <1>8

-----------------------------------------------------------------------------
(* dispatch is given chunk 1, 2, 3, ... and delivers each at once.         *)

LEMMA TurnFacts ==
  ASSUME DecoderInv
  PROVE  /\ restored \in Nat /\ Len(pushed) \in Nat
         /\ restoring # 0 => restoring \in Offerable
         /\ dispatchQueue \in Seq(Offerable) /\ Len(dispatchQueue) \in Nat
         /\ delivered \in Seq(Offerable) /\ Len(delivered) \in Nat
         /\ awaiting = dispatched + 1 /\ dispatched \in Nat /\ first \in Nat
<1>1. /\ restored \in Nat /\ pushed \in Seq([Parts -> Valid \cup {Nil}])
      /\ restoring # 0 => restoring \in Offerable
  BY DEF DecoderInv, RestoredOnly, OnceInv, IInv, TypeOK
<1>2. /\ dispatchQueue \in Seq(Offerable) /\ delivered \in Seq(Offerable \ {0})
      /\ awaiting = dispatched + 1 /\ dispatched \in Nat /\ first \in Nat
  BY DEF DecoderInv, Dispatcher!OnceInv, Dispatcher!IInv, Dispatcher!TypeOK,
     Dispatcher!CursorsAgree
<1>3. 0 \notin Offerable
  BY OrderingConstants
<1>4. Offerable \ {0} = Offerable
  BY <1>3
<1> QED
  BY <1>1, <1>2, <1>4

LEMMA LineTakenInTurn ==
  ASSUME DecoderInv, EncodersPackets, PacketsOnce, restarts = 0,
         NEW n \in Nat, AssembledInOrder(n), DispatchedInOrder, TakeLine
  PROVE  DispatchedInOrder'
<1> DEFINE k == restored + 1
           t == restored - Len(dispatchQueue)
<1>1. /\ restoring = 0 /\ restored < Len(pushed) /\ restored' = k
      /\ restoring' \in Headers(k)
      /\ UNCHANGED dispatcherVars
  BY DEF TakeLine, Restore
<1>2. k \in 1 .. Len(pushed) /\ k \in Nat /\ k # 0 /\ restored = k - 1
      /\ restored \in Nat
  <2>1. restored \in Nat /\ Len(pushed) \in Nat /\ restored < Len(pushed)
    BY <1>1, TurnFacts
  <2> DEFINE most == Len(pushed)
  <2> HIDE DEF most
  <2>2. most \in Nat /\ restored < most
    BY <2>1 DEF most
  <2>3. k \in 1 .. most /\ k \in Nat /\ k # 0 /\ restored = k - 1
    BY <2>1, <2>2
  <2> QED
    BY <2>1, <2>3 DEF most
<1>3. Reconstructs(pushed[k])
  <2>1. PushedRestorable
    BY DEF DecoderInv, OnceInv, PacketsOnce
  <2>2. pushed[k] \in PushedLines
    BY <1>2 DEF PushedLines
  <2> QED
    BY <2>1, <2>2 DEF PushedRestorable, Reconstructs
<1>4. ChunksIn(pushed[k]) \subseteq {k}
  BY <1>2 DEF AssembledInOrder
<1>5. restoring' = k
  <2>1. ~ Garbled(k)
    BY DEF DecoderInv, FirstRun, Garbled
  <2> QED
    BY <1>1, <1>3, <1>4, <2>1 DEF Headers
<1>6. /\ \A i \in 1 .. Len(dispatchQueue) : dispatchQueue[i] = t + i
      /\ \A at \in Dispatcher!Slots : chunks[at] = Dispatcher!Empty
      /\ first = t
      /\ \/ dispatchPc = "select" /\ dispatched = t
         \/ dispatchPc = "deliver" /\ dispatched = t - 1 /\ chunk = t
      /\ Len(delivered) = dispatched
      /\ \A i \in 1 .. Len(delivered) : delivered[i] = i
  BY <1>1 DEF DispatchedInOrder
<1>7. t = (restored' - 1) - Len(dispatchQueue)
  BY <1>1, <1>2
<1> HIDE DEF t, k
<1>8. restoring' # 0 /\ restoring' = restored'
  BY <1>1, <1>2, <1>5
<1>9. UNCHANGED <<first, dispatched, chunks, chunk, dispatchPc, dispatchQueue,
                  delivered>>
  BY <1>1 DEF dispatcherVars
<1> QED
  BY <1>6, <1>7, <1>8, <1>9
     DEF DispatchedInOrder, Dispatcher!Slots, Dispatcher!Empty

LEMMA ChunkSentInTurn ==
  ASSUME DecoderInv, DispatchedInOrder, SendChunk
  PROVE  DispatchedInOrder'
<1> DEFINE size == Len(dispatchQueue)
           t == (restored - 1) - size
<1>1. /\ restoring # 0 /\ restoring' = 0 /\ restored' = restored
      /\ dispatchQueue' = Append(dispatchQueue, restoring)
      /\ UNCHANGED <<first, dispatched, chunks, chunk, dispatchPc, delivered>>
  BY DEF SendChunk, Dispatcher!Offer, Dispatcher!state, vars
<1>2. /\ restored \in Nat /\ size \in Nat /\ restoring \in Offerable
      /\ dispatchQueue \in Seq(Offerable)
  BY <1>1, TurnFacts
<1>3. /\ restoring = restored
      /\ \A i \in 1 .. size : dispatchQueue[i] = t + i
      /\ \A at \in Dispatcher!Slots : chunks[at] = Dispatcher!Empty
      /\ first = t
      /\ \/ dispatchPc = "select" /\ dispatched = t
         \/ dispatchPc = "deliver" /\ dispatched = t - 1 /\ chunk = t
      /\ Len(delivered) = dispatched
      /\ \A i \in 1 .. Len(delivered) : delivered[i] = i
  BY <1>1 DEF DispatchedInOrder
<1>4. /\ Len(dispatchQueue') = size + 1
      /\ \A i \in 1 .. size : dispatchQueue'[i] = dispatchQueue[i]
      /\ dispatchQueue'[size + 1] = restoring
  BY <1>1, <1>2
<1>5. t = restored' - Len(dispatchQueue') /\ t + (size + 1) = restored
  BY <1>1, <1>2, <1>4
<1> HIDE DEF t, size
<1>6. \A i \in 1 .. Len(dispatchQueue') : dispatchQueue'[i] = t + i
  <2> SUFFICES ASSUME NEW i \in 1 .. Len(dispatchQueue')
               PROVE  dispatchQueue'[i] = t + i
    OBVIOUS
  <2>1. i \in 1 .. size \/ i = size + 1
    BY <1>2, <1>4
  <2> QED
    BY <1>3, <1>4, <1>5, <2>1
<1> QED
  BY <1>1, <1>3, <1>5, <1>6
     DEF DispatchedInOrder, Dispatcher!Slots, Dispatcher!Empty

LEMMA ChunkDispatchedInTurn ==
  ASSUME DecoderInv, DispatchedInOrder, DispatchChunk
  PROVE  DispatchedInOrder' /\ (delivered' = delivered \/ Stream!Successor)
<1> DEFINE handed == IF restoring = 0 THEN restored ELSE restored - 1
           size == Len(dispatchQueue)
           t == handed - size
<1>1. UNCHANGED <<restoring, restored>>
  BY DEF DispatchChunk, vars
<1>2. /\ handed \in Int /\ size \in Nat /\ t \in Int
      /\ dispatchQueue \in Seq(Offerable) /\ delivered \in Seq(Offerable)
      /\ Len(delivered) \in Nat /\ awaiting = dispatched + 1
      /\ dispatched \in Nat /\ first \in Nat
  BY TurnFacts
<1>3. /\ restoring # 0 => restoring = restored
      /\ \A i \in 1 .. size : dispatchQueue[i] = t + i
      /\ \A at \in Dispatcher!Slots : chunks[at] = Dispatcher!Empty
      /\ first = t
      /\ \/ dispatchPc = "select" /\ dispatched = t
         \/ dispatchPc = "deliver" /\ dispatched = t - 1 /\ chunk = t
      /\ Len(delivered) = dispatched
      /\ \A i \in 1 .. Len(delivered) : delivered[i] = i
  BY DEF DispatchedInOrder
<1>4. handed = handed'
  BY <1>1
<1>5. PICK h : h = handed
  OBVIOUS
<1>6. t = h - size
  BY <1>5
<1> HIDE DEF handed, t
<1>7. CASE \E c \in Offerable : Dispatcher!Receive(c)
  <2>1. PICK c \in Offerable : Dispatcher!Receive(c)
    BY <1>7
  <2>2. /\ dispatchPc = "select" /\ dispatchQueue # << >>
        /\ c = Head(dispatchQueue) /\ dispatchQueue' = Tail(dispatchQueue)
        /\ delivered' = delivered
    BY <2>1 DEF Dispatcher!Receive
  <2>3. size >= 1
    BY <1>2, <2>2, EmptySeq
  <2>4. /\ c = dispatchQueue[1] /\ Len(dispatchQueue') = size - 1
        /\ \A i \in 1 .. Len(dispatchQueue') :
             i + 1 \in 1 .. size /\ dispatchQueue'[i] = dispatchQueue[i + 1]
    BY <1>2, <2>2, <2>3
  <2> HIDE DEF size
  <2>5. c = t + 1 /\ dispatched = t
    <3>1. 1 \in 1 .. size
      BY <1>2, <2>3
    <3> QED
      BY <1>3, <2>2, <2>4, <3>1
  <2>6. c = awaiting /\ c > first /\ c # 0 /\ ~ (c <= dispatched)
    BY <1>2, <1>3, <2>5
  <2>7. \E d \in Offerable : Dispatcher!Match(d)
    <3>1. \A d \in Offerable : Dispatcher!Receive(d) => d = c
      BY <2>2 DEF Dispatcher!Receive
    <3>2. ~ Dispatcher!Detached(c)
      BY <2>6 DEF Dispatcher!Detached
    <3> QED
      BY <2>2, <2>6, <3>1, <3>2
         DEF DispatchChunk, Dispatcher!Dispatch, Dispatcher!DropDetached,
             Dispatcher!Hold, Dispatcher!Collide, Dispatcher!Accept,
             Dispatcher!Evict, Dispatcher!Deliver, Dispatcher!Drain
  <2>8. Dispatcher!Match(c)
    BY <2>2, <2>7 DEF Dispatcher!Match, Dispatcher!Accept, Dispatcher!Receive
  <2>9. /\ first' = t + 1 /\ chunk' = t + 1 /\ dispatchPc' = "deliver"
        /\ UNCHANGED <<dispatched, chunks>>
    BY <2>5, <2>6, <2>8 DEF Dispatcher!Match, Dispatcher!Accept
  <2>10. h - Len(dispatchQueue') = t + 1
    BY <1>2, <1>5, <1>6, <2>4
  <2>11. \A i \in 1 .. Len(dispatchQueue') :
           dispatchQueue'[i] = (t + 1) + i
    <3> SUFFICES ASSUME NEW i \in 1 .. Len(dispatchQueue')
                 PROVE  dispatchQueue'[i] = (t + 1) + i
      OBVIOUS
    <3>1. dispatchQueue'[i] = t + (i + 1)
      BY <1>3, <2>4
    <3> QED
      BY <1>2, <3>1
  <2>12. dispatched' = (t + 1) - 1
    BY <1>2, <2>5, <2>9
  <2>13. h = IF restoring' = 0 THEN restored' ELSE restored' - 1
    BY <1>1, <1>5 DEF handed
  <2> DEFINE u == t + 1
  <2>14. /\ \A i \in 1 .. Len(dispatchQueue') : dispatchQueue'[i] = u + i
         /\ h - Len(dispatchQueue') = u /\ first' = u
         /\ dispatched' = u - 1 /\ chunk' = u
    BY <2>9, <2>10, <2>11, <2>12
  <2> HIDE DEF u
  <2> QED
    BY <1>1, <1>3, <2>2, <2>9, <2>13, <2>14
       DEF DispatchedInOrder, Dispatcher!Slots, Dispatcher!Empty
<1>8. CASE Dispatcher!Deliver
  <2>1. dispatchPc = "deliver" /\ chunk = t /\ dispatched = t - 1
    BY <1>3, <1>8 DEF Dispatcher!Deliver
  <2>2. /\ delivered' = Append(delivered, t) /\ dispatched' = t
        /\ UNCHANGED <<first, chunk, chunks, dispatchQueue>>
        /\ dispatchPc' = Dispatcher!Continue(t, awaiting + 1, chunks)
    BY <1>8, <2>1 DEF Dispatcher!Deliver, Dispatcher!Send
  <2>3. dispatchPc' = "select"
    <3>1. ~ (t < first)
      BY <1>2, <1>3
    <3> QED
      BY <2>2, <3>1 DEF Dispatcher!Continue, Dispatcher!NextIsHeld
  <2>4. /\ Len(delivered) = t - 1 /\ Len(delivered') = t
        /\ \A i \in 1 .. Len(delivered') : delivered'[i] = i
    <3>1. t \in Offerable \/ t \in Nat
      BY <1>2, <1>3
    <3>2. Len(delivered) = t - 1
      BY <1>3, <2>1
    <3>3. /\ Len(delivered') = Len(delivered) + 1
          /\ \A i \in 1 .. Len(delivered) : delivered'[i] = delivered[i]
          /\ delivered'[Len(delivered) + 1] = t
      <4>1. delivered \in Seq(Offerable \cup {t})
        BY <1>2
      <4> QED
        BY <2>2, <4>1
    <3>4. ASSUME NEW i \in 1 .. Len(delivered') PROVE delivered'[i] = i
      <4>1. i \in 1 .. Len(delivered) \/ i = Len(delivered) + 1
        BY <1>2, <3>3
      <4>2. Len(delivered) + 1 = t
        BY <1>2, <3>2
      <4> QED
        BY <1>3, <3>3, <4>1, <4>2
    <3> QED
      BY <1>2, <3>2, <3>3, <3>4
  <2>5. Stream!Successor
    <3>1. Stream!Newest = t - 1
      <4>1. CASE delivered = << >>
        BY <2>4, <4>1 DEF Stream!Newest
      <4>2. CASE delivered # << >>
        <5>1. Len(delivered) \in 1 .. Len(delivered)
          BY <1>2, <4>2, EmptySeq
        <5>2. delivered[Len(delivered)] = Len(delivered)
          BY <1>3, <5>1
        <5> QED
          BY <2>4, <4>2, <5>2 DEF Stream!Newest
      <4> QED
        BY <4>1, <4>2
    <3>2. Stream!Newest + 1 = t
      BY <1>2, <3>1
    <3> QED
      BY <2>2, <3>2 DEF Stream!Successor
  <2>6. h = IF restoring' = 0 THEN restored' ELSE restored' - 1
    BY <1>1, <1>5 DEF handed
  <2>7. /\ t = h - Len(dispatchQueue') /\ first' = t
        /\ \A i \in 1 .. Len(dispatchQueue') : dispatchQueue'[i] = t + i
    BY <1>3, <1>6, <2>2
  <2>8. DispatchedInOrder'
    BY <1>1, <1>3, <2>2, <2>3, <2>4, <2>6, <2>7
       DEF DispatchedInOrder, Dispatcher!Slots, Dispatcher!Empty
  <2> QED
    BY <2>5, <2>8
<1> QED
  BY <1>3, <1>7, <1>8
     DEF DispatchChunk, Dispatcher!Dispatch, Dispatcher!DropDetached,
         Dispatcher!Hold, Dispatcher!Collide, Dispatcher!Match,
         Dispatcher!Accept, Dispatcher!Evict, Dispatcher!Drain

-----------------------------------------------------------------------------
(* Put together. *)

LEMMA Undisturbs ==
  ASSUME GaplessInv, [DecoderNext]_decoderVars
  PROVE  /\ lost' \in Nat /\ duplicates' \in Nat /\ restarts' \in Nat
         /\ Undisturbed' => Undisturbed /\ ~ Duplicate /\ ~ Lose /\ ~ Restart
<1>1. lost \in Nat /\ duplicates \in Nat /\ restarts \in Nat
  BY DEF GaplessInv
<1>2. /\ lost' = lost \/ lost' = lost + 1
      /\ duplicates' = duplicates \/ duplicates' = duplicates + 1
      /\ restarts' = restarts \/ restarts' = restarts + 1
      /\ Lose => lost' = lost + 1
      /\ Duplicate => duplicates' = duplicates + 1
      /\ Restart => restarts' = restarts + 1
  BY DEF DecoderNext, Run, Transmit, Intrude, Duplicate, Lose, Restart,
     Arrives, Decode, PassOn, Assemble, TakeLine, Crash, SendChunk,
     DispatchChunk, Deliver, decoderVars, networkVars, restartVars
<1> QED
  BY <1>1, <1>2 DEF Undisturbed

LEMMA OrderStays ==
  ASSUME NEW n \in Nat
  PROVE  /\ (UnderwayInOrder(n)
               /\ UNCHANGED <<assemblyQueue, decoded, argumentQueue, sent>>)
              => UnderwayInOrder(n)'
         /\ (AssembledInOrder(n)
               /\ UNCHANGED <<pc, packet, last, csn, found, pushed>>)
              => AssembledInOrder(n)'
         /\ (DispatchedInOrder
               /\ UNCHANGED <<restoring, restored, dispatchQueue, chunks, first,
                              dispatchPc, dispatched, chunk, delivered>>)
              => DispatchedInOrder'
<1>1. ASSUME UnderwayInOrder(n),
             UNCHANGED <<assemblyQueue, decoded, argumentQueue, sent>>
      PROVE  UnderwayInOrder(n)'
  BY <1>1 DEF UnderwayInOrder, InWireOrder
<1>2. ASSUME AssembledInOrder(n),
             UNCHANGED <<pc, packet, last, csn, found, pushed>>
      PROVE  AssembledInOrder(n)'
  BY <1>2 DEF AssembledInOrder, ChunksIn, Shards
<1>3. ASSUME DispatchedInOrder,
             UNCHANGED <<restoring, restored, dispatchQueue, chunks, first,
                         dispatchPc, dispatched, chunk, delivered>>
      PROVE  DispatchedInOrder'
  BY <1>3 DEF DispatchedInOrder, Dispatcher!Slots, Dispatcher!Empty
<1> QED
  BY <1>1, <1>2, <1>3

LEMMA StepInOrder ==
  ASSUME DecoderInv, EncodersPackets, Depth <= Lines, PacketsOnce, restarts = 0,
         DispatchedInOrder, NEW n \in 0 .. sent,
         UnderwayInOrder(n), AssembledInOrder(n),
         [DecoderNext]_decoderVars, ~ Duplicate, ~ Lose, ~ Restart
  PROVE  /\ DispatchedInOrder' /\ (delivered' = delivered \/ Stream!Successor)
         /\ \E k \in {n, n + 1} :
              k <= sent' /\ UnderwayInOrder(k)' /\ AssembledInOrder(k)'
<1>1. n \in Nat /\ sent \in Nat /\ n <= sent /\ IInv
  BY SentSize DEF DecoderInv, FromTheWire, OnceInv
<1>2. CASE Transmit \/ Intrude
  <2>1. UnderwayInOrder(n)'
    BY <1>1, <1>2, ArrivalInOrder
  <2>2. /\ UNCHANGED <<vars, restoring, dispatcherVars>>
        /\ sent' = sent \/ sent' = sent + 1
    BY <1>2 DEF Transmit, Intrude, Arrives
  <2>3. AssembledInOrder(n)' /\ DispatchedInOrder' /\ n <= sent'
    BY <1>1, <2>2, OrderStays DEF vars, dispatcherVars
  <2> QED
    BY <2>1, <2>2, <2>3 DEF dispatcherVars
<1>3. CASE Decode \/ PassOn
  <2>1. UnderwayInOrder(n)'
    BY <1>1, <1>3, DecodeInOrder, PassOnInOrder
  <2>2. UNCHANGED <<pc, packet, last, csn, found, pushed, restored,
                    sent, restoring, dispatcherVars>>
    BY <1>3 DEF Decode, PassOn, Arrive, vars, state, networkVars
  <2>3. AssembledInOrder(n)' /\ DispatchedInOrder'
    BY <1>1, <2>2, OrderStays DEF dispatcherVars
  <2> QED
    BY <1>1, <2>1, <2>2, <2>3 DEF dispatcherVars
<1>4. CASE Assemble
  <2>1. /\ Assembly /\ UNCHANGED <<networkVars, decodeVars, restoring,
                                   dispatcherVars>>
        /\ sent' = sent
    BY <1>4 DEF Assemble, networkVars
  <2>2. restored' = restored
    BY <2>1 DEF Assembly, Drop, Join, Open, Replace, Admit, Receive, Push
  <2>3. DispatchedInOrder' /\ delivered' = delivered
    BY <1>1, <2>1, <2>2, OrderStays DEF dispatcherVars
  <2>4. CASE Push
    <3>1. AssembledInOrder(n)'
      BY <1>1, <2>4, PushInOrder
    <3>2. UnderwayInOrder(n)'
      BY <1>1, <2>1, <2>4, OrderStays DEF Push, networkVars, decodeVars
    <3> QED
      BY <1>1, <2>1, <2>3, <3>1, <3>2
  <2>5. CASE \E p \in Packets : Drop(p) \/ Join(p) \/ Open(p) \/ Replace(p)
    <3>1. PICK p \in Packets : Drop(p) \/ Join(p) \/ Open(p) \/ Replace(p)
      BY <2>5
    <3>2. Receive(p)
      BY <3>1 DEF Drop, Join, Open, Replace, Admit
    <3>3. /\ n \in 0 .. PacketsSent - 1 /\ n + 1 \in 0 .. sent
          /\ p = Wire!OnWire(n)
          /\ UnderwayInOrder(n + 1)'
      BY <1>1, <2>1, <3>2, TakenInOrder
    <3>4. AssembledInOrder(n + 1)'
      BY <1>1, <3>1, <3>3, ReceiveInOrder
    <3>5. n + 1 <= sent'
      BY <1>1, <2>1, <3>3
    <3> QED
      BY <2>3, <3>3, <3>4, <3>5
  <2> QED
    BY <2>1, <2>4, <2>5 DEF Assembly
<1>5. CASE TakeLine \/ SendChunk \/ DispatchChunk \/ Deliver
           \/ UNCHANGED decoderVars
  <2>1. /\ UNCHANGED <<pc, packet, last, csn, found, pushed>>
        /\ UNCHANGED <<assemblyQueue, decoded, argumentQueue, sent>>
    BY <1>5 DEF TakeLine, Restore, SendChunk, DispatchChunk, Deliver,
       vars, state, networkVars, decodeVars, decoderVars
  <2>2. UnderwayInOrder(n)' /\ AssembledInOrder(n)' /\ n <= sent'
    BY <1>1, <2>1, OrderStays
  <2>3. DispatchedInOrder' /\ (delivered' = delivered \/ Stream!Successor)
    <3>1. CASE TakeLine
      BY <1>1, <3>1, LineTakenInTurn DEF TakeLine, dispatcherVars
    <3>2. CASE SendChunk
      BY <3>2, ChunkSentInTurn DEF SendChunk, Dispatcher!Offer
    <3>3. CASE DispatchChunk
      BY <3>3, ChunkDispatchedInTurn
    <3>4. CASE Deliver \/ UNCHANGED decoderVars
      BY <1>1, <3>4, OrderStays DEF Deliver, Dispatcher!Consume,
         Dispatcher!state, vars, decoderVars, dispatcherVars
    <3> QED
      BY <1>5, <3>1, <3>2, <3>3, <3>4
  <2> QED
    BY <2>2, <2>3
<1>6. ~ Crash
  BY DEF Crash, Garbled, DecoderInv, FirstRun
<1> QED
  BY <1>2, <1>3, <1>4, <1>5, <1>6 DEF DecoderNext, Run

LEMMA NextKeepsGapless ==
  ASSUME DecoderInv, EncodersPackets, Depth <= Lines, GaplessInv,
         [DecoderNext]_decoderVars
  PROVE  GaplessInv' /\ [Undisturbed' => Stream!Successor]_delivered
<1>1. /\ lost' \in Nat /\ duplicates' \in Nat /\ restarts' \in Nat
      /\ Undisturbed' => Undisturbed /\ ~ Duplicate /\ ~ Lose /\ ~ Restart
  BY Undisturbs
<1>2. ASSUME Undisturbed'
      PROVE  /\ PacketsOnce' /\ DispatchedInOrder'
             /\ \E k \in Nat : /\ k <= sent'
                               /\ UnderwayInOrder(k)' /\ AssembledInOrder(k)'
             /\ delivered' = delivered \/ Stream!Successor
  <2>1. /\ Undisturbed /\ ~ Duplicate /\ ~ Lose /\ ~ Restart
        /\ PacketsOnce /\ DispatchedInOrder
    BY <1>1, <1>2 DEF GaplessInv
  <2>2. PICK n \in 0 .. sent : UnderwayInOrder(n) /\ AssembledInOrder(n)
    BY <2>1 DEF GaplessInv
  <2>3. PacketsOnce'
    BY <2>1, StepKeepsPacketsOnce
  <2>4. /\ DispatchedInOrder' /\ (delivered' = delivered \/ Stream!Successor)
        /\ \E k \in {n, n + 1} :
             k <= sent' /\ UnderwayInOrder(k)' /\ AssembledInOrder(k)'
    BY <2>1, <2>2, StepInOrder DEF Undisturbed
  <2>5. \A k \in {n, n + 1} : k \in Nat
    BY <2>2
  <2> QED
    BY <2>3, <2>4, <2>5
<1>3. sent' \in Nat
  BY StepKeepsWire, SentSize DEF FromTheWire
<1>4. GaplessInv'
  <2>1. ASSUME Undisturbed'
        PROVE  \E k \in 0 .. sent' : UnderwayInOrder(k)' /\ AssembledInOrder(k)'
    <3>1. PICK k \in Nat : /\ k <= sent'
                           /\ UnderwayInOrder(k)' /\ AssembledInOrder(k)'
      BY <1>2, <2>1
    <3>2. k \in 0 .. sent'
      BY <1>3, <3>1
    <3> QED
      BY <3>1, <3>2
  <2> QED
    BY <1>1, <1>2, <2>1 DEF GaplessInv
<1> QED
  BY <1>2, <1>4

LEMMA InitGapless ==
  ASSUME DecoderInit, EncodersPackets
  PROVE  GaplessInv
<1>1. /\ lost = 0 /\ duplicates = 0 /\ restarts = 0 /\ sent = 0
      /\ argumentQueue = << >> /\ decoded = Nil /\ restoring = 0
  BY DEF DecoderInit
<1>2. /\ assemblyQueue = << >> /\ pc = "select" /\ last = 0
      /\ pushed = << >> /\ restored = 0
      /\ found = [line \in LineNumbers |-> 0]
  BY DEF DecoderInit, Init
<1>3. /\ dispatchQueue = << >> /\ first = 0 /\ dispatchPc = "select"
      /\ dispatched = 0 /\ delivered = << >>
      /\ chunks = [at \in Dispatcher!Slots |-> Dispatcher!Empty]
  BY DEF DecoderInit, Dispatcher!Init
<1>4. PacketsOnce
  <2>1. \A p \in Packets : arrived[p] = 0
    BY DEF DecoderInit, Init
  <2> QED
    BY <1>1, <2>1 DEF PacketsOnce, NoCopies
<1>5. DispatchedInOrder
  <2>1. Len(dispatchQueue) = 0 /\ Len(delivered) = 0
    BY <1>3
  <2>2. \A at \in Dispatcher!Slots : chunks[at] = Dispatcher!Empty
    BY <1>3
  <2>3. /\ restoring = 0 /\ restored = 0 /\ first = 0 /\ dispatched = 0
        /\ dispatchPc = "select"
    BY <1>1, <1>2, <1>3
  <2>4. /\ \A i \in 1 .. Len(dispatchQueue) : FALSE
        /\ \A i \in 1 .. Len(delivered) : FALSE
        /\ restored - Len(dispatchQueue) = 0
    BY <2>1, <2>3
  <2> QED
    BY <2>1, <2>2, <2>3, <2>4 DEF DispatchedInOrder
<1>6. UnderwayInOrder(0)
  BY <1>1, <1>2 DEF UnderwayInOrder, InWireOrder
<1>7. AssembledInOrder(0)
  <2>1. \A c \in Chunks, i \in Parts : ~ (Position(c, i) < 0)
    <3> SUFFICES ASSUME NEW c \in Chunks, NEW i \in Parts
                 PROVE  ~ (Position(c, i) < 0)
      OBVIOUS
    <3>1. Position(c, i) \in 0 .. PacketsSent - 1
      BY OnWireAtPosition
    <3> QED
      BY <3>1
  <2>2. \A c \in Chunks : ~ (c <= last)
    BY <1>2 DEF Chunks
  <2>3. Needed - 1 \in Parts /\ 0 \in Parts
    BY NeededIs, Sizes DEF Parts
  <2> QED
    BY <1>2, <2>1, <2>2, <2>3 DEF AssembledInOrder
<1> QED
  BY <1>1, <1>4, <1>5, <1>6, <1>7 DEF GaplessInv

(* As long as nothing is lost or doubled and the encoder is not restarted, *)
(* the client gets chunk 1, 2, 3, ... (codec_test.go:121-122), whatever    *)
(* strays in.  It takes as many lines as the encoder interleaves chunks,   *)
(* as the test has them (codec_test.go:28-31): with fewer two chunks of    *)
(* one block share a line.                                                 *)
THEOREM DeliversGapless ==
  EncodersPackets /\ Depth <= Lines /\ DecoderSpec => GaplessStream
<1> SUFFICES ASSUME EncodersPackets, Depth <= Lines
             PROVE  DecoderSpec => GaplessStream
  OBVIOUS
<1>1. DecoderInit => DecoderInv /\ GaplessInv /\ Stream!Init
  BY InitDecoder, InitGapless DEF DecoderInit, Dispatcher!Init, Stream!Init
<1>2. DecoderInv /\ GaplessInv /\ [DecoderNext]_decoderVars
        => /\ DecoderInv' /\ GaplessInv'
           /\ [Undisturbed' => Stream!Successor]_delivered
  BY NextKeepsGapless, StepKeepsDecoder
<1> QED
  BY <1>1, <1>2, PTL DEF DecoderSpec, GaplessStream

-----------------------------------------------------------------------------
(* Enough is pushed.  What came of the present run of the encoder is told  *)
(* by its csn for the chunks its former run did not get to, the fresh ones.*)

Fresh(c) == \A d \in former : d < c

At(p) == Position(p.csn, p.psn)

(* What the assembler has received, and the parts of a chunk among it. *)
Taken ==
  {p \in Packets : /\ arrived[p] > 0
                   /\ \A i \in 1 .. Len(assemblyQueue) : assemblyQueue[i] # p}

TakenParts(c) == {i \in Parts : [csn |-> c, psn |-> i] \in Taken}

(* Behind a fresh packet come later ones of the wire only: everything      *)
(* under way keeps its order, and the former run went ahead.               *)
FreshInOrder ==
  /\ \A p \in Packets : (Fresh(p.csn) /\ arrived[p] > 0) =>
       /\ At(p) < sent
       /\ p \in Taken =>
            \A i \in 1 .. Len(assemblyQueue) : At(p) < At(assemblyQueue[i])
       /\ decoded # Nil => At(p) < At(decoded)
       /\ \A i \in 1 .. Len(argumentQueue) :
            argumentQueue[i] # Stray => At(p) < At(argumentQueue[i])
  /\ \A i \in 1 .. Len(assemblyQueue) : Fresh(assemblyQueue[i].csn) =>
       \A j \in i + 1 .. Len(assemblyQueue) :
         At(assemblyQueue[i]) < At(assemblyQueue[j])
  /\ (decoded # Nil /\ Fresh(decoded.csn)) =>
       /\ At(decoded) < sent
       /\ \A i \in 1 .. Len(argumentQueue) :
            argumentQueue[i] # Stray => At(decoded) < At(argumentQueue[i])
  /\ \A i \in 1 .. Len(argumentQueue) :
       (argumentQueue[i] # Stray /\ Fresh(argumentQueue[i].csn)) =>
         /\ At(argumentQueue[i]) < sent
         /\ \A j \in i + 1 .. Len(argumentQueue) :
              argumentQueue[j] # Stray =>
                At(argumentQueue[i]) < At(argumentQueue[j])

(* A packet that is lost: a later one has come in. *)
Missed(p) ==
  /\ arrived[p] = 0
  /\ \E q \in Packets : Fresh(q.csn) /\ arrived[q] > 0 /\ At(p) < At(q)

(* What becomes of a chunk: it is pushed, or a neighbour overtakes it while *)
(* it waits for a data part that is lost.                                  *)
Settled(c) ==
  \/ c \in PushedCsn
  \/ /\ \E d \in BlockOf(c) \cap PushedCsn : d > c
     /\ \E i \in DataParts : Missed([csn |-> c, psn |-> i])

BlockNumber(c) == (c - 1) \div Depth

(* Packets of chunk c may still come: none of a later block did. *)
Expected(c) ==
  \A p \in Taken : Fresh(p.csn) => BlockNumber(p.csn) <= BlockNumber(c)

(* The cursor was set by something that arrived, and a line that is pushed *)
(* is full and holds the packet in hand.                                   *)
CursorArrived ==
  last # 0 => \E p \in Packets : p.csn = last /\ arrived[p] > 0

PushesFullLine ==
  pc = "push" => /\ found[AtChunk(packet.csn)] >= Data
                 /\ packets[AtPacket(packet)] = packet

CountedTaken ==
  \A line \in LineNumbers : (found[line] # 0 /\ Fresh(csn[line])) =>
    found[line] <= Cardinality(TakenParts(csn[line]))

(* A chunk that is not settled has too few packets, unless it is about to  *)
(* be pushed ...                                                           *)
TooFewTaken ==
  \A c \in Chunks : (Fresh(c) /\ ~ Settled(c)) =>
    \/ Cardinality(TakenParts(c)) < Data
    \/ pc = "push" /\ packet.csn = c

(* ... and while more may come it is ahead of the cursor, and those it has *)
(* are all in its line.                                                    *)
StillCollected ==
  \A c \in Chunks : (Fresh(c) /\ ~ Settled(c) /\ Expected(c)) =>
    /\ last < c
    /\ TakenParts(c) # {} =>
         /\ csn[AtChunk(c)] = c
         /\ found[AtChunk(c)] = Cardinality(TakenParts(c))

EnoughInv ==
  /\ duplicates \in Nat /\ restarts \in Nat
  /\ former \subseteq Nat /\ (restarts = 0 => former = {})
  /\ CursorArrived
  /\ PushesFullLine
  /\ duplicates = 0 =>
       /\ FreshInOrder
       /\ CountedTaken
       /\ TooFewTaken
       /\ StillCollected

(* Where a packet is on the wire tells which packet it is. *)
LEMMA PacketsHavePlaces ==
  ASSUME EncodersPackets
  PROVE  /\ \A p \in Packets :
              /\ p.csn \in Chunks /\ p.psn \in Parts
              /\ p = [csn |-> p.csn, psn |-> p.psn]
              /\ At(p) \in 0 .. PacketsSent - 1 /\ Wire!OnWire(At(p)) = p
         /\ \A p \in Packets, q \in Packets : At(p) = At(q) => p = q
         /\ \A n \in 0 .. PacketsSent - 1 :
              /\ Wire!OnWire(n) \in Packets /\ Wire!OnWire(n) # Stray
              /\ At(Wire!OnWire(n)) = n
<1>1. ASSUME NEW p \in Packets
      PROVE  /\ p.csn \in Chunks /\ p.psn \in Parts
             /\ p = [csn |-> p.csn, psn |-> p.psn]
             /\ At(p) \in 0 .. PacketsSent - 1 /\ Wire!OnWire(At(p)) = p
  <2>1. /\ p.csn \in Chunks /\ p.psn \in Parts
        /\ p = [csn |-> p.csn, psn |-> p.psn]
    BY <1>1 DEF EncodersPackets
  <2> QED
    BY <2>1, OnWireAtPosition DEF At
<1>2. ASSUME NEW n \in 0 .. PacketsSent - 1
      PROVE  /\ Wire!OnWire(n) \in Packets /\ Wire!OnWire(n) # Stray
             /\ At(Wire!OnWire(n)) = n
  <2> DEFINE p == Wire!OnWire(n)
  <2>1. p \in Packets
    BY WireInRange DEF EncodersPackets
  <2>2. Wire!OnWire(n) = [csn |-> p.csn, psn |-> p.psn]
        /\ p.csn \in Chunks /\ p.psn \in Parts
    BY <1>1, <2>1
  <2>3. At(p) = n
    BY <2>2, PositionOf DEF At
  <2> QED
    BY <2>1, <2>3, PacketKinds
<1> QED
  BY <1>1, <1>2

LEMMA EarlierBlock ==
  ASSUME EncodersPackets, NEW p \in Packets, NEW q \in Packets, At(p) < At(q)
  PROVE  BlockNumber(p.csn) <= BlockNumber(q.csn)
<1>1. /\ p.csn \in Chunks /\ p.psn \in Parts
      /\ q.csn \in Chunks /\ q.psn \in Parts
  BY PacketsHavePlaces
<1> DEFINE size == Depth * Total
<1>2. size \in Nat
  BY DecoderAssumption, Sizes
<1>3. PICK a \in Nat, r \in 0 .. Depth - 1 :
        /\ Depth * p.psn + r \in 0 .. size - 1
        /\ At(p) = size * a + (Depth * p.psn + r)
        /\ a = (p.csn - 1) \div Depth
  BY <1>1, PositionIs DEF At
<1>4. PICK b \in Nat, s \in 0 .. Depth - 1 :
        /\ Depth * q.psn + s \in 0 .. size - 1
        /\ At(q) = size * b + (Depth * q.psn + s)
        /\ b = (q.csn - 1) \div Depth
  BY <1>1, PositionIs DEF At
<1> DEFINE x == Depth * p.psn + r
           y == Depth * q.psn + s
           pa == size * a
           pb == size * b
<1> HIDE DEF size
<1>5. /\ x \in 0 .. size - 1 /\ y \in 0 .. size - 1
      /\ At(p) = pa + x /\ At(q) = pb + y /\ pa \in Nat /\ pb \in Nat
      /\ a > b => pa >= pb + size
  BY <1>2, <1>3, <1>4, MultiplesApart
<1> HIDE DEF x, y, pa, pb
<1>6. ~ (a > b)
  BY <1>2, <1>5
<1> QED
  BY <1>3, <1>4, <1>6 DEF BlockNumber

LEMMA BlocksInOrder ==
  ASSUME NEW c \in Chunks, NEW d \in Chunks
  PROVE  /\ BlockNumber(c) \in Nat
         /\ c <= d => BlockNumber(c) <= BlockNumber(d)
         /\ (Depth <= Lines /\ BlockNumber(c) = BlockNumber(d)
               /\ AtChunk(c) = AtChunk(d)) => c = d
         /\ BlockNumber(c) = BlockNumber(d) => d \in BlockOf(c)
<1>1. Depth \in Nat \ {0} /\ c \in Nat \ {0} /\ d \in Nat \ {0}
  BY DecoderAssumption DEF Chunks
<1> DEFINE a == (c - 1) \div Depth
           b == (d - 1) \div Depth
           pa == Depth * a
           pb == Depth * b
<1>2. PICK r \in 0 .. Depth - 1 : c - 1 = pa + r /\ a \in Nat
  <2>1. c - 1 \in Nat
    BY <1>1
  <2> QED
    BY <1>1, <2>1, DivMod
<1>3. PICK s \in 0 .. Depth - 1 : d - 1 = pb + s /\ b \in Nat
  <2>1. d - 1 \in Nat
    BY <1>1
  <2> QED
    BY <1>1, <2>1, DivMod
<1>4. /\ pa \in Nat /\ pb \in Nat
      /\ a > b => pa >= pb + Depth
  BY <1>1, <1>2, <1>3, MultiplesApart
<1>5. c <= d => a <= b
  <2> HIDE DEF a, b, pa, pb
  <2> QED
    BY <1>1, <1>2, <1>3, <1>4
<1>6. ASSUME Depth <= Lines, a = b, AtChunk(c) = AtChunk(d)
      PROVE  c = d
  <2>1. pa = pb
    BY <1>6
  <2>2. c - d < Lines /\ d - c < Lines
    <3> HIDE DEF pa, pb
    <3> QED
      BY <1>1, <1>2, <1>3, <1>4, <1>6, <2>1, LinesAssumption
  <2> QED
    BY <1>1, <1>6, <2>2, LinesAssumption, RemainderTellsApart DEF AtChunk
<1> QED
  BY <1>2, <1>5, <1>6 DEF BlockNumber, BlockOf

(* The order of what came after a fresh packet.  Only a packet that is     *)
(* doubled disturbs it.                                                    *)
LEMMA WireKeepsOrder ==
  ASSUME DecoderInv, EncodersPackets, FreshInOrder,
         Transmit \/ Intrude \/ Lose
  PROVE  FreshInOrder'
<1> DEFINE queue == argumentQueue
<1>1. /\ sent \in Nat /\ queue \in Seq(Packets \cup {Stray})
      /\ Len(queue) \in Nat
  BY SentSize DEF DecoderInv, FromTheWire
<1>2. /\ \A c : Fresh(c)' <=> Fresh(c)
      /\ Taken' = Taken
      /\ UNCHANGED <<arrived, assemblyQueue, decoded>>
  BY DEF Transmit, Intrude, Lose, Arrives, vars, decodeVars, restartVars,
     Fresh, Taken
<1>3. CASE Lose
  <2>1. sent' = sent + 1 /\ queue' = queue
    BY <1>3 DEF Lose, decodeVars
  <2>2. \A n \in Int : n < sent => n < sent'
    BY <1>1, <2>1
  <2>3. /\ \A p \in Packets : At(p) \in Int
        /\ decoded # Nil => At(decoded) \in Int
        /\ \A i \in 1 .. Len(queue) : queue[i] # Stray => At(queue[i]) \in Int
    <3>1. \A p \in Packets : At(p) \in Int
      BY PacketsHavePlaces
    <3>2. decoded \in Packets \cup {Nil}
      BY DEF DecoderInv, FromTheWire
    <3> QED
      BY <1>1, <3>1, <3>2
  <2> QED
    BY <1>1, <1>2, <2>1, <2>2, <2>3 DEF FreshInOrder
<1>4. ASSUME NEW q \in Packets \cup {Stray}, Arrives(q), sent' >= sent,
             sent' \in Nat, q # Stray => At(q) = sent /\ sent' > sent
      PROVE  FreshInOrder'
  <2>1. /\ Len(queue') = Len(queue) + 1
        /\ \A i \in 1 .. Len(queue) : queue'[i] = queue[i]
        /\ queue'[Len(queue) + 1] = q
    BY <1>1, <1>4 DEF Arrives
  <2>2. \A i \in 1 .. Len(queue') :
          \/ i \in 1 .. Len(queue) /\ queue'[i] = queue[i]
          \/ i = Len(queue) + 1 /\ queue'[i] = q
    BY <1>1, <2>1
  <2>3. \A p \in Packets : At(p) \in Int
    BY PacketsHavePlaces
  <2>4. ASSUME NEW p \in Packets, Fresh(p.csn), arrived[p] > 0
        PROVE  /\ At(p) < sent'
               /\ \A i \in 1 .. Len(queue') :
                    queue'[i] # Stray => At(p) < At(queue'[i])
    BY <1>1, <1>4, <2>2, <2>3, <2>4 DEF FreshInOrder
  <2>5. ASSUME decoded # Nil, Fresh(decoded.csn)
        PROVE  /\ At(decoded) < sent'
               /\ \A i \in 1 .. Len(queue') :
                    queue'[i] # Stray => At(decoded) < At(queue'[i])
    <3>1. decoded \in Packets
      BY <2>5 DEF DecoderInv, FromTheWire
    <3> QED
      BY <1>1, <1>4, <2>2, <2>3, <2>5, <3>1 DEF FreshInOrder
  <2>6. ASSUME NEW i \in 1 .. Len(queue'), queue'[i] # Stray,
               Fresh(queue'[i].csn)
        PROVE  /\ At(queue'[i]) < sent'
               /\ \A j \in i + 1 .. Len(queue') :
                    queue'[j] # Stray => At(queue'[i]) < At(queue'[j])
    <3>1. CASE i = Len(queue) + 1
      BY <1>1, <1>4, <2>1, <2>6, <3>1
    <3>2. CASE i \in 1 .. Len(queue)
      <4>1. queue'[i] = queue[i] /\ queue[i] \in Packets
        BY <1>1, <2>1, <2>6, <3>2
      <4>2. At(queue[i]) < sent
        BY <2>6, <3>2, <4>1 DEF FreshInOrder
      <4>3. \A j \in i + 1 .. Len(queue) :
              queue[j] # Stray => At(queue[i]) < At(queue[j])
        BY <2>6, <3>2, <4>1 DEF FreshInOrder
      <4>4. ASSUME NEW j \in i + 1 .. Len(queue'), queue'[j] # Stray
            PROVE  At(queue[i]) < At(queue'[j])
        BY <1>1, <1>4, <2>1, <2>2, <4>2, <4>3, <4>4
      <4> QED
        BY <1>1, <1>4, <2>3, <4>1, <4>2, <4>4
    <3> QED
      BY <2>2, <3>1, <3>2
  <2> QED
    BY <1>2, <2>4, <2>5, <2>6 DEF FreshInOrder
<1>5. CASE Intrude
  BY <1>1, <1>4, <1>5 DEF Intrude
<1>6. CASE Transmit
  <2>1. sent \in 0 .. PacketsSent - 1 /\ sent' = sent + 1
    BY <1>1, <1>6, SentSize DEF Transmit
  <2> QED
    BY <1>1, <1>4, <1>6, <2>1, PacketsHavePlaces DEF Transmit
<1> QED
  BY <1>3, <1>5, <1>6

LEMMA DecodeKeepsOrder ==
  ASSUME DecoderInv, EncodersPackets, FreshInOrder, Decode
  PROVE  FreshInOrder'
<1> DEFINE queue == argumentQueue
<1>1. /\ queue \in Seq(Packets \cup {Stray}) /\ Len(queue) \in Nat
      /\ queue # << >>
      /\ decoded' = IF queue[1] = Stray THEN Nil ELSE queue[1]
  BY DEF DecoderInv, FromTheWire, Decode
<1>2. /\ Len(queue) >= 1 /\ Len(queue') = Len(queue) - 1
      /\ \A i \in 1 .. Len(queue') : i + 1 \in 1 .. Len(queue)
                                       /\ queue'[i] = queue[i + 1]
  BY <1>1, EmptySeq DEF Decode
<1>3. /\ \A c : Fresh(c)' <=> Fresh(c)
      /\ Taken' = Taken
      /\ UNCHANGED <<sent, arrived, assemblyQueue>>
  BY DEF Decode, vars, networkVars, restartVars, Fresh, Taken
<1>4. ASSUME NEW p \in Packets, Fresh(p.csn), arrived[p] > 0
      PROVE  /\ decoded' # Nil => At(p) < At(decoded')
             /\ \A i \in 1 .. Len(queue') :
                  queue'[i] # Stray => At(p) < At(queue'[i])
  BY <1>1, <1>2, <1>4 DEF FreshInOrder
<1>5. ASSUME decoded' # Nil, Fresh(decoded'.csn)
      PROVE  /\ At(decoded') < sent
             /\ \A i \in 1 .. Len(queue') :
                  queue'[i] # Stray => At(decoded') < At(queue'[i])
  <2>1. queue[1] # Stray /\ decoded' = queue[1] /\ 1 \in 1 .. Len(queue)
    BY <1>1, <1>2, <1>5
  <2>2. \A j \in 1 + 1 .. Len(queue) :
          queue[j] # Stray => At(queue[1]) < At(queue[j])
    BY <1>5, <2>1 DEF FreshInOrder
  <2>3. At(queue[1]) < sent
    BY <1>5, <2>1 DEF FreshInOrder
  <2> QED
    BY <1>1, <1>2, <2>1, <2>2, <2>3
<1>6. ASSUME NEW i \in 1 .. Len(queue'), queue'[i] # Stray,
             Fresh(queue'[i].csn)
      PROVE  /\ At(queue'[i]) < sent
             /\ \A j \in i + 1 .. Len(queue') :
                  queue'[j] # Stray => At(queue'[i]) < At(queue'[j])
  <2>1. i + 1 \in 1 .. Len(queue) /\ queue'[i] = queue[i + 1]
    BY <1>2
  <2>2. /\ At(queue[i + 1]) < sent
        /\ \A j \in (i + 1) + 1 .. Len(queue) :
             queue[j] # Stray => At(queue[i + 1]) < At(queue[j])
    BY <1>6, <2>1 DEF FreshInOrder
  <2>3. \A j \in i + 1 .. Len(queue') :
          j + 1 \in (i + 1) + 1 .. Len(queue) /\ queue'[j] = queue[j + 1]
    BY <1>1, <1>2, <2>1
  <2> QED
    BY <2>1, <2>2, <2>3
<1> QED
  BY <1>3, <1>4, <1>5, <1>6 DEF FreshInOrder

LEMMA PassOnKeepsOrder ==
  ASSUME DecoderInv, EncodersPackets, FreshInOrder, PassOn
  PROVE  /\ FreshInOrder'
         /\ \A p \in Packets : Fresh(p.csn) => (p \in Taken' <=> p \in Taken)
<1> DEFINE queue == assemblyQueue
<1>1. /\ queue \in Seq(Packets) /\ Len(queue) \in Nat
      /\ decoded \in Packets /\ decoded # Nil /\ decoded' = Nil
      /\ arrived \in [Packets -> Nat]
  BY DEF DecoderInv, FromTheWire, OnceInv, IInv, TypeOK, PassOn
<1>2. /\ Len(queue') = Len(queue) + 1
      /\ \A i \in 1 .. Len(queue) : queue'[i] = queue[i]
      /\ queue'[Len(queue) + 1] = decoded
      /\ arrived'[decoded] = arrived[decoded] + 1
      /\ \A p \in Packets \ {decoded} : arrived'[p] = arrived[p]
  BY <1>1 DEF PassOn, Arrive
<1>3. \A i \in 1 .. Len(queue') :
        \/ i \in 1 .. Len(queue) /\ queue'[i] = queue[i]
        \/ i = Len(queue) + 1 /\ queue'[i] = decoded
  BY <1>1, <1>2
<1>4. /\ \A c : Fresh(c)' <=> Fresh(c)
      /\ UNCHANGED <<sent, argumentQueue>>
  BY DEF PassOn, networkVars, restartVars, Fresh
<1>5. \A p \in Packets : (Fresh(p.csn) /\ arrived[p] > 0) =>
        At(p) < At(decoded) /\ p # decoded
  <2>1. \A p \in Packets : At(p) \in Int
    BY PacketsHavePlaces
  <2> QED
    BY <1>1, <2>1 DEF FreshInOrder
<1>6. ASSUME NEW p \in Packets, Fresh(p.csn)
      PROVE  p \in Taken' <=> p \in Taken
  <2>1. ASSUME p \in Taken' PROVE p \in Taken
    <3>1. p # decoded
      BY <1>1, <1>2, <2>1 DEF Taken
    <3>2. arrived[p] > 0
      BY <1>2, <2>1, <3>1 DEF Taken
    <3> QED
      BY <1>1, <1>2, <2>1, <3>2 DEF Taken
  <2>2. ASSUME p \in Taken PROVE p \in Taken'
    <3>1. p # decoded /\ arrived[p] > 0
      BY <1>5, <1>6, <2>2 DEF Taken
    <3>2. arrived'[p] > 0
      BY <1>2, <3>1
    <3> QED
      BY <1>3, <2>2, <3>1, <3>2 DEF Taken
  <2> QED
    BY <2>1, <2>2
<1>7. ASSUME NEW p \in Packets, Fresh(p.csn), arrived'[p] > 0
      PROVE  /\ At(p) < sent
             /\ p \in Taken' => \A i \in 1 .. Len(queue') : At(p) < At(queue'[i])
             /\ \A i \in 1 .. Len(argumentQueue) :
                  argumentQueue[i] # Stray => At(p) < At(argumentQueue[i])
  <2>1. CASE p = decoded
    <3>1. p \notin Taken'
      BY <1>1, <1>2, <2>1 DEF Taken
    <3> QED
      BY <1>1, <1>7, <2>1, <3>1 DEF FreshInOrder
  <2>2. CASE p # decoded
    <3>1. arrived[p] > 0
      BY <1>2, <1>7, <2>2
    <3>2. p \in Taken' => \A i \in 1 .. Len(queue') : At(p) < At(queue'[i])
      BY <1>3, <1>5, <1>6, <1>7, <3>1 DEF FreshInOrder
    <3> QED
      BY <1>7, <3>1, <3>2 DEF FreshInOrder
  <2> QED
    BY <2>1, <2>2
<1>8. ASSUME NEW i \in 1 .. Len(queue'), Fresh(queue'[i].csn),
             NEW j \in i + 1 .. Len(queue')
      PROVE  At(queue'[i]) < At(queue'[j])
  <2>1. i \in 1 .. Len(queue) /\ queue'[i] = queue[i] /\ queue[i] \in Packets
    BY <1>1, <1>2, <1>3
  <2>2. arrived[queue[i]] > 0
    BY <2>1 DEF DecoderInv, OrderInv, HeldArrived
  <2>3. CASE j = Len(queue) + 1
    BY <1>2, <1>5, <1>8, <2>1, <2>2, <2>3
  <2>4. CASE j \in 1 .. Len(queue)
    <3>1. j \in i + 1 .. Len(queue)
      BY <2>1, <2>4
    <3> QED
      BY <1>2, <1>8, <2>1, <2>4, <3>1 DEF FreshInOrder
  <2> QED
    BY <1>3, <2>3, <2>4
<1>9. FreshInOrder'
  BY <1>1, <1>4, <1>7, <1>8 DEF FreshInOrder
<1> QED
  BY <1>6, <1>9

(* A packet that is received is taken.  A fresh one was not before, and    *)
(* nothing of a later block has been.                                      *)
LEMMA ReceiveKeepsOrder ==
  ASSUME DecoderInv, EncodersPackets, FreshInOrder, NEW p \in Packets,
         Receive(p), UNCHANGED <<networkVars, decodeVars, former>>
  PROVE  /\ FreshInOrder'
         /\ Taken \subseteq Taken' /\ Taken' \subseteq Taken \cup {p}
         /\ Fresh(p.csn) => p \in Taken' /\ p \notin Taken
         /\ \A q \in Taken : Fresh(q.csn) => At(q) < At(p)
<1> DEFINE queue == assemblyQueue
<1>1. /\ queue \in Seq(Packets) /\ Len(queue) \in Nat /\ Len(queue) >= 1
      /\ p = queue[1] /\ Len(queue') = Len(queue) - 1
      /\ \A i \in 1 .. Len(queue') : i + 1 \in 1 .. Len(queue)
                                       /\ queue'[i] = queue[i + 1]
  BY ReceiveFacts DEF DecoderInv, OnceInv, IInv, TypeOK
<1>2. /\ \A c : Fresh(c)' <=> Fresh(c)
      /\ UNCHANGED <<sent, arrived, decoded, argumentQueue>>
  BY DEF Receive, networkVars, decodeVars, Fresh
<1>3. Taken \subseteq Taken' /\ Taken' \subseteq Taken \cup {p}
  <2>1. Taken \subseteq Taken'
    BY <1>1, <1>2 DEF Taken
  <2>2. ASSUME NEW q \in Taken', q # p
        PROVE  q \in Taken
    <3>1. ASSUME NEW i \in 1 .. Len(queue)
          PROVE  queue[i] # q
      <4>1. CASE i = 1
        BY <1>1, <2>2, <4>1
      <4>2. CASE i # 1
        <5>1. i - 1 \in 1 .. Len(queue') /\ (i - 1) + 1 = i
          BY <1>1, <4>2
        <5>2. queue'[i - 1] = queue[i]
          BY <1>1, <5>1
        <5> QED
          BY <2>2, <5>1, <5>2 DEF Taken
      <4> QED
        BY <4>1, <4>2
    <3> QED
      BY <1>2, <2>2, <3>1 DEF Taken
  <2> QED
    BY <2>1, <2>2
<1>4. \A q \in Packets : At(q) \in Int
  BY PacketsHavePlaces
<1>5. arrived[p] > 0 /\ 1 \in 1 .. Len(queue)
  BY <1>1 DEF DecoderInv, OrderInv, HeldArrived
<1>6. Fresh(p.csn) => \A j \in 1 + 1 .. Len(queue) : At(p) < At(queue[j])
  BY <1>1, <1>5 DEF FreshInOrder
<1>7. Fresh(p.csn) => /\ \A i \in 1 .. Len(queue') : At(p) < At(queue'[i])
                      /\ p \in Taken' /\ p \notin Taken
  <2>1. \A i \in 1 .. Len(queue') : i + 1 \in 1 + 1 .. Len(queue)
                                     /\ queue'[i] \in Packets
    BY <1>1
  <2>2. Fresh(p.csn) => \A i \in 1 .. Len(queue') : At(p) < At(queue'[i])
    BY <1>1, <1>6, <2>1
  <2>3. p \notin Taken
    BY <1>1, <1>5 DEF Taken
  <2>4. Fresh(p.csn) => \A i \in 1 .. Len(queue') : queue'[i] # p
    BY <1>4, <2>1, <2>2
  <2> QED
    BY <1>2, <1>5, <2>2, <2>3, <2>4 DEF Taken
<1>8. \A q \in Taken : Fresh(q.csn) =>
        \A i \in 1 .. Len(queue) : At(q) < At(queue[i])
  BY DEF Taken, FreshInOrder
<1>9. ASSUME NEW q \in Packets, Fresh(q.csn), q \in Taken'
      PROVE  \A i \in 1 .. Len(queue') : At(q) < At(queue'[i])
  BY <1>1, <1>3, <1>7, <1>8, <1>9
<1>10. ASSUME NEW i \in 1 .. Len(queue'), Fresh(queue'[i].csn),
              NEW j \in i + 1 .. Len(queue')
       PROVE  At(queue'[i]) < At(queue'[j])
  <2>1. /\ i + 1 \in 1 .. Len(queue) /\ queue'[i] = queue[i + 1]
        /\ j \in 1 .. Len(queue') /\ queue'[j] = queue[j + 1]
        /\ j + 1 \in (i + 1) + 1 .. Len(queue)
    BY <1>1
  <2> QED
    BY <1>10, <2>1 DEF FreshInOrder
<1>11. FreshInOrder'
  BY <1>2, <1>9, <1>10 DEF FreshInOrder
<1> QED
  BY <1>1, <1>3, <1>5, <1>7, <1>8, <1>11

(* What is missed or settled remains so: a packet that is missed lies      *)
(* before everything that is still to come.                                *)
LEMMA PresentRunGoesOn ==
  ASSUME [DecoderNext]_decoderVars, ~ Restart
  PROVE  former' = former /\ restarts' = restarts
BY DEF DecoderNext, Run, Transmit, Intrude, Duplicate, Lose, Arrives, Decode,
   PassOn, Assemble, TakeLine, Crash, SendChunk, DispatchChunk, Deliver,
   decoderVars, restartVars

LEMMA MissedStays ==
  ASSUME DecoderInv, EncodersPackets, FreshInOrder, NEW p \in Packets,
         Missed(p), [DecoderNext]_decoderVars, ~ Restart
  PROVE  Missed(p)'
<1>1. \A c : Fresh(c)' <=> Fresh(c)
  BY PresentRunGoesOn DEF Fresh
<1>2. /\ arrived[p] = 0
      /\ \E q \in Packets : Fresh(q.csn) /\ arrived[q] > 0 /\ At(p) < At(q)
  BY DEF Missed
<1>3. \A q \in Packets : arrived[q] > 0 => arrived'[q] > 0
  <2>1. \A q \in Packets : arrived'[q] >= arrived[q]
    BY DecoderStep, ArrivedGrows DEF DecoderInv, OnceInv, IInv
  <2>2. arrived \in [Packets -> Nat] /\ arrived' \in [Packets -> Nat]
    BY StepKeepsParts DEF DecoderInv, OnceInv, IInv, TypeOK
  <2> QED
    BY <2>1, <2>2
<1>4. arrived'[p] = 0
  <2>1. CASE PassOn
    <3>1. /\ decoded \in Packets /\ decoded # Nil
          /\ arrived' = [arrived EXCEPT ![decoded] = @ + 1]
          /\ arrived \in [Packets -> Nat]
      BY <2>1 DEF DecoderInv, FromTheWire, OnceInv, IInv, TypeOK, PassOn,
         Arrive
    <3>2. p # decoded
      <4>1. PICK q \in Packets :
              Fresh(q.csn) /\ arrived[q] > 0 /\ At(p) < At(q)
        BY <1>2
      <4>2. At(q) < At(decoded)
        BY <3>1, <4>1 DEF FreshInOrder
      <4>3. At(p) \in Int /\ At(q) \in Int /\ At(decoded) \in Int
        BY <3>1, PacketsHavePlaces
      <4> QED
        BY <4>1, <4>2, <4>3
    <3> QED
      BY <1>2, <3>1, <3>2
  <2>2. CASE ~ PassOn
    <3>1. arrived' = arrived
      BY <2>2 DEF DecoderNext, Run, Transmit, Intrude, Duplicate, Lose,
         Restart, Arrives, Decode, Assemble, Assembly, Drop, Join, Open,
         Replace, Admit, Receive, Push, TakeLine, Crash, Restore, SendChunk,
         DispatchChunk, Deliver, decoderVars, vars
    <3> QED
      BY <1>2, <3>1
  <2> QED
    BY <2>1, <2>2
<1> QED
  BY <1>1, <1>2, <1>3, <1>4 DEF Missed

LEMMA DataPartsAreParts == DataParts \subseteq Parts
BY PartsAssumption DEF DataParts, Parts

LEMMA SettledStays ==
  ASSUME DecoderInv, EncodersPackets, FreshInOrder,
         [DecoderNext]_decoderVars, ~ Restart
  PROVE  \A c \in Chunks : Settled(c) => Settled(c)'
<1>1. PushedCsn \subseteq PushedCsn'
  <2>1. TypeOK /\ IInv /\ PartsInRange
    BY EncoderKeepsRange DEF DecoderInv, OnceInv, IInv
  <2>2. CASE pushed' = pushed
    BY <2>2 DEF PushedCsn, PushedLines, ChunksIn, Shards
  <2>3. CASE Push
    BY <2>1, <2>3, PushedChunks
  <2> QED
    BY <2>1, <2>2, <2>3, DecoderStep, PushedGrows
<1>2. \A c \in Chunks, i \in DataParts :
        Missed([csn |-> c, psn |-> i]) => Missed([csn |-> c, psn |-> i])'
  <2>1. \A c \in Chunks, i \in DataParts : [csn |-> c, psn |-> i] \in Packets
    BY DataPartsAreParts DEF EncodersPackets
  <2> QED
    BY <2>1, MissedStays
<1> QED
  BY <1>1, <1>2 DEF Settled, BlockOf, DataParts

(* Steps that take no packet and push no line. *)
LEMMA QuietKeepsEnough ==
  ASSUME FreshInOrder, CountedTaken, TooFewTaken, StillCollected,
         UNCHANGED <<former, last, csn, found, packet, pc>>,
         \A c \in Chunks : Settled(c) => Settled(c)',
         \A p \in Packets : Fresh(p.csn) => (p \in Taken' <=> p \in Taken)
  PROVE  CountedTaken' /\ TooFewTaken' /\ StillCollected'
<1>1. \A c : Fresh(c)' <=> Fresh(c)
  BY DEF Fresh
<1>2. \A c : Fresh(c) => TakenParts(c)' = TakenParts(c)
  <2> SUFFICES ASSUME NEW c, Fresh(c)
               PROVE  TakenParts(c)' = TakenParts(c)
    OBVIOUS
  <2>1. ASSUME NEW i \in Parts
        PROVE  [csn |-> c, psn |-> i] \in Taken'
                 <=> [csn |-> c, psn |-> i] \in Taken
    <3>1. [csn |-> c, psn |-> i].csn = c
      OBVIOUS
    <3>2. Taken \subseteq Packets /\ Taken' \subseteq Packets
      BY DEF Taken
    <3> QED
      BY <3>1, <3>2
  <2> QED
    BY <2>1 DEF TakenParts
<1>3. \A c \in Chunks : Expected(c)' => Expected(c)
  <2>1. \A p \in Taken : Fresh(p.csn) => p \in Taken' /\ Fresh(p.csn)'
    BY <1>1 DEF Taken
  <2> QED
    BY <2>1 DEF Expected, BlockNumber
<1>4. CountedTaken'
  BY <1>1, <1>2 DEF CountedTaken
<1>5. TooFewTaken'
  BY <1>1, <1>2 DEF TooFewTaken
<1>6. StillCollected'
  BY <1>1, <1>2, <1>3 DEF StillCollected, AtChunk
<1> QED
  BY <1>4, <1>5, <1>6

(* What a packet that is received adds to the parts that are taken. *)
LEMMA TakesOne ==
  ASSUME DecoderInv, EncodersPackets, FreshInOrder, NEW p \in Packets,
         Receive(p), UNCHANGED <<networkVars, decodeVars, former>>
  PROVE  /\ p.csn \in Chunks /\ p.psn \in Parts
         /\ \A c : Fresh(c)' <=> Fresh(c)
         /\ \A c : /\ IsFiniteSet(TakenParts(c))
                   /\ Cardinality(TakenParts(c)) \in Nat
                   /\ Cardinality(TakenParts(c)) = 0 <=> TakenParts(c) = {}
         /\ \A c : (Fresh(c) /\ c # p.csn) => TakenParts(c)' = TakenParts(c)
         /\ Fresh(p.csn) =>
              /\ Expected(p.csn)
              /\ TakenParts(p.csn)' # {}
              /\ Cardinality(TakenParts(p.csn)')
                   = Cardinality(TakenParts(p.csn)) + 1
         /\ \A c \in Chunks : Expected(c)' =>
              /\ Expected(c)
              /\ Fresh(p.csn) => BlockNumber(p.csn) <= BlockNumber(c)
<1>1. /\ Taken \subseteq Taken' /\ Taken' \subseteq Taken \cup {p}
      /\ Fresh(p.csn) => p \in Taken' /\ p \notin Taken
      /\ \A q \in Taken : Fresh(q.csn) => At(q) < At(p)
  BY ReceiveKeepsOrder
<1>2. /\ p.csn \in Chunks /\ p.psn \in Parts
      /\ p = [csn |-> p.csn, psn |-> p.psn]
  BY PacketsHavePlaces
<1>3. \A c : Fresh(c)' <=> Fresh(c)
  BY DEF Fresh
<1>4. \A c : /\ IsFiniteSet(TakenParts(c))
             /\ Cardinality(TakenParts(c)) \in Nat
             /\ Cardinality(TakenParts(c)) = 0 <=> TakenParts(c) = {}
  <2> SUFFICES ASSUME NEW c
               PROVE  /\ IsFiniteSet(TakenParts(c))
                      /\ Cardinality(TakenParts(c)) \in Nat
                      /\ Cardinality(TakenParts(c)) = 0 <=> TakenParts(c) = {}
    OBVIOUS
  <2>1. TakenParts(c) \in SUBSET Parts
    BY DEF TakenParts
  <2> QED
    BY <2>1, PartsAreFinite, FS_EmptySet
<1>5. ASSUME NEW c, Fresh(c), c # p.csn
      PROVE  TakenParts(c)' = TakenParts(c)
  <2>1. ASSUME NEW i \in Parts
        PROVE  [csn |-> c, psn |-> i] \in Taken'
                 <=> [csn |-> c, psn |-> i] \in Taken
    <3>1. [csn |-> c, psn |-> i] # p
      BY <1>2, <1>5
    <3> QED
      BY <1>1, <3>1
  <2> QED
    BY <2>1 DEF TakenParts
<1>6. ASSUME Fresh(p.csn)
      PROVE  /\ TakenParts(p.csn)' # {}
             /\ Cardinality(TakenParts(p.csn)')
                  = Cardinality(TakenParts(p.csn)) + 1
  <2>1. ASSUME NEW i \in Parts
        PROVE  [csn |-> p.csn, psn |-> i] \in Taken'
                 <=> [csn |-> p.csn, psn |-> i] \in Taken \/ i = p.psn
    <3>1. [csn |-> p.csn, psn |-> i] = p <=> i = p.psn
      BY <1>2
    <3> QED
      BY <1>1, <1>6, <3>1
  <2>2. TakenParts(p.csn)' = TakenParts(p.csn) \cup {p.psn}
    BY <1>2, <2>1 DEF TakenParts
  <2>3. p.psn \notin TakenParts(p.csn)
    BY <1>1, <1>2, <1>6 DEF TakenParts
  <2> QED
    BY <1>4, <2>2, <2>3, FS_AddElement
<1>7. ASSUME NEW q \in Taken, Fresh(q.csn)
      PROVE  BlockNumber(q.csn) <= BlockNumber(p.csn)
  <2>1. q \in Packets
    BY DEF Taken
  <2> QED
    BY <1>1, <1>7, <2>1, EarlierBlock
<1>8. ASSUME NEW c \in Chunks, Expected(c)'
      PROVE  /\ Expected(c)
             /\ Fresh(p.csn) => BlockNumber(p.csn) <= BlockNumber(c)
  <2>1. \A q \in Taken' : Fresh(q.csn) => BlockNumber(q.csn) <= BlockNumber(c)
    BY <1>3, <1>8 DEF Expected, BlockNumber
  <2> QED
    BY <1>1, <2>1 DEF Expected
<1> QED
  BY <1>2, <1>3, <1>4, <1>5, <1>6, <1>7, <1>8 DEF Expected

(* A packet that is dropped came too late: its chunk is settled. *)
LEMMA DropKeepsEnough ==
  ASSUME DecoderInv, EncodersPackets,
         FreshInOrder, CountedTaken, TooFewTaken, StillCollected,
         NEW p \in Packets, Drop(p),
         UNCHANGED <<networkVars, decodeVars, former>>,
         \A c \in Chunks : Settled(c) => Settled(c)'
  PROVE  CountedTaken' /\ TooFewTaken' /\ StillCollected'
<1>1. /\ Receive(p) /\ pc = "select"
      /\ UNCHANGED <<last, csn, found, packets, packet, pc>>
      /\ Invalid(p) \/ Detached(p)
  BY DEF Drop, Receive, state
<1>2. /\ p.csn \in Chunks /\ p.psn \in Parts
      /\ \A c : Fresh(c)' <=> Fresh(c)
      /\ \A c : Cardinality(TakenParts(c)) \in Nat
      /\ \A c : (Fresh(c) /\ c # p.csn) => TakenParts(c)' = TakenParts(c)
      /\ Fresh(p.csn) =>
           /\ Expected(p.csn)
           /\ Cardinality(TakenParts(p.csn)')
                = Cardinality(TakenParts(p.csn)) + 1
      /\ \A c \in Chunks : Expected(c)' => Expected(c)
  BY <1>1, TakesOne
<1>3. p.csn <= last
  BY <1>1, <1>2, Sizes DEF Invalid, Detached, Parts, Chunks
<1>4. Fresh(p.csn) => Settled(p.csn)
  <2>1. last \in Nat /\ p.csn \in Nat
    BY <1>2 DEF DecoderInv, OnceInv, IInv, TypeOK, Chunks
  <2> QED
    BY <1>2, <1>3, <2>1 DEF StillCollected
<1>5. ASSUME NEW line \in LineNumbers, found[line] # 0, Fresh(csn[line])
      PROVE  found[line] <= Cardinality(TakenParts(csn[line])')
  <2>1. found[line] \in Nat
    BY Sizes DEF DecoderInv, OnceInv, IInv, TypeOK
  <2>2. found[line] <= Cardinality(TakenParts(csn[line]))
    BY <1>5 DEF CountedTaken
  <2> QED
    BY <1>1, <1>2, <1>5, <2>1, <2>2
<1>6. CountedTaken'
  BY <1>1, <1>2, <1>5 DEF CountedTaken
<1>7. TooFewTaken'
  BY <1>1, <1>2, <1>4 DEF TooFewTaken
<1>8. StillCollected'
  BY <1>1, <1>2, <1>4 DEF StillCollected, AtChunk
<1> QED
  BY <1>6, <1>7, <1>8

(* Another packet for the chunk a line collects. *)
LEMMA JoinKeepsEnough ==
  ASSUME DecoderInv, EncodersPackets,
         FreshInOrder, CountedTaken, TooFewTaken, StillCollected,
         NEW p \in Packets, Join(p),
         UNCHANGED <<networkVars, decodeVars, former>>,
         \A c \in Chunks : Settled(c) => Settled(c)'
  PROVE  CountedTaken' /\ TooFewTaken' /\ StillCollected'
<1> DEFINE k == p.csn
           line == AtChunk(k)
<1>1. /\ Receive(p) /\ pc = "select" /\ packet' = p
      /\ found[line] # 0 /\ csn[line] = k
      /\ found' = [found EXCEPT ![line] = @ + 1]
      /\ pc' = IF found'[line] >= Data THEN "push" ELSE "select"
      /\ last' = last /\ csn' = csn
  BY DEF Join, Admit, Receive
<1>2. /\ k \in Chunks
      /\ \A c : Fresh(c)' <=> Fresh(c)
      /\ \A c : /\ Cardinality(TakenParts(c)) \in Nat
                /\ Cardinality(TakenParts(c)) = 0 <=> TakenParts(c) = {}
      /\ \A c : (Fresh(c) /\ c # k) => TakenParts(c)' = TakenParts(c)
      /\ Fresh(k) =>
           /\ Expected(k)
           /\ Cardinality(TakenParts(k)') = Cardinality(TakenParts(k)) + 1
      /\ \A c \in Chunks : Expected(c)' => Expected(c)
  BY <1>1, TakesOne
<1>3. line \in LineNumbers /\ found \in [LineNumbers -> Nat]
  <2>1. line \in LineNumbers
    BY <1>2, AtChunkType DEF Chunks
  <2> QED
    BY <2>1, Sizes DEF DecoderInv, OnceInv, IInv, TypeOK
<1>4. /\ found'[line] = found[line] + 1
      /\ \A l \in LineNumbers : l # line => found'[l] = found[l]
  BY <1>1, <1>3
<1>5. Fresh(k) => /\ found[line] <= Cardinality(TakenParts(k))
                  /\ TakenParts(k) # {}
  BY <1>1, <1>2, <1>3 DEF CountedTaken
<1>6. (Fresh(k) /\ ~ Settled(k)) =>
        last < k /\ found[line] = Cardinality(TakenParts(k))
  BY <1>2, <1>5 DEF StillCollected
<1>7. CountedTaken'
  <2> SUFFICES ASSUME NEW l \in LineNumbers, found'[l] # 0, Fresh(csn[l])
               PROVE  found'[l] <= Cardinality(TakenParts(csn[l])')
    BY <1>1, <1>2 DEF CountedTaken
  <2>1. CASE l = line
    BY <1>1, <1>2, <1>3, <1>4, <1>5, <2>1
  <2>2. CASE l # line
    <3>1. /\ found[l] # 0 /\ found'[l] = found[l]
          /\ found[l] <= Cardinality(TakenParts(csn[l]))
      BY <1>4, <2>2 DEF CountedTaken
    <3> QED
      BY <1>1, <1>2, <1>3, <3>1
  <2> QED
    BY <2>1, <2>2
<1>8. TooFewTaken'
  <2> SUFFICES ASSUME NEW c \in Chunks, Fresh(c), ~ Settled(c)
               PROVE  \/ Cardinality(TakenParts(c)') < Data
                      \/ pc' = "push" /\ packet'.csn = c
    BY <1>2 DEF TooFewTaken
  <2>1. CASE c # k
    BY <1>1, <1>2, <2>1 DEF TooFewTaken
  <2>2. CASE c = k
    <3>1. Cardinality(TakenParts(c)') = found'[line]
      BY <1>2, <1>4, <1>6, <2>2
    <3>2. found'[line] \in Nat
      BY <1>3, <1>4
    <3> QED
      BY <1>1, <2>2, <3>1, <3>2, Sizes
  <2> QED
    BY <2>1, <2>2
<1>9. StillCollected'
  <2> SUFFICES ASSUME NEW c \in Chunks, Fresh(c), ~ Settled(c), Expected(c)
               PROVE  /\ last < c
                      /\ TakenParts(c)' # {} =>
                           /\ csn[AtChunk(c)] = c
                           /\ found'[AtChunk(c)] = Cardinality(TakenParts(c)')
    BY <1>1, <1>2 DEF StillCollected, AtChunk
  <2>1. /\ last < c
        /\ TakenParts(c) # {} =>
             /\ csn[AtChunk(c)] = c
             /\ found[AtChunk(c)] = Cardinality(TakenParts(c))
    BY DEF StillCollected
  <2>2. CASE c # k
    <3>1. AtChunk(c) \in LineNumbers
      BY AtChunkType DEF Chunks
    <3> QED
      BY <1>1, <1>2, <1>4, <2>1, <2>2, <3>1
  <2>3. CASE c = k
    BY <1>1, <1>2, <1>4, <1>6, <2>1, <2>3
  <2> QED
    BY <2>2, <2>3
<1> QED
  BY <1>7, <1>8, <1>9

(* A line that takes up a chunk. *)
LEMMA OpenKeepsEnough ==
  ASSUME DecoderInv, EncodersPackets, Data >= 2,
         FreshInOrder, CountedTaken, TooFewTaken, StillCollected,
         NEW p \in Packets, Open(p) \/ Replace(p),
         UNCHANGED <<networkVars, decodeVars, former>>,
         \A c \in Chunks : Settled(c) => Settled(c)',
         \A c \in Chunks :
           (Fresh(c) /\ ~ Settled(c) /\ Expected(c)') => last' < c
  PROVE  CountedTaken' /\ TooFewTaken' /\ StillCollected'
<1> DEFINE k == p.csn
           line == AtChunk(k)
<1>1. /\ Receive(p) /\ pc = "select" /\ pc' = pc
      /\ found[line] = 0 \/ csn[line] # k
      /\ found' = [found EXCEPT ![line] = 1]
      /\ csn' = [csn EXCEPT ![line] = k]
  BY DEF Open, Replace, Admit, Receive
<1>2. /\ k \in Chunks
      /\ \A c : Fresh(c)' <=> Fresh(c)
      /\ \A c : /\ Cardinality(TakenParts(c)) \in Nat
                /\ Cardinality(TakenParts(c)) = 0 <=> TakenParts(c) = {}
      /\ \A c : (Fresh(c) /\ c # k) => TakenParts(c)' = TakenParts(c)
      /\ Fresh(k) =>
           /\ Expected(k)
           /\ Cardinality(TakenParts(k)') = Cardinality(TakenParts(k)) + 1
      /\ \A c \in Chunks : Expected(c)' => Expected(c)
  BY <1>1, TakesOne
<1>3. /\ line \in LineNumbers /\ Data \in Nat
      /\ found \in [LineNumbers -> Nat] /\ csn \in [LineNumbers -> Nat]
  <2>1. line \in LineNumbers
    BY <1>2, AtChunkType DEF Chunks
  <2> QED
    BY <2>1, Sizes DEF DecoderInv, OnceInv, IInv, TypeOK
<1>4. /\ found'[line] = 1 /\ csn'[line] = k
      /\ \A l \in LineNumbers : l # line =>
           found'[l] = found[l] /\ csn'[l] = csn[l]
  BY <1>1, <1>3
<1>5. (Fresh(k) /\ ~ Settled(k)) => Cardinality(TakenParts(k)') = 1
  BY <1>1, <1>2 DEF StillCollected
<1>6. CountedTaken'
  <2> SUFFICES ASSUME NEW l \in LineNumbers, found'[l] # 0, Fresh(csn'[l])
               PROVE  found'[l] <= Cardinality(TakenParts(csn[l])')
    BY <1>2 DEF CountedTaken
  <2>1. CASE l = line
    BY <1>2, <1>4, <2>1
  <2>2. CASE l # line
    <3>1. /\ found[l] # 0 /\ found'[l] = found[l] /\ csn'[l] = csn[l]
          /\ found[l] <= Cardinality(TakenParts(csn[l]))
      BY <1>4, <2>2 DEF CountedTaken
    <3> QED
      BY <1>2, <1>3, <1>4, <3>1
  <2> QED
    BY <2>1, <2>2
<1>7. TooFewTaken'
  <2> SUFFICES ASSUME NEW c \in Chunks, Fresh(c), ~ Settled(c)
               PROVE  Cardinality(TakenParts(c)') < Data
    BY <1>2 DEF TooFewTaken
  <2>1. CASE c # k
    BY <1>1, <1>2, <2>1 DEF TooFewTaken
  <2>2. CASE c = k
    BY <1>3, <1>5, <2>2
  <2> QED
    BY <2>1, <2>2
<1>8. StillCollected'
  <2> SUFFICES ASSUME NEW c \in Chunks, Fresh(c), ~ Settled(c), Expected(c)'
               PROVE  TakenParts(c)' # {} =>
                        /\ csn'[AtChunk(c)] = c
                        /\ found'[AtChunk(c)] = Cardinality(TakenParts(c)')
    BY <1>2 DEF StillCollected, AtChunk
  <2>1. TakenParts(c) # {} =>
          /\ csn[AtChunk(c)] = c
          /\ found[AtChunk(c)] = Cardinality(TakenParts(c))
    BY <1>2 DEF StillCollected
  <2>2. AtChunk(c) \in LineNumbers
    BY AtChunkType DEF Chunks
  <2>3. CASE c = k
    BY <1>4, <1>5, <2>3
  <2>4. CASE c # k /\ AtChunk(c) # line
    BY <1>2, <1>4, <2>1, <2>2, <2>4
  <2>5. CASE c # k /\ AtChunk(c) = line
    <3> SUFFICES ASSUME TakenParts(c) # {} PROVE FALSE
      BY <1>2, <2>5
    <3>1. found[line] # 0 /\ csn[line] = c
      BY <1>2, <2>1, <2>5
    <3>2. Replace(p) /\ last' = csn[line]
      BY <3>1 DEF Open, Replace
    <3>3. last' < c /\ c \in Nat
      BY DEF Chunks
    <3> QED
      BY <3>1, <3>2, <3>3
  <2> QED
    BY <2>3, <2>4, <2>5
<1> QED
  BY <1>6, <1>7, <1>8

(* The cursor goes back no further than to a chunk of an earlier block, or *)
(* of the former run.                                                      *)
LEMMA OpenKeepsAhead ==
  ASSUME DecoderInv, EncodersPackets, Depth <= Lines,
         former \subseteq Nat, FreshInOrder, CountedTaken, StillCollected,
         NEW p \in Packets, Open(p) \/ Replace(p),
         UNCHANGED <<networkVars, decodeVars, former>>,
         NEW c \in Chunks, Fresh(c), ~ Settled(c), Expected(c)'
  PROVE  last' < c
<1> DEFINE k == p.csn
           line == AtChunk(k)
           e == csn[line]
<1>1. /\ k \in Chunks
      /\ \A d : /\ Cardinality(TakenParts(d)) \in Nat
                /\ Cardinality(TakenParts(d)) = 0 <=> TakenParts(d) = {}
      /\ Expected(c)
      /\ Fresh(k) => BlockNumber(k) <= BlockNumber(c)
  <2>1. Receive(p)
    BY DEF Open, Replace, Admit
  <2> QED
    BY <2>1, TakesOne
<1>2. CASE Open(p)
  BY <1>1, <1>2 DEF Open, StillCollected
<1>3. CASE Replace(p)
  <2>1. Receive(p) /\ found[line] # 0 /\ e # k /\ last' = e
    BY <1>3 DEF Replace, Admit
  <2>2. line \in LineNumbers
    BY <1>1, AtChunkType DEF Chunks
  <2>3. e \in Chunks /\ AtChunk(e) = line /\ found[line] \in Nat
    <3>1. PICK q \in Valid : q.csn = e /\ arrived[q] > 0
      BY <2>1, <2>2 DEF DecoderInv, OrderInv, HeldArrived
    <3>2. e \in Chunks
      BY <3>1, PacketsHavePlaces DEF Valid
    <3> QED
      BY <2>1, <2>2, <3>2, Sizes DEF DecoderInv, OnceInv, IInv, TypeOK,
         LinesOwned
  <2>4. CASE ~ Fresh(e)
    <3>1. PICK d \in former : ~ (d < e)
      BY <2>4 DEF Fresh
    <3>2. d < c
      BY <3>1 DEF Fresh
    <3>3. d \in Nat /\ e \in Nat /\ c \in Nat
      BY <2>3, <3>1, OrderingConstants
    <3> QED
      BY <2>1, <3>1, <3>2, <3>3
  <2>5. CASE Fresh(e)
    <3>1. PICK i \in Parts : [csn |-> e, psn |-> i] \in Taken
      <4>1. TakenParts(e) # {}
        BY <1>1, <2>1, <2>2, <2>3, <2>5 DEF CountedTaken
      <4> QED
        BY <4>1 DEF TakenParts
    <3>2. BlockNumber(e) <= BlockNumber(k)
      <4> DEFINE x == [csn |-> e, psn |-> i]
      <4>1. x \in Taken /\ x \in Packets /\ x.csn = e
        BY <3>1 DEF Taken
      <4>2. At(x) < At(p)
        BY <2>1, <2>5, <4>1, ReceiveKeepsOrder
      <4> QED
        BY <4>1, <4>2, EarlierBlock
    <3>3. BlockNumber(e) < BlockNumber(k)
      BY <1>1, <2>1, <2>3, <3>2, BlocksInOrder
    <3>4. Fresh(k)
      <4> SUFFICES ASSUME NEW d \in former, ~ (d < k) PROVE FALSE
        BY DEF Fresh
      <4>1. d < e
        BY <2>5 DEF Fresh
      <4>2. k <= e
        <5>1. d \in Nat /\ e \in Nat /\ k \in Nat
          BY <1>1, <2>3, OrderingConstants
        <5> QED
          BY <4>1, <5>1
      <4> QED
        BY <1>1, <2>3, <3>3, <4>2, BlocksInOrder
    <3>5. BlockNumber(e) < BlockNumber(c)
      BY <1>1, <2>3, <3>3, <3>4, BlocksInOrder
    <3>6. ~ (c <= e)
      BY <2>3, <3>5, BlocksInOrder
    <3> QED
      BY <2>1, <2>3, <3>6 DEF Chunks
  <2> QED
    BY <2>4, <2>5
<1> QED
  BY <1>2, <1>3

(* Of two sets of parts, one with Data of them and one with fewer. *)
LEMMA LaterThanMissing ==
  ASSUME NEW S \in SUBSET Parts, NEW T \in SUBSET Parts,
         Cardinality(S) >= Data, Cardinality(T) < Data
  PROVE  \E i \in S, j \in DataParts \ T : j <= i
<1>1. /\ Total \in Nat /\ Data \in Nat \ {0} /\ Data <= Total
      /\ Parts = 0 .. Total - 1
  BY Sizes, PartsAssumption DEF Parts
<1>2. /\ IsFiniteSet(0 .. Data - 1) /\ Cardinality(0 .. Data - 1) = Data
      /\ IsFiniteSet(0 .. Data - 2) /\ Cardinality(0 .. Data - 2) = Data - 1
  <2>1. Data - 1 \in Int /\ Data - 2 \in Int /\ 0 \in Int
    BY <1>1
  <2>2. /\ IsFiniteSet(0 .. Data - 1)
        /\ Cardinality(0 .. Data - 1)
             = IF 0 > Data - 1 THEN 0 ELSE ((Data - 1) - 0) + 1
    BY <2>1, FS_Interval
  <2>3. /\ IsFiniteSet(0 .. Data - 2)
        /\ Cardinality(0 .. Data - 2)
             = IF 0 > Data - 2 THEN 0 ELSE ((Data - 2) - 0) + 1
    BY <2>1, FS_Interval
  <2> QED
    BY <1>1, <2>2, <2>3
<1>3. /\ IsFiniteSet(S) /\ Cardinality(S) \in Nat
      /\ IsFiniteSet(T) /\ Cardinality(T) \in Nat
  BY PartsAreFinite
<1>4. PICK i \in S : i >= Data - 1
  <2> SUFFICES ASSUME \A i \in S : ~ (i >= Data - 1) PROVE FALSE
    OBVIOUS
  <2>1. S \in SUBSET (0 .. Data - 2)
    BY <1>1
  <2> DEFINE A == 0 .. Data - 2
  <2>2. IsFiniteSet(A) /\ Cardinality(A) = Data - 1 /\ S \in SUBSET A
    BY <1>2, <2>1
  <2> HIDE DEF A
  <2>3. Cardinality(S) <= Cardinality(A)
    BY <2>2, FS_Subset
  <2> QED
    BY <1>1, <1>3, <2>2, <2>3
<1>5. PICK j \in 0 .. Data - 1 : j \notin T
  <2> SUFFICES ASSUME 0 .. Data - 1 \in SUBSET T PROVE FALSE
    OBVIOUS
  <2> DEFINE A == 0 .. Data - 1
  <2>1. Cardinality(A) = Data /\ A \in SUBSET T
    BY <1>2
  <2> HIDE DEF A
  <2>2. Cardinality(A) <= Cardinality(T)
    BY <1>3, <2>1, FS_Subset
  <2> QED
    BY <1>1, <1>3, <2>1, <2>2
<1>6. j \in DataParts \ T /\ j <= i
  <2>1. i \in Parts
    BY <1>4
  <2> QED
    BY <1>1, <1>4, <1>5, <2>1 DEF DataParts
<1> QED
  BY <1>4, <1>6

(* A line that is pushed overtakes the chunks before it that have too few  *)
(* packets: they miss one that was sent before those of the line.          *)
LEMMA PushSettles ==
  ASSUME DecoderInv, EncodersPackets, former \subseteq Nat, PushesFullLine,
         FreshInOrder, CountedTaken, TooFewTaken, Push,
         NEW c \in Chunks, Fresh(c), Expected(c), ~ Settled(c), c < packet.csn
  PROVE  /\ packet.csn \in BlockOf(c)
         /\ \E i \in DataParts : Missed([csn |-> c, psn |-> i])
<1> DEFINE k == packet.csn
<1>1. /\ packet \in Valid /\ AtChunk(k) \in LineNumbers
      /\ found[AtChunk(k)] # 0 /\ csn[AtChunk(k)] = k
      /\ pc = "push"
  BY EncoderKeepsRange, PushFacts DEF DecoderInv, OnceInv, Push
<1>2. k \in Chunks /\ found[AtChunk(k)] \in Nat /\ Data \in Nat \ {0}
  <2>1. k \in Chunks
    BY <1>1, PacketsHavePlaces DEF Valid
  <2> QED
    BY <1>1, <2>1, Sizes DEF DecoderInv, OnceInv, IInv, TypeOK
<1>3. c \in Nat /\ k \in Nat
  BY <1>2, OrderingConstants
<1>4. Fresh(k)
  <2> SUFFICES ASSUME NEW d \in former PROVE d < k
    BY DEF Fresh
  <2>1. d < c /\ d \in Nat
    BY DEF Fresh
  <2> QED
    BY <1>3, <2>1
<1>5. \A d : /\ TakenParts(d) \in SUBSET Parts
             /\ Cardinality(TakenParts(d)) \in Nat
  <2>1. \A d : TakenParts(d) \in SUBSET Parts
    BY DEF TakenParts
  <2> QED
    BY <2>1, PartsAreFinite
<1>6. Cardinality(TakenParts(k)) >= Data
  <2>1. /\ found[AtChunk(k)] <= Cardinality(TakenParts(k))
        /\ found[AtChunk(k)] >= Data
    BY <1>1, <1>4 DEF CountedTaken, PushesFullLine
  <2> QED
    BY <1>2, <1>5, <2>1
<1>7. Cardinality(TakenParts(c)) < Data
  BY <1>3 DEF TooFewTaken
<1>8. PICK i \in TakenParts(k), j \in Parts \ TakenParts(c) :
        j \in DataParts /\ j <= i
  BY <1>5, <1>6, <1>7, LaterThanMissing, DataPartsAreParts
<1> DEFINE x == [csn |-> k, psn |-> i]
           y == [csn |-> c, psn |-> j]
<1>9. /\ i \in Parts /\ x \in Taken /\ x \in Packets /\ arrived[x] > 0
      /\ y \in Packets /\ y \notin Taken
      /\ x.csn = k /\ x.psn = i /\ y.csn = c /\ y.psn = j
  BY <1>2, <1>8 DEF TakenParts, Taken, EncodersPackets
<1>10. At(y) < At(x)
  <2>1. i \in Nat /\ j \in Nat
    BY <1>8, <1>9 DEF Parts
  <2>2. Position(c, j) <= Position(c, i)
    <3>1. Position(c, i) \in Int /\ Position(c, j) \in Int
      BY <1>8, <1>9, OnWireAtPosition
    <3>2. CASE j = i
      BY <3>1, <3>2
    <3>3. CASE j # i
      <4>1. j < i
        BY <1>8, <2>1, <3>3
      <4>2. Position(c, j) < Position(c, i)
        BY <1>8, <1>9, <4>1, PartsInOrder
      <4> QED
        BY <3>1, <4>2
    <3> QED
      BY <3>2, <3>3
  <2>3. Position(c, i) < Position(k, i)
    BY <1>2, <1>9, ChunksInOrder
  <2>4. /\ Position(c, j) \in Int /\ Position(c, i) \in Int
        /\ Position(k, i) \in Int
    BY <1>2, <1>8, <1>9, OnWireAtPosition
  <2> QED
    BY <1>9, <2>2, <2>3, <2>4 DEF At
<1>11. Missed(y)
  <2>1. \A at \in 1 .. Len(assemblyQueue) : At(x) < At(assemblyQueue[at])
    BY <1>4, <1>9 DEF FreshInOrder
  <2>2. At(x) \in Int /\ At(y) \in Int
    BY <1>9, PacketsHavePlaces
  <2>3. \A at \in 1 .. Len(assemblyQueue) : assemblyQueue[at] # y
    BY <1>10, <2>1, <2>2
  <2>4. ~ (arrived[y] > 0)
    BY <1>9, <2>3 DEF Taken
  <2>5. arrived[y] \in Nat
    BY <1>9 DEF DecoderInv, OnceInv, IInv, TypeOK
  <2> QED
    BY <1>4, <1>9, <1>10, <2>4, <2>5 DEF Missed
<1>12. k \in BlockOf(c)
  <2>1. BlockNumber(k) <= BlockNumber(c)
    BY <1>4, <1>9 DEF Expected
  <2>2. BlockNumber(c) = BlockNumber(k)
    BY <1>2, <1>3, <2>1, BlocksInOrder
  <2> QED
    BY <1>2, <2>2, BlocksInOrder
<1> QED
  BY <1>8, <1>11, <1>12

LEMMA PushKeepsEnough ==
  ASSUME DecoderInv, EncodersPackets, former \subseteq Nat, PushesFullLine,
         FreshInOrder, CountedTaken, TooFewTaken, StillCollected, Push,
         UNCHANGED <<networkVars, decodeVars, former>>,
         \A c \in Chunks : Settled(c) => Settled(c)'
  PROVE  CountedTaken' /\ TooFewTaken' /\ StillCollected'
<1> DEFINE k == packet.csn
           line == AtChunk(k)
<1>1. /\ packet \in Valid /\ line \in LineNumbers
      /\ found[line] # 0 /\ csn[line] = k
      /\ PushedLines' = PushedLines \cup {Copy(k)}
      /\ \A i \in Parts : Copy(k)[i] = packets[Place(line, i)]
      /\ pc = "push" /\ pc' = "select" /\ last' = k
      /\ found' = [found EXCEPT ![line] = 0]
      /\ csn' = [csn EXCEPT ![line] = 0]
      /\ UNCHANGED <<packet, assemblyQueue, arrived>>
  BY EncoderKeepsRange, PushFacts DEF DecoderInv, OnceInv, Push
<1>2. k \in Chunks /\ packet.psn \in Parts
  BY <1>1, PacketsHavePlaces DEF Valid
<1>3. /\ found \in [LineNumbers -> Nat] /\ csn \in [LineNumbers -> Nat]
      /\ \A l \in LineNumbers : l # line =>
           found'[l] = found[l] /\ csn'[l] = csn[l]
      /\ found'[line] = 0
  <2>1. found \in [LineNumbers -> Nat] /\ csn \in [LineNumbers -> Nat]
    BY Sizes DEF DecoderInv, OnceInv, IInv, TypeOK
  <2> QED
    BY <1>1, <2>1
<1>4. /\ \A c : Fresh(c)' <=> Fresh(c)
      /\ \A c : TakenParts(c)' = TakenParts(c)
      /\ \A c : Expected(c)' <=> Expected(c)
  <2>1. Taken' = Taken
    BY <1>1 DEF Taken
  <2> QED
    BY <2>1 DEF Fresh, TakenParts, Expected, BlockNumber
<1>5. k \in PushedCsn'
  <2>1. packets[Place(line, packet.psn)] = packet
    <3>1. AtPacket(packet) = Place(line, packet.psn)
      BY <1>2, OrderingConstants, PacketPlace
    <3> QED
      BY <1>1, <3>1 DEF PushesFullLine
  <2>2. packet.psn \in Shards(Copy(k)) /\ Copy(k)[packet.psn] = packet
    <3>1. packet # Nil
      BY <1>1, PacketKinds DEF Valid
    <3> QED
      BY <1>1, <1>2, <2>1, <3>1 DEF Shards
  <2>3. k \in ChunksIn(Copy(k))
    BY <2>2 DEF ChunksIn
  <2> QED
    BY <1>1, <2>3 DEF PushedCsn
<1>6. \A c : c = k => Settled(c)'
  BY <1>5 DEF Settled
<1>7. CountedTaken'
  <2> SUFFICES ASSUME NEW l \in LineNumbers, found'[l] # 0, Fresh(csn'[l])
               PROVE  found'[l] <= Cardinality(TakenParts(csn[l])')
    BY <1>4 DEF CountedTaken
  <2>1. l # line /\ found'[l] = found[l] /\ csn'[l] = csn[l]
    BY <1>3
  <2> QED
    BY <1>4, <2>1 DEF CountedTaken
<1>8. TooFewTaken'
  BY <1>4, <1>6 DEF TooFewTaken
<1>9. StillCollected'
  <2> SUFFICES ASSUME NEW c \in Chunks, Fresh(c), ~ Settled(c)', Expected(c)
               PROVE  /\ k < c
                      /\ TakenParts(c) # {} =>
                           /\ csn'[AtChunk(c)] = c
                           /\ found'[AtChunk(c)] = Cardinality(TakenParts(c))
    BY <1>1, <1>4 DEF StillCollected, AtChunk
  <2>1. ~ Settled(c) /\ c # k
    BY <1>6
  <2>2. TakenParts(c) # {} =>
          /\ csn[AtChunk(c)] = c
          /\ found[AtChunk(c)] = Cardinality(TakenParts(c))
    BY <2>1 DEF StillCollected
  <2>3. AtChunk(c) \in LineNumbers
    BY AtChunkType DEF Chunks
  <2>4. ~ (c < k)
    <3> SUFFICES ASSUME c < k PROVE FALSE
      OBVIOUS
    <3>1. /\ k \in BlockOf(c)
          /\ \E i \in DataParts : Missed([csn |-> c, psn |-> i])
      BY <2>1, PushSettles
    <3>2. \E i \in DataParts : Missed([csn |-> c, psn |-> i])'
      BY <1>1, <1>4, <3>1 DEF Missed
    <3>3. k > c
      BY <1>2, OrderingConstants
    <3>4. \E d \in BlockOf(c) \cap PushedCsn' : d > c
      BY <1>5, <3>1, <3>3
    <3>5. BlockOf(c)' = BlockOf(c)
      BY DEF BlockOf
    <3> QED
      BY <3>2, <3>4, <3>5 DEF Settled, DataParts
  <2>5. k < c
    <3>1. k \in Nat /\ c \in Nat
      BY <1>2, OrderingConstants
    <3> HIDE DEF k
    <3> QED
      BY <2>1, <2>4, <3>1
  <2> QED
    BY <1>1, <1>3, <2>1, <2>2, <2>3, <2>5
<1> QED
  BY <1>7, <1>8, <1>9

LEMMA RestartTellsFormer ==
  ASSUME DecoderInv, EncodersPackets, Restart
  PROVE  former' \subseteq Nat
<1>1. sent \in 0 .. PacketsSent /\ PacketsSent \in Nat
  BY SentSize DEF DecoderInv, FromTheWire
<1>2. ASSUME NEW n \in 0 .. sent - 1
      PROVE  Wire!OnWire(n).csn \in Nat
  <2>1. n \in 0 .. PacketsSent - 1
    BY <1>1, <1>2
  <2> QED
    BY <2>1, PacketsHavePlaces, OrderingConstants
<1> QED
  BY <1>2 DEF Restart

(* A restart leaves nothing fresh behind: all that came in or is under way *)
(* was sent by the run that is now the former one.                         *)
LEMMA RestartKeepsEnough ==
  ASSUME DecoderInv, EncodersPackets, EnoughInv, Restart, duplicates = 0
  PROVE  FreshInOrder' /\ CountedTaken' /\ TooFewTaken' /\ StillCollected'
<1>1. /\ sent \in 0 .. PacketsSent
      /\ argumentQueue \in Seq(Packets \cup {Stray})
      /\ assemblyQueue \in Seq(Packets)
      /\ decoded \in Packets \cup {Nil} /\ PacketsSent \in Nat
  BY SentSize DEF DecoderInv, FromTheWire, OnceInv, IInv, TypeOK
<1>2. /\ former' = {Wire!OnWire(n).csn : n \in 0 .. sent - 1}
      /\ UNCHANGED <<vars, argumentQueue, decoded>>
  BY DEF Restart, decodeVars
<1>3. \A c : Fresh(c)
  <2>1. restarts < MaxRestarts /\ restarts \in Nat
    BY DEF Restart, EnoughInv
  <2>2. restarts = 0
    BY <2>1, DecoderAssumption
  <2> QED
    BY <2>2 DEF EnoughInv, Fresh
<1>4. FreshInOrder /\ CursorArrived
  BY DEF EnoughInv
<1>5. ASSUME NEW q \in Packets, At(q) < sent
      PROVE  q.csn \in former' /\ ~ Fresh(q.csn)'
  <2>1. At(q) \in 0 .. sent - 1 /\ Wire!OnWire(At(q)) = q /\ q.csn \in Nat
    BY <1>1, <1>5, PacketsHavePlaces, OrderingConstants
  <2>2. q.csn \in former'
    BY <1>2, <2>1
  <2> QED
    BY <2>1, <2>2 DEF Fresh
<1>6. \A q \in Packets : arrived[q] > 0 => q.csn \in former' /\ ~ Fresh(q.csn)'
  BY <1>3, <1>4, <1>5 DEF FreshInOrder
<1>7. FreshInOrder'
  <2>1. \A p \in Packets : ~ (Fresh(p.csn)' /\ arrived'[p] > 0)
    BY <1>2, <1>6 DEF vars
  <2>2. \A i \in 1 .. Len(assemblyQueue') : ~ Fresh(assemblyQueue[i].csn)'
    <3> SUFFICES ASSUME NEW i \in 1 .. Len(assemblyQueue)
                 PROVE  ~ Fresh(assemblyQueue[i].csn)'
      BY <1>2 DEF vars
    <3>1. assemblyQueue[i] \in Packets /\ arrived[assemblyQueue[i]] > 0
      BY <1>1 DEF DecoderInv, OrderInv, HeldArrived
    <3>2. \A q \in Packets : q = assemblyQueue[i] => ~ Fresh(q.csn)'
      BY <1>6, <3>1
    <3> QED
      BY <1>2, <3>1, <3>2 DEF vars
  <2>3. decoded' # Nil => ~ Fresh(decoded.csn)'
    <3> SUFFICES ASSUME decoded # Nil PROVE ~ Fresh(decoded.csn)'
      BY <1>2
    <3>1. decoded \in Packets /\ At(decoded) < sent
      BY <1>1, <1>3, <1>4 DEF FreshInOrder
    <3>2. \A q \in Packets : q = decoded => ~ Fresh(q.csn)'
      BY <1>5, <3>1
    <3> QED
      BY <1>2, <3>1, <3>2
  <2>4. \A i \in 1 .. Len(argumentQueue') :
          argumentQueue'[i] # Stray => ~ Fresh(argumentQueue[i].csn)'
    <3> SUFFICES ASSUME NEW i \in 1 .. Len(argumentQueue),
                        argumentQueue[i] # Stray
                 PROVE  ~ Fresh(argumentQueue[i].csn)'
      BY <1>2
    <3>1. argumentQueue[i] \in Packets /\ At(argumentQueue[i]) < sent
      BY <1>1, <1>3, <1>4 DEF FreshInOrder
    <3>2. \A q \in Packets : q = argumentQueue[i] => ~ Fresh(q.csn)'
      BY <1>5, <3>1
    <3> QED
      BY <1>2, <3>1, <3>2
  <2> QED
    BY <2>1, <2>2, <2>3, <2>4 DEF FreshInOrder
<1>8. CountedTaken'
  <2> SUFFICES ASSUME NEW line \in LineNumbers, found[line] # 0
               PROVE  ~ Fresh(csn[line])'
    BY <1>2 DEF CountedTaken, vars
  <2>1. PICK q \in Valid : q.csn = csn[line] /\ arrived[q] > 0
    BY DEF DecoderInv, OrderInv, HeldArrived
  <2>2. \A c : c = q.csn => ~ Fresh(c)'
    BY <1>6, <2>1 DEF Valid
  <2> QED
    BY <1>2, <2>1, <2>2 DEF vars
<1>9. ASSUME NEW c, Fresh(c)'
      PROVE  TakenParts(c)' = {}
  <2> SUFFICES ASSUME NEW i \in Parts, [csn |-> c, psn |-> i] \in Taken'
               PROVE  FALSE
    BY DEF TakenParts
  <2>1. /\ [csn |-> c, psn |-> i] \in Packets
        /\ arrived[[csn |-> c, psn |-> i]] > 0
        /\ [csn |-> c, psn |-> i].csn = c
    BY <1>2 DEF Taken, vars
  <2> QED
    BY <1>6, <1>9, <2>1
<1>10. TooFewTaken'
  BY <1>9, FS_EmptySet, Sizes DEF TooFewTaken
<1>11. StillCollected'
  <2> SUFFICES ASSUME NEW c \in Chunks, Fresh(c)' PROVE last < c
    BY <1>2, <1>9 DEF StillCollected, vars
  <2>1. CASE last = 0
    BY <2>1 DEF Chunks
  <2>2. CASE last # 0
    <3>1. PICK q \in Packets : q.csn = last /\ arrived[q] > 0
      BY <1>4, <2>2 DEF CursorArrived
    <3>2. last \in former'
      BY <1>6, <3>1
    <3> QED
      BY <3>2 DEF Fresh
  <2> QED
    BY <2>1, <2>2
<1> QED
  BY <1>7, <1>8, <1>10, <1>11

(* The cursor and the line about to be pushed. *)
LEMMA AssemblerKeepsCursor ==
  ASSUME DecoderInv, EncodersPackets, CursorArrived, PushesFullLine,
         [Next]_vars
  PROVE  CursorArrived' /\ PushesFullLine'
<1>1. IInv /\ HeldArrived /\ TypeOK /\ PartsInRange
  BY EncoderKeepsRange DEF DecoderInv, OrderInv, IInv
<1>2. \A q \in Packets : arrived[q] > 0 => arrived'[q] > 0
  <2>1. arrived \in [Packets -> Nat] /\ arrived' \in [Packets -> Nat]
    <3>1. OnceInv'
      BY <1>1, NextKeepsOnceInv DEF DecoderInv
    <3> QED
      BY <1>1, <3>1 DEF OnceInv, IInv, TypeOK
  <2> QED
    BY <1>1, <2>1, ArrivedGrows
<1>3. CASE UNCHANGED <<state, pc>>
  BY <1>2, <1>3 DEF CursorArrived, PushesFullLine, state, AtChunk, AtPacket
<1>4. ASSUME NEW p \in Packets, Join(p)
      PROVE  CursorArrived' /\ PushesFullLine'
  <2>1. /\ last' = last /\ packet' = p
        /\ packets' = [packets EXCEPT ![AtPacket(p)] = p]
        /\ pc' = "push" => found'[AtChunk(p.csn)] >= Data
    BY <1>4, Sizes DEF Join, Admit
  <2>2. AtPacket(p) \in Places /\ packets \in [Places -> Valid \cup {Nil}]
    BY <1>1, <1>4, AdmitFacts, TableType DEF Join, TypeOK
  <2> QED
    BY <1>2, <2>1, <2>2 DEF CursorArrived, PushesFullLine, AtPacket, AtChunk
<1>5. ASSUME NEW p \in Packets, Open(p) \/ Replace(p)
      PROVE  CursorArrived' /\ PushesFullLine'
  <2>1. pc' # "push"
    BY <1>5 DEF Open, Replace, Admit, Receive
  <2>2. AtChunk(p.csn) \in LineNumbers
    BY <1>1, <1>5, AdmitFacts DEF Open, Replace
  <2>3. last' = last \/ \E q \in Valid : q.csn = last' /\ arrived[q] > 0
    BY <1>1, <1>5, <2>2 DEF Open, Replace, HeldArrived
  <2> QED
    BY <1>2, <2>1, <2>3 DEF CursorArrived, PushesFullLine, Valid
<1>6. CASE Push
  <2>1. /\ pc' # "push" /\ last' = packet.csn
        /\ found[AtChunk(packet.csn)] # 0
        /\ csn[AtChunk(packet.csn)] = packet.csn
        /\ AtChunk(packet.csn) \in LineNumbers
    BY <1>1, <1>6, PushFacts DEF Push
  <2>2. \E q \in Valid : q.csn = last' /\ arrived[q] > 0
    BY <1>1, <2>1 DEF HeldArrived
  <2> QED
    BY <1>2, <2>1, <2>2 DEF CursorArrived, PushesFullLine, Valid
<1>7. ASSUME NEW p \in Packets, Arrive(p) \/ Drop(p)
      PROVE  UNCHANGED <<state, pc>>
  BY <1>7 DEF Arrive, Drop, state
<1>8. CASE Restore \/ UNCHANGED vars
  BY <1>3, <1>8 DEF Restore, vars, state
<1>9. CASE Stop
  <2>1. pc' # "push" /\ last' = last
    BY <1>9 DEF Stop, state
  <2> QED
    BY <1>2, <2>1 DEF CursorArrived, PushesFullLine
<1> QED
  BY <1>3, <1>4, <1>5, <1>6, <1>7, <1>8, <1>9 DEF Next, Assembly

LEMMA AssembleKeepsEnough ==
  ASSUME DecoderInv, EncodersPackets, Depth <= Lines, Data >= 2, EnoughInv,
         duplicates = 0, [DecoderNext]_decoderVars, Assemble
  PROVE  FreshInOrder' /\ CountedTaken' /\ TooFewTaken' /\ StillCollected'
<1>1. /\ FreshInOrder /\ CountedTaken /\ TooFewTaken /\ StillCollected
      /\ PushesFullLine /\ former \subseteq Nat
  BY DEF EnoughInv
<1>2. Assembly /\ UNCHANGED <<networkVars, decodeVars, former>>
  BY DEF Assemble
<1>3. \A c \in Chunks : Settled(c) => Settled(c)'
  <2>1. CASE Restart
    <3>1. restarts \in Nat /\ restarts' = restarts + 1 /\ restarts' = restarts
      BY <2>1 DEF Assemble, Restart, EnoughInv
    <3> QED
      BY <3>1
  <2>2. CASE ~ Restart
    BY <1>1, <2>2, SettledStays
  <2> QED
    BY <2>1, <2>2
<1>4. ASSUME NEW p \in Packets, Drop(p) \/ Join(p) \/ Open(p) \/ Replace(p)
      PROVE  FreshInOrder' /\ CountedTaken' /\ TooFewTaken' /\ StillCollected'
  <2>1. FreshInOrder'
    BY <1>1, <1>2, <1>4, ReceiveKeepsOrder DEF Drop, Join, Open, Replace, Admit
  <2>2. CASE Drop(p)
    BY <1>1, <1>2, <1>3, <2>1, <2>2, DropKeepsEnough
  <2>3. CASE Join(p)
    BY <1>1, <1>2, <1>3, <2>1, <2>3, JoinKeepsEnough
  <2>4. CASE Open(p) \/ Replace(p)
    <3>1. \A c \in Chunks :
            (Fresh(c) /\ ~ Settled(c) /\ Expected(c)') => last' < c
      BY <1>1, <1>2, <2>4, OpenKeepsAhead
    <3> QED
      BY <1>1, <1>2, <1>3, <2>1, <2>4, <3>1, OpenKeepsEnough
  <2> QED
    BY <1>4, <2>2, <2>3, <2>4
<1>5. CASE Push
  <2>1. CountedTaken' /\ TooFewTaken' /\ StillCollected'
    BY <1>1, <1>2, <1>3, <1>5, PushKeepsEnough
  <2>2. /\ Taken' = Taken /\ \A c : Fresh(c)' <=> Fresh(c)
        /\ UNCHANGED <<assemblyQueue, arrived, sent, decoded, argumentQueue>>
    BY <1>2, <1>5 DEF Push, Taken, Fresh, networkVars, decodeVars
  <2>3. FreshInOrder'
    BY <1>1, <2>2 DEF FreshInOrder
  <2> QED
    BY <2>1, <2>3
<1> QED
  BY <1>2, <1>4, <1>5 DEF Assembly

LEMMA StepKeepsEnough ==
  ASSUME DecoderInv, EncodersPackets, Depth <= Lines, Data >= 2, EnoughInv,
         [DecoderNext]_decoderVars
  PROVE  EnoughInv'
<1>1. CursorArrived' /\ PushesFullLine'
  BY DecoderStep, AssemblerKeepsCursor DEF EnoughInv
<1>2. duplicates \in Nat /\ restarts \in Nat /\ former \subseteq Nat
  BY DEF EnoughInv
<1>3. /\ duplicates' = duplicates \/ duplicates' = duplicates + 1
      /\ Duplicate => duplicates' = duplicates + 1
      /\ restarts' = restarts \/ restarts' = restarts + 1
      /\ Restart => restarts' = restarts + 1
  BY DEF DecoderNext, Run, Transmit, Intrude, Duplicate, Lose, Restart,
     Arrives, Decode, PassOn, Assemble, TakeLine, Crash, SendChunk,
     DispatchChunk, Deliver, decoderVars, networkVars, restartVars
<1>4. former' \subseteq Nat /\ (restarts' = 0 => former' = {})
  <2>1. CASE Restart
    <3>1. restarts' # 0
      BY <1>2, <1>3, <2>1
    <3> QED
      BY <2>1, <3>1, RestartTellsFormer
  <2>2. CASE ~ Restart
    BY <1>2, <2>2, PresentRunGoesOn DEF EnoughInv
  <2> QED
    BY <2>1, <2>2
<1>5. ASSUME duplicates' = 0
      PROVE  FreshInOrder' /\ CountedTaken' /\ TooFewTaken' /\ StillCollected'
  <2>1. duplicates = 0 /\ ~ Duplicate
    BY <1>2, <1>3, <1>5
  <2>2. FreshInOrder /\ CountedTaken /\ TooFewTaken /\ StillCollected
    BY <2>1 DEF EnoughInv
  <2>3. CASE Restart
    BY <2>1, <2>3, RestartKeepsEnough
  <2>4. CASE Assemble
    BY <2>1, <2>4, AssembleKeepsEnough
  <2>5. CASE ~ Restart /\ ~ Assemble
    <3>1. \A c \in Chunks : Settled(c) => Settled(c)'
      BY <2>2, <2>5, SettledStays
    <3>2. UNCHANGED <<former, last, csn, found, packet, pc>>
      BY <2>1, <2>5, PresentRunGoesOn DEF DecoderNext, Run, Transmit, Intrude,
         Lose, Arrives, Decode, PassOn, Arrive, TakeLine, Crash, Restore,
         SendChunk, DispatchChunk, Deliver, decoderVars, vars, state
    <3>3. /\ FreshInOrder'
          /\ \A p \in Packets : Fresh(p.csn) => (p \in Taken' <=> p \in Taken)
      <4>1. CASE PassOn
        BY <2>2, <4>1, PassOnKeepsOrder
      <4>2. CASE Transmit \/ Intrude \/ Lose
        <5>1. Taken' = Taken
          BY <4>2 DEF Transmit, Intrude, Lose, Arrives, vars, Taken
        <5> QED
          BY <2>2, <4>2, <5>1, WireKeepsOrder
      <4>3. CASE Decode
        <5>1. Taken' = Taken
          BY <4>3 DEF Decode, vars, Taken
        <5> QED
          BY <2>2, <4>3, <5>1, DecodeKeepsOrder
      <4>4. CASE TakeLine \/ Crash \/ SendChunk \/ DispatchChunk \/ Deliver
                 \/ UNCHANGED decoderVars
        <5>1. UNCHANGED <<assemblyQueue, arrived, sent, decoded, argumentQueue>>
          BY <4>4 DEF TakeLine, Crash, Restore, SendChunk, DispatchChunk,
             Deliver, decoderVars, vars, networkVars, decodeVars
        <5>2. Taken' = Taken /\ \A c : Fresh(c)' <=> Fresh(c)
          BY <3>2, <5>1 DEF Taken, Fresh
        <5> QED
          BY <2>2, <5>1, <5>2 DEF FreshInOrder
      <4> QED
        BY <2>1, <2>5, <4>1, <4>2, <4>3, <4>4 DEF DecoderNext, Run
    <3> QED
      BY <2>2, <3>1, <3>2, <3>3, QuietKeepsEnough
  <2> QED
    BY <2>3, <2>4, <2>5
<1>6. duplicates' \in Nat /\ restarts' \in Nat
  BY <1>2, <1>3
<1> QED
  BY <1>1, <1>4, <1>5, <1>6 DEF EnoughInv

LEMMA InitEnough ==
  ASSUME DecoderInit, EncodersPackets
  PROVE  EnoughInv
<1>1. /\ sent = 0 /\ duplicates = 0 /\ restarts = 0 /\ former = {}
      /\ argumentQueue = << >> /\ decoded = Nil
      /\ assemblyQueue = << >> /\ pc = "select" /\ last = 0
      /\ found = [line \in LineNumbers |-> 0]
      /\ \A p \in Packets : arrived[p] = 0
  BY DEF DecoderInit, Init
<1>2. Len(assemblyQueue) = 0 /\ Len(argumentQueue) = 0
  BY <1>1
<1>3. FreshInOrder
  BY <1>1, <1>2 DEF FreshInOrder
<1>4. \A c : TakenParts(c) = {}
  BY <1>1 DEF TakenParts, Taken
<1>5. CountedTaken
  BY <1>1 DEF CountedTaken
<1>6. TooFewTaken
  BY <1>4, FS_EmptySet, Sizes DEF TooFewTaken
<1>7. StillCollected
  <2>1. \A c \in Chunks : last < c
    BY <1>1 DEF Chunks
  <2> QED
    BY <1>4, <2>1 DEF StillCollected
<1> QED
  BY <1>1, <1>3, <1>5, <1>6, <1>7 DEF EnoughInv, CursorArrived, PushesFullLine

LEMMA EnoughInvPushes ==
  ASSUME DecoderInv, EncodersPackets, EnoughInv
  PROVE  EnoughIsPushed
<1> SUFFICES ASSUME AssemblerIdle, duplicates = 0, NEW c \in Chunks, Fresh(c),
                    Cardinality(ArrivedParts(c)) >= Data, c \notin PushedCsn
             PROVE  Overtaken(c)
  BY DEF EnoughIsPushed, Fresh
<1>1. pc = "select" /\ assemblyQueue = << >> /\ TooFewTaken
  BY DEF AssemblerIdle, EnoughInv
<1>2. TakenParts(c) = ArrivedParts(c)
  <2>1. \A i \in Parts : [csn |-> c, psn |-> i] \in Packets
    BY DEF EncodersPackets
  <2> QED
    BY <1>1, <2>1 DEF TakenParts, ArrivedParts, Taken
<1>3. Settled(c)
  <2>1. Cardinality(ArrivedParts(c)) \in Nat /\ Data \in Nat
    BY PartsAreFinite, Sizes DEF ArrivedParts
  <2> QED
    BY <1>1, <1>2, <2>1 DEF TooFewTaken
<1>4. PICK i \in DataParts : Missed([csn |-> c, psn |-> i])
  BY <1>3 DEF Settled
<1>5. i \notin ArrivedParts(c)
  BY <1>4 DEF Missed, ArrivedParts
<1> QED
  BY <1>3, <1>4, <1>5 DEF Settled, Overtaken

(* A chunk of which Data parts reached the assembler is pushed, whatever   *)
(* is lost or strays in and though the encoder is restarted, unless one of *)
(* its data parts was lost and a neighbour in its block overtook it.  It   *)
(* takes two data parts at least (decoder.go:283-288 never pushes) and as  *)
(* many lines as the encoder interleaves chunks: with fewer two chunks of  *)
(* a block share a line, and each gives up the other.                      *)
THEOREM EnoughArePushed ==
  EncodersPackets /\ Depth <= Lines /\ Data >= 2 /\ DecoderSpec
    => []EnoughIsPushed
<1> SUFFICES ASSUME EncodersPackets, Depth <= Lines, Data >= 2
             PROVE  DecoderSpec => []EnoughIsPushed
  OBVIOUS
<1>1. DecoderInit => DecoderInv /\ EnoughInv
  BY InitDecoder, InitEnough
<1>2. DecoderInv /\ EnoughInv /\ [DecoderNext]_decoderVars
        => DecoderInv' /\ EnoughInv'
  BY StepKeepsEnough, StepKeepsDecoder
<1>3. DecoderInv /\ EnoughInv => EnoughIsPushed
  BY EnoughInvPushes
<1> QED
  BY <1>1, <1>2, <1>3, PTL DEF DecoderSpec
=============================================================================
