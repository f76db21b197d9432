------------------------------- MODULE Assembler -------------------------------
(***************************************************************************)
(* The decoder's assembler (src/src/codec/decoder.go, assembly): the       *)
(* goroutine that takes packets from assemblyQueue, collects those of one  *)
(* chunk in one line of a table of Lines lines with Total places each, and *)
(* pushes a line to restoreQueue once Data packets were counted in it.     *)
(*                                                                         *)
(* The table is flat, as in the code, and indexed with the code's modular  *)
(* arithmetic; csn * total is taken not to exceed 64 bits.  A packet is    *)
(* its csn and psn; its payload and its address take no part in any        *)
(* decision here, and of its kind only `csn == 1 && kind == 2` (line 245)  *)
(* is asked, which calls the empty function reset (lines 310-321).         *)
(*                                                                         *)
(* Every channel operation is a step of its own, and the code up to the    *)
(* next one belongs to it.  Closing of the channels is not modelled here.  *)
(***************************************************************************)
EXTENDS Integers, Sequences, FiniteSets

CONSTANTS
  Packets,     \* the packets that may arrive
  Total,       \* restorer.total, the packets of a chunk
  Data,        \* restorer.data, the packets that are enough to restore it
  Lines,       \* assembler.lines
  AssemblyCap, \* cap(assemblyQueue), decoder.go:382
  RestoreCap,  \* cap(restoreQueue), decoder.go:381
  MaxCopies    \* bound: how often the network may deliver one packet

ASSUME PacketsAssumption == Packets \subseteq [csn : Nat, psn : Nat]
ASSUME PartsAssumption ==
  /\ Total \in Nat /\ Total >= 2        \* decoder.go:56
  /\ Data \in 1 .. Total                \* decoder.go:53, reedsolomon.New
ASSUME LinesAssumption == Lines \in Nat \ {0}
ASSUME CapAssumption ==
  /\ AssemblyCap \in Nat \ {0}
  /\ RestoreCap \in Nat \ {0}
  /\ MaxCopies \in Nat \ {0}

VARIABLES
  last,          \* assembler.last: packets up to this csn are dropped
  csn,           \* assembler.csn: the chunk each line collects, or 0
  found,         \* assembler.found: the packets counted in each line
  packets,       \* assembler.packets, the flat table, Nil where empty
  packet,        \* the local variable packet: the one in hand
  pc,            \* "select" (line 226), "push" (line 270) or "stopped"
  assemblyQueue, \* chan *PacketV2, filled by decode
  pushed,        \* every line sent to restoreQueue so far (history)
  restored,      \* how many of them the restorer has taken
  arrived        \* how often each packet was sent to assemblyQueue (history)

state == <<last, csn, found, packets, packet>>
vars == <<last, csn, found, packets, packet, pc,
          assemblyQueue, pushed, restored, arrived>>

(* A nil place of the table.  No packet in it has csn 0 (line 240). *)
Nil == [csn |-> 0, psn |-> 0]

TableSize == Lines * Total

Places == 0 .. TableSize - 1

LineNumbers == 0 .. Lines - 1

Parts == 0 .. Total - 1

-----------------------------------------------------------------------------
(* Where a packet and the line of its chunk lie (lines 252-258). *)

(* Mutant: the index wraps at the number of lines. *)
AtPacketWrongModulus(p) == (p.csn * Total + p.psn) % Lines

AtPacket(p) == (p.csn * Total + p.psn) % TableSize

AtChunk(c) == c % Lines

ChunkStart(c) == (c * Total) % TableSize

(* Mutant: the end of the table is not told from its start. *)
ChunkEndUnwrapped(c) == ((c + 1) * Total) % TableSize

ChunkEnd(c) ==
  LET end == ((c + 1) * Total) % TableSize
  IN  IF end = 0 THEN TableSize ELSE end

LineOf(c) == ChunkStart(c) .. ChunkEnd(c) - 1

(* The copy of lines 267-268. *)
Copy(c) ==
  [i \in Parts |-> IF ChunkStart(c) + i \in LineOf(c)
                     THEN packets[ChunkStart(c) + i] ELSE Nil]

(* The loops of lines 276 and 295. *)
Cleared(c) == [at \in Places |-> IF at \in LineOf(c) THEN Nil ELSE packets[at]]

Init ==
  /\ last = 0
  /\ csn = [line \in LineNumbers |-> 0]
  /\ found = [line \in LineNumbers |-> 0]
  /\ packets = [at \in Places |-> Nil]
  /\ packet = Nil
  /\ pc = "select"
  /\ assemblyQueue = << >>
  /\ pushed = << >>
  /\ restored = 0
  /\ arrived = [p \in Packets |-> 0]

-----------------------------------------------------------------------------
(* The environment: decode passes on what the network delivers             *)
(* (decoder.go:323-359), the restorer takes lines (decoder.go:191).        *)

Arrive(p) ==
  /\ arrived[p] < MaxCopies
  /\ Len(assemblyQueue) < AssemblyCap
  /\ assemblyQueue' = Append(assemblyQueue, p)
  /\ arrived' = [arrived EXCEPT ![p] = @ + 1]
  /\ UNCHANGED <<state, pc, pushed, restored>>

Restore ==
  /\ restored < Len(pushed)
  /\ restored' = restored + 1
  /\ UNCHANGED <<state, pc, assemblyQueue, pushed, arrived>>

-----------------------------------------------------------------------------
(* Receiving a packet. *)

Receive(p) ==
  /\ pc = "select"
  /\ assemblyQueue # << >>
  /\ p = Head(assemblyQueue)
  /\ assemblyQueue' = Tail(assemblyQueue)
  /\ UNCHANGED <<pushed, restored, arrived>>

(* Lines 235 and 240; psn = Total gets through. *)
Invalid(p) == p.psn > Total \/ p.csn = 0

(* Mutant: a chunk that was pushed is not recognised. *)
DetachedNever(p) == FALSE

(* Line 248. *)
Detached(p) == p.csn <= last

(* Lines 235-250: the packet is dropped. *)
Drop(p) ==
  /\ Receive(p)
  /\ Invalid(p) \/ Detached(p)
  /\ UNCHANGED <<state, pc>>

Admit(p) ==
  /\ Receive(p)
  /\ ~ Invalid(p) /\ ~ Detached(p)
  /\ packet' = p

(* Lines 261-266: another packet for the chunk the line collects; with     *)
(* Data of them counted the line is pushed.                                *)
Join(p) ==
  LET line == AtChunk(p.csn) IN
    /\ Admit(p)
    /\ found[line] # 0 /\ csn[line] = p.csn
    /\ packets' = [packets EXCEPT ![AtPacket(p)] = p]
    /\ found' = [found EXCEPT ![line] = @ + 1]
    /\ pc' = IF found'[line] >= Data THEN "push" ELSE "select"
    /\ UNCHANGED <<last, csn>>

(* Lines 283-288: the first packet of a chunk in a free line. *)
Open(p) ==
  LET line == AtChunk(p.csn) IN
    /\ Admit(p)
    /\ found[line] = 0
    /\ packets' = [packets EXCEPT ![AtPacket(p)] = p]
    /\ csn' = [csn EXCEPT ![line] = p.csn]
    /\ found' = [found EXCEPT ![line] = 1]
    /\ UNCHANGED <<last, pc>>

(* Mutant: the packets of the chunk that is given up stay in the line. *)
ReplaceWithoutClearing(p) ==
  LET line == AtChunk(p.csn) IN
    /\ Admit(p)
    /\ found[line] # 0 /\ csn[line] # p.csn
    /\ last' = csn[line]
    /\ packets' = [packets EXCEPT ![AtPacket(p)] = p]
    /\ csn' = [csn EXCEPT ![line] = p.csn]
    /\ found' = [found EXCEPT ![line] = 1]
    /\ UNCHANGED pc

(* Mutant: the cursor is moved to the chunk that comes, not to the one     *)
(* that is given up.                                                       *)
ReplaceAdvancingLast(p) ==
  LET line == AtChunk(p.csn) IN
    /\ Admit(p)
    /\ found[line] # 0 /\ csn[line] # p.csn
    /\ last' = p.csn
    /\ packets' = [Cleared(p.csn) EXCEPT ![AtPacket(p)] = p]
    /\ csn' = [csn EXCEPT ![line] = p.csn]
    /\ found' = [found EXCEPT ![line] = 1]
    /\ UNCHANGED pc

(* Lines 290-301: the line collects another chunk, which is given up. *)
Replace(p) ==
  LET line == AtChunk(p.csn) IN
    /\ Admit(p)
    /\ found[line] # 0 /\ csn[line] # p.csn
    /\ last' = csn[line]
    /\ packets' = [Cleared(p.csn) EXCEPT ![AtPacket(p)] = p]
    /\ csn' = [csn EXCEPT ![line] = p.csn]
    /\ found' = [found EXCEPT ![line] = 1]
    /\ UNCHANGED pc

(* Mutant: the count and the csn of the pushed line are kept. *)
PushKeepingCount ==
  LET c == packet.csn IN
    /\ pc = "push"
    /\ Len(pushed) - restored < RestoreCap
    /\ pushed' = Append(pushed, Copy(c))
    /\ last' = c
    /\ packets' = Cleared(c)
    /\ pc' = "select"
    /\ UNCHANGED <<found, csn, packet, assemblyQueue, restored, arrived>>

(* Mutant: the places of the pushed line are not cleared. *)
PushWithoutClearing ==
  LET c == packet.csn IN
    /\ pc = "push"
    /\ Len(pushed) - restored < RestoreCap
    /\ pushed' = Append(pushed, Copy(c))
    /\ last' = c
    /\ found' = [found EXCEPT ![AtChunk(c)] = 0]
    /\ csn' = [csn EXCEPT ![AtChunk(c)] = 0]
    /\ pc' = "select"
    /\ UNCHANGED <<packets, packet, assemblyQueue, restored, arrived>>

(* Lines 267-281: the line of the packet in hand is pushed. *)
Push ==
  LET c == packet.csn IN
    /\ pc = "push"
    /\ Len(pushed) - restored < RestoreCap
    /\ pushed' = Append(pushed, Copy(c))
    /\ last' = c
    /\ packets' = Cleared(c)
    /\ found' = [found EXCEPT ![AtChunk(c)] = 0]
    /\ csn' = [csn EXCEPT ![AtChunk(c)] = 0]
    /\ pc' = "select"
    /\ UNCHANGED <<packet, assemblyQueue, restored, arrived>>

(* Lines 227 and 271: the context is cancelled. *)
Stop ==
  /\ pc # "stopped"
  /\ pc' = "stopped"
  /\ UNCHANGED <<state, assemblyQueue, pushed, restored, arrived>>

-----------------------------------------------------------------------------
(* The packet that is received next, if any. *)
AtFront == IF assemblyQueue = << >> THEN {} ELSE {Head(assemblyQueue)}

Assembly ==
  \/ \E p \in Packets \cap AtFront : Drop(p) \/ Join(p) \/ Open(p) \/ Replace(p)
  \/ Push

Next ==
  \/ \E p \in Packets : Arrive(p)
  \/ Restore
  \/ Assembly
  \/ Stop

Spec == Init /\ [][Next]_vars

-----------------------------------------------------------------------------
Shards(line) == {i \in Parts : line[i] # Nil}

(* The packets in the table. *)
Stored == {packets[at] : at \in Places} \ {Nil}

PushedLines == {pushed[i] : i \in 1 .. Len(pushed)}

PacketsIn(line) == {line[i] : i \in Shards(line)}

(* The chunk a pushed line belongs to, as far as its packets tell. *)
ChunksIn(line) == {line[i].csn : i \in Shards(line)}

PushedCsn == UNION {ChunksIn(line) : line \in PushedLines}

Valid == {p \in Packets : p.csn # 0 /\ p.psn <= Total}

(* Only packets that passed the checks of lines 230-244 are stored, and a  *)
(* line never counts more than one packet too many (found is 2 when Data   *)
(* is 1 and the line is pushed).                                           *)
TypeOK ==
  /\ last \in Nat
  /\ csn \in [LineNumbers -> Nat]
  /\ found \in [LineNumbers -> 0 .. Data + 1]
  /\ packets \in [Places -> Valid \cup {Nil}]
  /\ packet \in Valid \cup {Nil}
  /\ pc \in {"select", "push", "stopped"}
  /\ assemblyQueue \in Seq(Packets)
  /\ pushed \in Seq([Parts -> Valid \cup {Nil}])
  /\ restored \in Nat
  /\ arrived \in [Packets -> Nat]

(* What the encoder guarantees (encoder.go:156-163) and line 235 does not  *)
(* ask: no packet carries psn = Total.                                     *)
PartsInRange == \A p \in Packets : p.psn # Total

(* A pushed line holds packets of one chunk only, each at its own part:    *)
(* the restorer never mixes shards of two chunks or in the wrong order     *)
(* (decoder.go:267-273).  It takes PartsInRange.                           *)
PurelyOneChunk(line) ==
  \A i, j \in Shards(line) : line[i].csn = line[j].csn /\ line[i].psn = i

PushedPure == \A line \in PushedLines : PurelyOneChunk(line)

(* A pushed line can be restored: it holds Data different packets          *)
(* (decoder.go:266).  It takes that the network duplicates nothing.        *)
PushedRestorable ==
  \A line \in PushedLines : Cardinality(Shards(line)) >= Data

(* A chunk is pushed once.  The cursor last, which is there to drop the    *)
(* packets that come after a push (decoder.go:248), goes back whenever a   *)
(* line is given up (decoder.go:294); that Total < 2 * Data is what makes  *)
(* the late packets too few to push the chunk again.                       *)
PushedOnce ==
  \A i, j \in 1 .. Len(pushed) :
    ChunksIn(pushed[i]) \cap ChunksIn(pushed[j]) # {} => i = j

Unfinished(c) ==
  /\ \E p \in Valid : p.csn = c /\ arrived[p] > 0
  /\ c \notin PushedCsn

(* Lines are pushed in ascending order of their chunks, and none twice, as *)
(* long as no chunk was given up: behind a chunk whose place another took  *)
(* (decoder.go:290-301, where the cursor goes back to it) a later push may *)
(* be of an earlier chunk than the one before, but what was given up is    *)
(* then still missing, and it is older than either.                        *)
AscendingPushes ==
  \A i, j \in 1 .. Len(pushed) : i < j =>
    \A d \in ChunksIn(pushed[i]), c \in ChunksIn(pushed[j]) :
      d < c \/ \E g \in 1 .. c - 1 : Unfinished(g)
=============================================================================
