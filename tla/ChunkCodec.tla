------------------------------ MODULE ChunkCodec ------------------------------
(***************************************************************************)
(* What happens to the bytes of one chunk on their way: NewChunk and       *)
(* Marshal lay them out in Data parts (src/src/codec/chunk.go), the        *)
(* erasure code adds the other parts, each part travels in a PacketV2      *)
(* (src/src/codec/packet_v2.go), some packets are lost or damaged, and     *)
(* what is left is reconstructed and read by Unmarshal (decoder.go,        *)
(* restore).                                                               *)
(*                                                                         *)
(* The bytes of the payload are numbered 1, 2, 3, ...; 0 is padding.  The  *)
(* chunk header is reduced to the size it carries, and the hash of a       *)
(* packet is the data it was computed from: SHA-1 is taken to tell damaged *)
(* data from intact data.  The Reed-Solomon library is external: it gives  *)
(* back the parts it encoded from any Data intact ones.                    *)
(***************************************************************************)
EXTENDS Integers, Sequences, FiniteSets, FiniteSetsExt, SequencesExt

CONSTANTS
  DataSize,   \* PacketV2DataSize
  HeaderSize, \* ChunkHeaderSize
  Data,       \* the data parts of a chunk
  Total,      \* all parts of a chunk
  Sizes       \* the sizes of the payloads

ASSUME FormatAssumption ==
  /\ HeaderSize \in Nat \ {0}
  /\ DataSize \in Nat /\ DataSize > HeaderSize
ASSUME ShardsAssumption == Total \in Nat /\ Total >= 2 /\ Data \in 1 .. Total
ASSUME SizesAssumption == Sizes \subseteq Nat

VARIABLES
  payload, \* the bytes handed to NewChunk
  parts,   \* the parts after Marshal and the erasure code
  network, \* the packet of each part, Nil once it is lost
  pc,      \* "idle", "refused", "panicked", "sent", "restored" or "failed"
  result   \* what chunk.Data() returns at the other end

vars == <<payload, parts, network, pc, result>>

Parts == 0 .. Total - 1

Nil == [psn |-> 0, part |-> << >>, hash |-> << >>]

(* Mutant: the room the header takes is forgotten. *)
IncomingSizeWithoutHeader == DataSize * Data

(* IncomingSize, the capacity of the aggregator's buffer (encoder.go:75). *)
IncomingSize == DataSize * Data - HeaderSize

Payload(n) == [i \in 1 .. n |-> i]

Init ==
  /\ payload = << >>
  /\ parts = [i \in Parts |-> << >>]
  /\ network = [i \in Parts |-> Nil]
  /\ pc = "idle"
  /\ result = << >>

-----------------------------------------------------------------------------
(* Laying out a chunk. *)

(* NewChunk takes no more than this (chunk.go:22); encode refuses a longer *)
(* payload (encoder.go:144).                                               *)
ChunkSize(bytes) == Min({Len(bytes), Data * DataSize})

(* How many bytes of the payload fit in part i. *)
Room(i) == IF i = 0 THEN DataSize - HeaderSize ELSE DataSize

(* copied after part i, for chunk.go:67-70. *)
Copied(bytes) ==
  LET copied[i \in Parts] ==
        Min({Len(bytes), Room(i) + IF i = 0 THEN 0 ELSE copied[i - 1]})
  IN  copied

(* The header: the size, and what is not modelled. *)
Header(bytes) ==
  [j \in 1 .. HeaderSize |-> IF j = 1 THEN Len(bytes) ELSE 0]

(* Part i after Marshal, padded with zeros; part 0 begins with the header. *)
Laid(bytes, i) ==
  LET from == IF i = 0 THEN 0 ELSE Copied(bytes)[i - 1]
      body == SubSeq(bytes, from + 1, Copied(bytes)[i])
      used == IF i = 0 THEN Header(bytes) \o body ELSE body
  IN  used \o [j \in 1 .. (DataSize - Len(used)) |-> 0]

(* The loop of chunk.go:68 ends before it runs out of parts. *)
Fits(bytes) == Copied(bytes)[Total - 1] = Len(bytes)

(* The content of the parts rs.Encode computes (encoder.go:150). *)
Parity == [j \in 1 .. DataSize |-> -1]

Packet(psn, part) == [psn |-> psn, part |-> part, hash |-> <<psn>> \o part]

(* encode, lines 142-175. *)
Encode(n) ==
  LET bytes == Payload(n)
      laid == [i \in Parts |-> IF i < Data THEN Laid(bytes, i) ELSE Parity]
  IN
  /\ pc = "idle"
  /\ payload' = bytes
  /\ IF ChunkSize(bytes) < n
       THEN pc' = "refused" /\ UNCHANGED <<parts, network>>
     ELSE IF ~ Fits(bytes)
       THEN pc' = "panicked" /\ UNCHANGED <<parts, network>>
     ELSE /\ pc' = "sent"
          /\ parts' = laid
          /\ network' = [i \in Parts |-> Packet(i, laid[i])]
  /\ UNCHANGED result

-----------------------------------------------------------------------------
(* The network. *)

Lose(i) ==
  /\ pc = "sent"
  /\ network[i] # Nil
  /\ network' = [network EXCEPT ![i] = Nil]
  /\ UNCHANGED <<payload, parts, pc, result>>

DamageData(i) ==
  /\ pc = "sent"
  /\ network[i] = Packet(i, parts[i])
  /\ network' = [network EXCEPT ![i].part[1] = -2]
  /\ UNCHANGED <<payload, parts, pc, result>>

DamageHeader(i) ==
  /\ pc = "sent"
  /\ network[i] = Packet(i, parts[i])
  /\ network' = [network EXCEPT ![i].psn = (i + 1) % Total]
  /\ UNCHANGED <<payload, parts, pc, result>>

-----------------------------------------------------------------------------
(* Putting the chunk together again. *)

(* Mutant: the hash is not checked. *)
AcceptsUnchecked(packet) == packet # Nil

(* PacketV2.Unmarshal, packet_v2.go:67-80. *)
Accepts(packet) == packet # Nil /\ packet.hash = <<packet.psn>> \o packet.part

Arrived == {i \in Parts : Accepts(network[i])}

(* The line the assembler pushes: a packet for each part it has. *)
HasShard(psn) == \E i \in Arrived : network[i].psn = psn

Shard(psn) == network[CHOOSE i \in Arrived : network[i].psn = psn].part

(* ReconstructData (decoder.go:196): a data part that is missing is        *)
(* computed from the others.                                               *)
Reconstructed(i) == IF HasShard(i) THEN Shard(i) ELSE parts[i]

(* What the parts hold behind the header. *)
Body(data) ==
  FlattenSeq([data EXCEPT ![1] = SubSeq(@, HeaderSize + 1, DataSize)])

(* restore, decoder.go:191-216, with Chunk.Unmarshal, chunk.go:74-97.      *)
(* Without enough parts the chunk waits in its line or is an error.        *)
Restore ==
  LET data == [i \in 1 .. Data |-> Reconstructed(i - 1)]
      size == data[1][1]
  IN
  /\ pc = "sent"
  /\ IF Cardinality({i \in Parts : HasShard(i)}) >= Data
        /\ Len(Body(data)) >= size
       THEN pc' = "restored" /\ result' = SubSeq(Body(data), 1, size)
       ELSE pc' = "failed" /\ UNCHANGED result
  /\ UNCHANGED <<payload, parts, network>>

Next ==
  \/ \E n \in Sizes : Encode(n)
  \/ \E i \in Parts : Lose(i) \/ DamageData(i) \/ DamageHeader(i)
  \/ Restore

Spec == Init /\ [][Next]_vars

-----------------------------------------------------------------------------
(* The other end never sees a byte that was not written: whatever is lost, *)
(* damaged or misplaced, a restored payload is the payload (decoder.go:203 *)
(* to 216 hands it on without a further check).                            *)
NeverAltered == pc = "restored" => result = payload

(* Data intact packets are enough: for a payload that encode took, the     *)
(* header and the payload fit in the data parts, so nothing of the payload *)
(* lies where the erasure code writes (chunk.go:22, chunk.go:57-72).  It   *)
(* takes that no payload is larger than IncomingSize, which is less than   *)
(* what NewChunk takes.                                                    *)
EnoughSuffices ==
  /\ pc # "panicked"
  /\ pc = "failed" => Cardinality(Arrived) < Data
=============================================================================
