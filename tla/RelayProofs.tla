------------------------------ MODULE RelayProofs ------------------------------
(***************************************************************************)
(* What the relay and its clients keep to, for every number of clients,    *)
(* runs, datagrams and faults.                                             *)
(*                                                                         *)
(* The invariant comes in four layers.  Order says what addresses and      *)
(* datagrams belong together: the relay's two places hold two peers, what  *)
(* a peer sends is its own, what it is sent is not (but for the echo), and *)
(* an address that is not in use yet is unknown to all.  NoEcho follows.   *)
(* The other three follow the echo of the handshake on its way: it is the  *)
(* first to arrive if nothing is lost (EchoFirst), there is only one if    *)
(* nothing is doubled (EchoIsOnce), and it means that the route is set if  *)
(* the relay is not restarted, no stale hello replaces it and there are no *)
(* more than two peers (EchoMeansRouted).                                  *)
(***************************************************************************)
EXTENDS Relay, SequencesExt, TLAPS

(* A client that was ever started has an address. *)
Started == \A c \in Peers : phase[c] # "off" => run[c] # 0

PlacesApart ==
  /\ \A s \in 0 .. 1 : peers[s] # NoPeer => peers[s].addr.peer = peers[s].id
  /\ peers[0].id = peers[1].id => peers[0] = NoPeer /\ peers[1] = NoPeer

UpIsOwn == \A a \in Address : \A d \in ToSet(up[a]) : d.peer = a.peer

DownIsOthers ==
  \A a \in Address : \A d \in ToSet(down[a]) :
    d = Handshake(a.peer) \/ (d.kind = "data" /\ d.peer # a.peer)

(* Nobody knows an address before the client it belongs to is started. *)
Unborn ==
  \A a \in Address :
    run[a.peer] < a.run =>
      /\ up[a] = << >> /\ down[a] = << >>
      /\ \A s \in 0 .. 1 : peers[s].addr # a

Order ==
  /\ TypeOK
  /\ Started
  /\ PlacesApart
  /\ UpIsOwn
  /\ DownIsOthers
  /\ Unborn
  /\ NoEcho

-----------------------------------------------------------------------------
(* Queues. *)

LEMMA TailOf ==
  ASSUME NEW S, NEW q \in Seq(S), q # << >>
  PROVE  /\ Tail(q) \in Seq(S) /\ ToSet(Tail(q)) \subseteq ToSet(q)
         /\ Head(q) \in S /\ Head(q) \in ToSet(q)
<1>1. Len(q) \in Nat \ {0}
  OBVIOUS
<1>2. Head(q) = q[1] /\ q[1] \in S /\ 1 \in DOMAIN q
  BY <1>1
<1>3. ASSUME NEW i \in DOMAIN Tail(q)
      PROVE  Tail(q)[i] = q[i + 1] /\ i + 1 \in DOMAIN q
  BY <1>1
<1> QED
  BY <1>1, <1>2, <1>3 DEF ToSet

LEMMA AppendOf ==
  ASSUME NEW S, NEW q \in Seq(S), NEW x \in S
  PROVE  Append(q, x) \in Seq(S) /\ ToSet(Append(q, x)) = ToSet(q) \cup {x}
<1>1. /\ DOMAIN q = 1 .. Len(q) /\ Len(q) \in Nat
      /\ DOMAIN Append(q, x) = 1 .. Len(q) + 1
  OBVIOUS
<1>2. \A i \in 1 .. Len(q) : Append(q, x)[i] = q[i]
  OBVIOUS
<1>3. Append(q, x)[Len(q) + 1] = x
  OBVIOUS
<1>4. \A i \in 1 .. Len(q) + 1 : i \in 1 .. Len(q) \/ i = Len(q) + 1
  BY <1>1
<1>5. ToSet(Append(q, x)) \subseteq ToSet(q) \cup {x}
  BY <1>1, <1>2, <1>3, <1>4 DEF ToSet
<1>6. ToSet(q) \cup {x} \subseteq ToSet(Append(q, x))
  BY <1>1, <1>2, <1>3 DEF ToSet
<1> QED
  BY <1>5, <1>6

LEMMA TwiceOf ==
  ASSUME NEW S, NEW q \in Seq(S), q # << >>
  PROVE  /\ Twice(q) \in Seq(S) /\ ToSet(Twice(q)) = ToSet(q)
         /\ Twice(q) # << >> /\ Head(Twice(q)) = Head(q)
<1>1. /\ DOMAIN q = 1 .. Len(q) /\ Len(q) \in Nat \ {0}
      /\ q[1] = Head(q) /\ q[1] \in S
  OBVIOUS
<1>2. /\ Twice(q) \in Seq(S) /\ Len(Twice(q)) = Len(q) + 1
      /\ DOMAIN Twice(q) = 1 .. Len(q) + 1
  BY <1>1 DEF Twice
<1>3. /\ Twice(q)[1] = q[1]
      /\ \A i \in 1 .. Len(q) : Twice(q)[i + 1] = q[i]
  BY <1>1 DEF Twice
<1>4. \A i \in 1 .. Len(q) + 1 : i = 1 \/ i - 1 \in 1 .. Len(q)
  BY <1>1
<1>5. ToSet(Twice(q)) \subseteq ToSet(q)
  <2> SUFFICES ASSUME NEW i \in 1 .. Len(q) + 1 PROVE Twice(q)[i] \in ToSet(q)
    BY <1>2 DEF ToSet
  <2>1. CASE i = 1
    BY <1>1, <1>3, <2>1 DEF ToSet
  <2>2. CASE i - 1 \in 1 .. Len(q)
    <3>1. Twice(q)[(i - 1) + 1] = q[i - 1] /\ (i - 1) + 1 = i
      BY <1>3, <2>2
    <3> QED
      BY <1>1, <2>2, <3>1 DEF ToSet
  <2> QED
    BY <1>4, <2>1, <2>2
<1>6. ToSet(q) \subseteq ToSet(Twice(q))
  <2> SUFFICES ASSUME NEW i \in 1 .. Len(q) PROVE q[i] \in ToSet(Twice(q))
    BY <1>1 DEF ToSet
  <2>1. i + 1 \in 1 .. Len(q) + 1 /\ Twice(q)[i + 1] = q[i]
    BY <1>1, <1>3
  <2> QED
    BY <1>2, <2>1 DEF ToSet
<1>7. Twice(q) # << >> /\ Head(Twice(q)) = q[1]
  BY <1>1, <1>2, <1>3
<1> QED
  BY <1>1, <1>2, <1>5, <1>6, <1>7

LEMMA AppendKeepsHead ==
  ASSUME NEW S, NEW q \in Seq(S), NEW x \in S, q # << >>
  PROVE  Append(q, x) # << >> /\ Head(Append(q, x)) = Head(q)
OBVIOUS

LEMMA ShortOnes ==
  ASSUME NEW x
  PROVE  ToSet(<< >>) = {} /\ ToSet(<<x>>) = {x}
BY DEF ToSet

-----------------------------------------------------------------------------
(* Addresses, datagrams and routes. *)

LEMMA AddressFacts ==
  /\ Nowhere \notin Address
  /\ \A c \in Peers, n \in 1 .. MaxRuns : [peer |-> c, run |-> n] \in Address
  /\ \A a \in Address : /\ a.peer \in Peers /\ a.run \in 1 .. MaxRuns
                        /\ a = [peer |-> a.peer, run |-> a.run]
BY PeersAssumption DEF Address, Nowhere

LEMMA DatagramFacts ==
  /\ \A c \in Peers : /\ Handshake(c) \in Datagrams
                      /\ Handshake(c).kind = "handshake"
                      /\ Handshake(c).peer = c
  /\ \A a \in Address, n \in 1 .. MaxData :
       /\ Datum(a, n) \in Datagrams
       /\ Datum(a, n).kind = "data" /\ Datum(a, n).peer = a.peer
  /\ \A d \in Datagrams : d.kind = "handshake" \/ d.kind = "data"
  /\ \A d \in Datagrams : d.kind = "handshake" => d = Handshake(d.peer)
<1>1. \A d \in Datagrams : \/ \E c \in Peers : d = Handshake(c)
                           \/ \E a \in Address, n \in 1 .. MaxData :
                                d = Datum(a, n)
  BY DEF Datagrams
<1>2. \A c \in Peers : /\ Handshake(c) \in Datagrams
                       /\ Handshake(c).kind = "handshake"
                       /\ Handshake(c).peer = c
  BY DEF Datagrams, Handshake
<1>3. \A a \in Address, n \in 1 .. MaxData :
        /\ Datum(a, n) \in Datagrams
        /\ Datum(a, n).kind = "data" /\ Datum(a, n).peer = a.peer
  BY DEF Datagrams, Datum
<1> QED
  BY <1>1, <1>2, <1>3

(* A client that has a socket has an address. *)
LEMMA HasAddress ==
  ASSUME TypeOK, Started, NEW c \in Peers, phase[c] # "off"
  PROVE  /\ AddressOf(c) \in Address
         /\ AddressOf(c).peer = c /\ AddressOf(c).run = run[c]
<1>1. run[c] \in 1 .. MaxRuns
  BY RelayBoundsAssumption DEF TypeOK, Started
<1> QED
  BY <1>1, AddressFacts DEF AddressOf

(* The socket of an address that is live is its client's newest. *)
LEMMA LiveIsNewest ==
  ASSUME TypeOK, NEW a \in Address, Live(a)
  PROVE  a = AddressOf(a.peer) /\ phase[a.peer] \in {"connecting", "running"}
BY AddressFacts DEF Live, AddressOf

LEMMA PlaceIsChosen ==
  ASSUME NEW c
  PROVE  /\ PlacesFor(c) \subseteq 0 .. 1
         /\ PlacesFor(c) # {} => Min(PlacesFor(c)) \in PlacesFor(c)
<1>1. PlacesFor(c) \subseteq 0 .. 1
  BY DEF PlacesFor
<1>2. ASSUME NEW S \in SUBSET (0 .. 1), S # {}
      PROVE  \E x \in S : \A y \in S : x <= y
  <2>1. CASE 0 \in S
    BY <2>1
  <2>2. CASE 0 \notin S
    <3>1. \A x \in S : x \in 0 .. 1 /\ x # 0
      BY <2>2
    <3>2. \A x \in S : x = 1
      BY <3>1
    <3>3. 1 \in S
      BY <1>2, <3>2
    <3>4. \A y \in S : 1 <= y
      BY <3>2
    <3> QED
      BY <3>3, <3>4
  <2> QED
    BY <2>1, <2>2
<1> QED
  BY <1>1, <1>2 DEF Min

(* setRoute changes one place at most: the peer's own, or a free one if it *)
(* has none.                                                               *)
LEMMA RouteIsSet ==
  ASSUME TypeOK, NEW c \in Peers, NEW a \in Address, SetRoute(c, a)
  PROVE  \/ PlacesFor(c) = {} /\ peers' = peers
         \/ \E s \in 0 .. 1 :
              /\ peers' = [peers EXCEPT ![s] = [id |-> c, addr |-> a]]
              /\ \/ peers[s].id = c
                 \/ /\ peers[s] = NoPeer
                    /\ \A r \in 0 .. 1 : peers[r].id # c
<1>1. CASE PlacesFor(c) = {}
  BY <1>1 DEF SetRoute
<1>2. CASE PlacesFor(c) # {}
  <2> DEFINE s == Min(PlacesFor(c))
  <2>1. s \in PlacesFor(c) /\ s \in 0 .. 1
    BY <1>2, PlaceIsChosen
  <2>2. peers' = [peers EXCEPT ![s] = [id |-> c, addr |-> a]]
    BY <1>2 DEF SetRoute
  <2>3. \/ peers[s].id = c
        \/ peers[s] = NoPeer /\ \A r \in 0 .. 1 : peers[r].id # c
    BY <2>1 DEF PlacesFor
  <2> QED
    BY <2>1, <2>2, <2>3
<1> QED
  BY <1>1, <1>2

LEMMA SetRouteKeeps ==
  ASSUME TypeOK, PlacesApart, NEW a \in Address, SetRoute(a.peer, a)
  PROVE  /\ peers' \in [0 .. 1 -> [id : Peers, addr : Address] \cup {NoPeer}]
         /\ PlacesApart'
         /\ \A s \in 0 .. 1 : peers'[s].addr \in {peers[s].addr, a}
<1>1. a.peer \in Peers
  BY AddressFacts
<1>2. /\ peers \in [0 .. 1 -> [id : Peers, addr : Address] \cup {NoPeer}]
      /\ [id |-> a.peer, addr |-> a] \in [id : Peers, addr : Address]
  BY <1>1 DEF TypeOK
<1>3. CASE peers' = peers
  BY <1>2, <1>3 DEF PlacesApart
<1>4. ASSUME NEW s \in 0 .. 1,
             peers' = [peers EXCEPT ![s] = [id |-> a.peer, addr |-> a]],
             \/ peers[s].id = a.peer
             \/ peers[s] = NoPeer /\ \A r \in 0 .. 1 : peers[r].id # a.peer
      PROVE  /\ peers' \in [0 .. 1 -> [id : Peers, addr : Address]
                                        \cup {NoPeer}]
             /\ PlacesApart'
             /\ \A r \in 0 .. 1 : peers'[r].addr \in {peers[r].addr, a}
  <2>1. /\ peers'[s] = [id |-> a.peer, addr |-> a]
        /\ \A r \in 0 .. 1 : r # s => peers'[r] = peers[r]
    BY <1>2, <1>4
  <2>2. peers[s].id = a.peer => peers[s] # NoPeer
    BY <1>1, PeersAssumption DEF NoPeer
  <2>3. \A r \in 0 .. 1 : r # s => peers[r].id # a.peer
    BY <1>4, <2>2 DEF PlacesApart
  <2>4. peers'[0].id # peers'[1].id
    BY <2>1, <2>3
  <2> QED
    BY <1>2, <1>4, <2>1, <2>4 DEF PlacesApart
<1> QED
  BY <1>1, <1>3, <1>4, RouteIsSet

(* What comes from one address is routed to another peer's, or nowhere.    *)
LEMMA RouteLeadsAway ==
  ASSUME TypeOK, PlacesApart, NEW a \in Address
  PROVE  \/ Route(a) = Nowhere
         \/ /\ Route(a) \in Address /\ Route(a).peer # a.peer
            /\ \E s \in 0 .. 1 : peers[s].addr = Route(a)
<1>1. \A s \in 0 .. 1 :
        \/ peers[s] = NoPeer /\ peers[s].addr = Nowhere
        \/ /\ peers[s] # NoPeer /\ peers[s].addr \in Address
           /\ peers[s].addr.peer = peers[s].id
  BY PeersAssumption DEF TypeOK, PlacesApart, NoPeer
<1>2. a # Nowhere
  BY AddressFacts
<1> QED
  BY <1>1, <1>2 DEF Route, PlacesApart

(* Where a datagram is delivered there is a client.                        *)
LEMMA DeliveredTo ==
  ASSUME NEW a, a \in Address \/ a = Nowhere, NEW d, Deliver(a, d)
  PROVE  \/ down' = down
         \/ /\ a \in Address /\ Live(a)
            /\ down' = [down EXCEPT ![a] = Append(down[a], d)]
BY DEF Deliver

-----------------------------------------------------------------------------
(* Order: one lemma for each action. *)

LEMMA InitOrder == Init => Order
<1> SUFFICES ASSUME Init PROVE Order
  OBVIOUS
<1>1. TypeOK
  BY RelayBoundsAssumption DEF Init, TypeOK
<1>2. Started /\ NoEcho
  BY DEF Init, Started, NoEcho
<1>3. PlacesApart
  BY DEF Init, PlacesApart
<1>4. UpIsOwn /\ DownIsOthers
  BY ShortOnes DEF Init, UpIsOwn, DownIsOthers
<1>5. Unborn
  BY AddressFacts DEF Init, Unborn, NoPeer
<1> QED
  BY <1>1, <1>2, <1>3, <1>4, <1>5 DEF Order

LEMMA StartKeepsOrder ==
  ASSUME Order, NEW c \in Peers, Start(c)
  PROVE  Order'
<1> DEFINE a == [peer |-> c, run |-> run[c] + 1]
<1>1. /\ TypeOK /\ Started /\ PlacesApart /\ UpIsOwn /\ DownIsOthers
      /\ Unborn /\ NoEcho
  BY DEF Order
<1>2. run[c] \in Nat /\ run[c] + 1 \in 1 .. MaxRuns /\ a \in Address
  <2>1. run[c] \in 0 .. MaxRuns /\ run[c] < MaxRuns
    BY <1>1 DEF Start, TypeOK
  <2>2. run[c] \in Nat /\ run[c] + 1 \in 1 .. MaxRuns
    BY <2>1, RelayBoundsAssumption
  <2> QED
    BY <2>2, AddressFacts
<1>3. /\ run' = [run EXCEPT ![c] = run[c] + 1]
      /\ up' = [up EXCEPT ![a] = <<Handshake(c)>>]
      /\ phase' = [phase EXCEPT ![c] = "connecting"]
      /\ reading' = [reading EXCEPT ![c] = TRUE]
      /\ writing' = [writing EXCEPT ![c] = TRUE]
      /\ icmp' = [icmp EXCEPT ![c] = "none"] /\ serving' = serving
      /\ written' = [written EXCEPT ![c] = 0]
      /\ received' = [received EXCEPT ![c] = {}]
      /\ peers' = peers /\ down' = down
  BY DEF Start
<1>4. TypeOK'
  <2>1. <<Handshake(c)>> \in Seq(Datagrams)
    BY DatagramFacts
  <2>2. 0 \in 0 .. MaxData
    BY RelayBoundsAssumption
  <2> QED
    BY <1>1, <1>2, <1>3, <2>1, <2>2, RelayBoundsAssumption DEF TypeOK
<1>5. Started'
  BY <1>1, <1>2, <1>3 DEF Started, TypeOK
<1>6. UpIsOwn'
  <2> SUFFICES ASSUME NEW b \in Address, NEW d \in ToSet(up'[b])
               PROVE  d.peer = b.peer
    BY DEF UpIsOwn, ToSet
  <2>1. CASE b = a
    BY <1>1, <1>2, <1>3, <2>1, ShortOnes, DatagramFacts DEF TypeOK
  <2>2. CASE b # a
    BY <1>1, <1>2, <1>3, <2>2 DEF TypeOK, UpIsOwn
  <2> QED
    BY <2>1, <2>2
<1>7. Unborn'
  <2> SUFFICES ASSUME NEW b \in Address, run'[b.peer] < b.run
               PROVE  /\ up'[b] = << >> /\ down'[b] = << >>
                      /\ \A s \in 0 .. 1 : peers'[s].addr # b
    BY DEF Unborn
  <2>1. run[b.peer] < b.run /\ b # a
    BY <1>1, <1>2, <1>3, AddressFacts DEF TypeOK
  <2> QED
    BY <1>1, <1>2, <1>3, <2>1 DEF TypeOK, Unborn
<1>8. DownIsOthers' /\ PlacesApart'
  BY <1>1, <1>3 DEF DownIsOthers, PlacesApart
<1>9. NoEcho'
  BY <1>1, <1>3 DEF NoEcho, TypeOK
<1> QED
  BY <1>4, <1>5, <1>6, <1>7, <1>8, <1>9 DEF Order

(* A client that takes what came in, whatever it does with it. *)
LEMMA TakeIncomingKeeps ==
  ASSUME Order, NEW c \in Peers, phase[c] # "off", TakeIncoming(c)
  PROVE  /\ down' \in [Address -> Seq(Datagrams)]
         /\ DownIsOthers' /\ Unborn' /\ UpIsOwn' /\ PlacesApart'
         /\ Incoming(c) \in Seq(Datagrams) /\ Incoming(c) # << >>
         /\ Head(Incoming(c)) \in Datagrams
         /\ Head(Incoming(c)) \in ToSet(down[AddressOf(c)])
<1> DEFINE a == AddressOf(c)
<1>1. /\ TypeOK /\ Started /\ PlacesApart /\ UpIsOwn /\ DownIsOthers
      /\ Unborn
  BY DEF Order
<1>2. a \in Address /\ down[a] \in Seq(Datagrams) /\ down[a] # << >>
  BY <1>1, HasAddress DEF TypeOK, TakeIncoming, Incoming
<1>3. /\ down' = [down EXCEPT ![a] = Tail(down[a])]
      /\ run' = run /\ up' = up /\ peers' = peers
  BY DEF TakeIncoming
<1>4. /\ Tail(down[a]) \in Seq(Datagrams)
      /\ ToSet(Tail(down[a])) \subseteq ToSet(down[a])
      /\ Head(down[a]) \in Datagrams /\ Head(down[a]) \in ToSet(down[a])
  BY <1>2, TailOf
<1>5. \A b \in Address : ToSet(down'[b]) \subseteq ToSet(down[b])
  BY <1>1, <1>2, <1>3, <1>4 DEF TypeOK
<1>6. DownIsOthers'
  BY <1>1, <1>5 DEF DownIsOthers, ToSet
<1>7. Unborn'
  <2>1. ~ run[a.peer] < a.run
    BY <1>1, <1>2 DEF Unborn
  <2> QED
    BY <1>1, <1>2, <1>3, <2>1 DEF Unborn, TypeOK
<1>8. UpIsOwn' /\ PlacesApart'
  BY <1>1, <1>3 DEF UpIsOwn, PlacesApart, ToSet
<1> QED
  BY <1>1, <1>2, <1>3, <1>4, <1>6, <1>7, <1>8 DEF TypeOK, Incoming

LEMMA ConnectKeepsOrder ==
  ASSUME Order, NEW c \in Peers, Connect(c)
  PROVE  Order'
<1>1. TypeOK /\ Started /\ NoEcho
  BY DEF Order
<1>2. /\ down' \in [Address -> Seq(Datagrams)]
      /\ DownIsOthers' /\ Unborn' /\ UpIsOwn' /\ PlacesApart'
  BY TakeIncomingKeeps DEF Connect
<1>3. /\ phase' \in [Peers -> {"off", "connecting", "running", "failed",
                               "unreached"}]
      /\ \A b \in Peers : phase'[b] # "off" => phase[b] # "off"
  BY <1>1 DEF Connect, TypeOK
<1>4. TypeOK' /\ Started' /\ NoEcho'
  BY <1>1, <1>2, <1>3 DEF Connect, TakeIncoming, TypeOK, Started, NoEcho
<1> QED
  BY <1>2, <1>4 DEF Order

LEMMA ReadKeepsOrder ==
  ASSUME Order, NEW c \in Peers, Read(c)
  PROVE  Order'
<1>1. TypeOK /\ Started /\ NoEcho /\ DownIsOthers
  BY DEF Order
<1>2. /\ down' \in [Address -> Seq(Datagrams)]
      /\ DownIsOthers' /\ Unborn' /\ UpIsOwn' /\ PlacesApart'
      /\ Head(Incoming(c)) \in Datagrams
      /\ Head(Incoming(c)) \in ToSet(down[AddressOf(c)])
  BY TakeIncomingKeeps DEF Read
<1>3. /\ reading' \in [Peers -> BOOLEAN]
      /\ received' \in [Peers -> SUBSET Datagrams]
      /\ UNCHANGED <<phase, run, written, writing, icmp, serving, up, peers>>
  <2>1. UNCHANGED <<phase, run, written, writing, icmp, serving, up, peers>>
    BY DEF Read, TakeIncoming
  <2>2. reading' = [reading EXCEPT ![c] = FALSE] \/ reading' = reading
    BY DEF Read
  <2>3. \/ received' = received
        \/ received' =
             [received EXCEPT ![c] = received[c] \cup {Head(Incoming(c))}]
    BY DEF Read
  <2>4. reading' \in [Peers -> BOOLEAN]
    BY <1>1, <2>2 DEF TypeOK
  <2>5. received' \in [Peers -> SUBSET Datagrams]
    <3>1. /\ received \in [Peers -> SUBSET Datagrams]
          /\ received[c] \cup {Head(Incoming(c))} \in SUBSET Datagrams
      BY <1>1, <1>2 DEF TypeOK
    <3> QED
      BY <2>3, <3>1
  <2> QED
    BY <2>1, <2>4, <2>5
<1>4. TypeOK' /\ Started'
  BY <1>1, <1>2, <1>3 DEF TypeOK, Started
<1>5. NoEcho'
  <2>1. AddressOf(c) \in Address /\ AddressOf(c).peer = c
    BY <1>1, HasAddress DEF Read
  <2>2. CASE WrongLength(Head(Incoming(c)))
    BY <1>1, <2>2 DEF Read, NoEcho
  <2>3. CASE ~ WrongLength(Head(Incoming(c)))
    <3>1. Head(Incoming(c)).peer # c
      BY <1>1, <1>2, <2>1, <2>3, DatagramFacts DEF DownIsOthers, WrongLength
    <3>2. received' =
            [received EXCEPT ![c] = received[c] \cup {Head(Incoming(c))}]
      BY <2>3 DEF Read
    <3> QED
      BY <1>1, <3>1, <3>2 DEF NoEcho, TypeOK
  <2> QED
    BY <2>2, <2>3
<1> QED
  BY <1>2, <1>4, <1>5 DEF Order

LEMMA WriteKeepsOrder ==
  ASSUME Order, NEW c \in Peers, Write(c)
  PROVE  Order'
<1> DEFINE a == AddressOf(c)
           d == Datum(a, written[c] + 1)
<1>1. /\ TypeOK /\ Started /\ PlacesApart /\ UpIsOwn /\ DownIsOthers
      /\ Unborn /\ NoEcho
  BY DEF Order
<1>2. a \in Address /\ a.peer = c /\ a.run = run[c]
  BY <1>1, HasAddress DEF Write
<1>3. written[c] + 1 \in 1 .. MaxData
  BY <1>1, RelayBoundsAssumption DEF Write, TypeOK
<1>4. d \in Datagrams /\ d.peer = a.peer
  BY <1>2, <1>3, DatagramFacts
<1>5. /\ up' = [up EXCEPT ![a] = Append(up[a], d)]
      /\ written' = [written EXCEPT ![c] = written[c] + 1]
      /\ UNCHANGED <<phase, run, reading, writing, icmp, serving, received,
                     peers, down>>
  BY DEF Write
<1>6. /\ Append(up[a], d) \in Seq(Datagrams)
      /\ ToSet(Append(up[a], d)) = ToSet(up[a]) \cup {d}
  BY <1>1, <1>2, <1>4, AppendOf DEF TypeOK
<1>7. TypeOK'
  BY <1>1, <1>2, <1>3, <1>5, <1>6 DEF TypeOK
<1>8. UpIsOwn'
  BY <1>1, <1>2, <1>4, <1>5, <1>6, SMTT(30) DEF UpIsOwn, ToSet, TypeOK
<1>9. Unborn'
  <2>1. ~ run[a.peer] < a.run
    BY <1>1, <1>2 DEF TypeOK
  <2> QED
    BY <1>1, <1>2, <1>5, <2>1 DEF Unborn, TypeOK
<1>10. Started' /\ PlacesApart' /\ DownIsOthers' /\ NoEcho'
  BY <1>1, <1>5 DEF Started, PlacesApart, DownIsOthers, NoEcho, ToSet
<1> QED
  BY <1>7, <1>8, <1>9, <1>10 DEF Order

LEMMA QuitKeepsOrder ==
  ASSUME Order, NEW c \in Peers, Quit(c)
  PROVE  Order'
<1> DEFINE a == AddressOf(c)
<1>1. /\ TypeOK /\ Started /\ PlacesApart /\ UpIsOwn /\ DownIsOthers
      /\ Unborn /\ NoEcho
  BY DEF Order
<1>2. /\ phase' = [phase EXCEPT ![c] = "off"]
      /\ down' = [down EXCEPT ![a] = << >>]
      /\ UNCHANGED <<run, reading, writing, icmp, written, received, peers,
                     serving, up>>
  BY DEF Quit
<1>3. \A b \in Address : down'[b] = down[b] \/ down'[b] = << >>
  BY <1>1, <1>2 DEF TypeOK
<1>4. TypeOK'
  <2>1. << >> \in Seq(Datagrams)
    OBVIOUS
  <2> QED
    BY <1>1, <1>2, <2>1 DEF TypeOK
<1>5. DownIsOthers'
  BY <1>1, <1>3, ShortOnes DEF DownIsOthers, ToSet
<1>6. Unborn'
  BY <1>1, <1>2, <1>3 DEF Unborn
<1>7. Started' /\ PlacesApart' /\ UpIsOwn' /\ NoEcho'
  BY <1>1, <1>2 DEF TypeOK, Started, PlacesApart, UpIsOwn, NoEcho, ToSet
<1> QED
  BY <1>4, <1>5, <1>6, <1>7 DEF Order

(* The relay takes what came from an address. *)
LEMMA TakeUpKeeps ==
  ASSUME Order, NEW a \in Address, NEW d, TakeUp(a, d)
  PROVE  /\ up[a] # << >> /\ d = Head(up[a])
         /\ d \in Datagrams /\ d.peer = a.peer
         /\ ~ run[a.peer] < a.run
         /\ up' = [up EXCEPT ![a] = Tail(up[a])]
         /\ up' \in [Address -> Seq(Datagrams)]
         /\ UpIsOwn'
         /\ UNCHANGED <<phase, run, reading, writing, icmp, serving, written,
                        received>>
<1>1. TypeOK /\ UpIsOwn /\ Unborn
  BY DEF Order
<1>2. up[a] \in Seq(Datagrams) /\ up[a] # << >> /\ d = Head(up[a])
  BY <1>1 DEF TakeUp, TypeOK
<1>3. /\ Tail(up[a]) \in Seq(Datagrams)
      /\ ToSet(Tail(up[a])) \subseteq ToSet(up[a])
      /\ d \in Datagrams /\ d \in ToSet(up[a])
  BY <1>2, TailOf
<1>4. up' = [up EXCEPT ![a] = Tail(up[a])]
  BY DEF TakeUp
<1>5. \A b \in Address : ToSet(up'[b]) \subseteq ToSet(up[b])
  BY <1>1, <1>3, <1>4 DEF TypeOK
<1>6. UpIsOwn'
  BY <1>1, <1>5 DEF UpIsOwn, ToSet
<1>7. ~ run[a.peer] < a.run
  BY <1>1, <1>2 DEF Unborn
<1> QED
  BY <1>1, <1>2, <1>3, <1>4, <1>6, <1>7 DEF TypeOK, UpIsOwn, TakeUp, clientVars

(* The relay delivers a datagram to an address it may go to. *)
LEMMA DeliverKeeps ==
  ASSUME Order, NEW a, a \in Address \/ a = Nowhere, NEW d \in Datagrams,
         Deliver(a, d), run' = run,
         a \in Address => d = Handshake(a.peer)
                            \/ (d.kind = "data" /\ d.peer # a.peer)
  PROVE  /\ down' \in [Address -> Seq(Datagrams)]
         /\ DownIsOthers'
         /\ \A b \in Address : run[b.peer] < b.run => down'[b] = << >>
<1>1. TypeOK /\ DownIsOthers /\ Unborn
  BY DEF Order
<1>2. CASE down' = down
  BY <1>1, <1>2 DEF TypeOK, DownIsOthers, Unborn, ToSet
<1>3. CASE /\ a \in Address /\ Live(a)
           /\ down' = [down EXCEPT ![a] = Append(down[a], d)]
  <2>1. /\ Append(down[a], d) \in Seq(Datagrams)
        /\ ToSet(Append(down[a], d)) = ToSet(down[a]) \cup {d}
    BY <1>1, <1>3, AppendOf DEF TypeOK
  <2>2. DownIsOthers'
    <3> SUFFICES ASSUME NEW b \in Address, NEW e \in ToSet(down'[b])
                 PROVE  e = Handshake(b.peer)
                          \/ (e.kind = "data" /\ e.peer # b.peer)
      BY DEF DownIsOthers, ToSet
    <3>1. CASE b = a
      BY <1>1, <1>3, <2>1, <3>1 DEF TypeOK, DownIsOthers
    <3>2. CASE b # a
      BY <1>1, <1>3, <3>2 DEF TypeOK, DownIsOthers
    <3> QED
      BY <3>1, <3>2
  <2>3. a.run = run[a.peer] /\ run[a.peer] \in Nat
    BY <1>1, <1>3, AddressFacts DEF Live, TypeOK
  <2>4. \A b \in Address : run[b.peer] < b.run => b # a
    BY <2>3
  <2> QED
    BY <1>1, <1>3, <2>1, <2>2, <2>4 DEF TypeOK, Unborn
<1> QED
  BY <1>2, <1>3, DeliveredTo

(* What ServeHandshake does: the hello is the peer's own. *)
LEMMA HelloIsOwn ==
  ASSUME Order, NEW a \in Address, ServeHandshake(a)
  PROVE  /\ TakeUp(a, Handshake(a.peer))
         /\ SetRoute(a.peer, a)
         /\ Deliver(a, Handshake(a.peer))
<1>1. PICK c \in Peers : /\ TakeUp(a, Handshake(c))
                         /\ SetRoute(c, a)
                         /\ Deliver(a, Handshake(c))
  BY DEF ServeHandshake
<1>2. c = a.peer
  BY <1>1, TakeUpKeeps, DatagramFacts
<1> QED
  BY <1>1, <1>2

LEMMA ServeHandshakeKeepsOrder ==
  ASSUME Order, NEW a \in Address, ServeHandshake(a)
  PROVE  Order'
<1> DEFINE d == Handshake(a.peer)
<1>1. TypeOK /\ Started /\ PlacesApart /\ Unborn /\ NoEcho
  BY DEF Order
<1>2. TakeUp(a, d) /\ SetRoute(a.peer, a) /\ Deliver(a, d)
  BY HelloIsOwn
<1>3. /\ d \in Datagrams /\ ~ run[a.peer] < a.run
      /\ up' = [up EXCEPT ![a] = Tail(up[a])]
      /\ up' \in [Address -> Seq(Datagrams)]
      /\ UpIsOwn'
      /\ UNCHANGED <<phase, run, reading, writing, icmp, serving, written,
                     received>>
  BY <1>2, TakeUpKeeps
<1>4. /\ peers' \in [0 .. 1 -> [id : Peers, addr : Address] \cup {NoPeer}]
      /\ PlacesApart'
      /\ \A s \in 0 .. 1 : peers'[s].addr \in {peers[s].addr, a}
  BY <1>1, <1>2, SetRouteKeeps
<1>5. /\ down' \in [Address -> Seq(Datagrams)]
      /\ DownIsOthers'
      /\ \A b \in Address : run[b.peer] < b.run => down'[b] = << >>
  BY <1>2, <1>3, DeliverKeeps
<1>6. Unborn'
  <2> SUFFICES ASSUME NEW b \in Address, run[b.peer] < b.run
               PROVE  /\ up'[b] = << >> /\ down'[b] = << >>
                      /\ \A s \in 0 .. 1 : peers'[s].addr # b
    BY <1>3 DEF Unborn
  <2>1. b # a
    BY <1>3
  <2>2. up'[b] = << >> /\ down'[b] = << >>
    BY <1>1, <1>3, <1>5, <2>1 DEF Unborn, TypeOK
  <2>3. \A s \in 0 .. 1 : peers[s].addr # b
    BY <1>1 DEF Unborn
  <2> QED
    BY <1>4, <2>1, <2>2, <2>3
<1>7. TypeOK' /\ Started' /\ NoEcho'
  BY <1>1, <1>3, <1>4, <1>5 DEF TypeOK, Started, NoEcho
<1> QED
  BY <1>3, <1>4, <1>5, <1>6, <1>7 DEF Order

LEMMA ServeDataKeepsOrder ==
  ASSUME Order, NEW a \in Address, ServeData(a)
  PROVE  Order'
<1> DEFINE d == Head(up[a])
<1>1. TypeOK /\ Started /\ PlacesApart /\ Unborn /\ NoEcho
  BY DEF Order
<1>2. /\ d.kind = "data" /\ TakeUp(a, d) /\ Deliver(Route(a), d)
      /\ peers' = peers
  BY DEF ServeData
<1>3. /\ d \in Datagrams /\ d.peer = a.peer
      /\ up' = [up EXCEPT ![a] = Tail(up[a])]
      /\ ~ run[a.peer] < a.run
      /\ up' \in [Address -> Seq(Datagrams)]
      /\ UpIsOwn'
      /\ UNCHANGED <<phase, run, reading, writing, icmp, serving, written,
                     received>>
  BY <1>2, TakeUpKeeps
<1>4. /\ Route(a) \in Address \/ Route(a) = Nowhere
      /\ Route(a) \in Address => Route(a).peer # a.peer
  BY <1>1, RouteLeadsAway, AddressFacts
<1>5. /\ down' \in [Address -> Seq(Datagrams)]
      /\ DownIsOthers'
      /\ \A b \in Address : run[b.peer] < b.run => down'[b] = << >>
  BY <1>2, <1>3, <1>4, DeliverKeeps
<1>6. Unborn'
  BY <1>1, <1>2, <1>3, <1>5 DEF Unborn, TypeOK
<1>7. TypeOK' /\ Started' /\ NoEcho' /\ PlacesApart'
  BY <1>1, <1>2, <1>3, <1>5 DEF TypeOK, Started, NoEcho, PlacesApart
<1> QED
  BY <1>3, <1>5, <1>6, <1>7 DEF Order

(* An error ends a goroutine or the client, and is gone. *)
LEMMA MeetErrorKeepsOrder ==
  ASSUME Order, NEW c \in Peers, MeetError(c)
  PROVE  Order'
<1>1. TypeOK
  BY DEF Order
<1>2. UNCHANGED <<run, serving, written, received, peers, up, down>>
  BY DEF MeetError, ConnectFails, ReadFails, WriteFails, TakeError
<1>3. /\ \/ phase' = phase
         \/ phase[c] # "off" /\ phase' = [phase EXCEPT ![c] = "unreached"]
      /\ reading' = reading \/ reading' = [reading EXCEPT ![c] = FALSE]
      /\ writing' = writing \/ writing' = [writing EXCEPT ![c] = FALSE]
      /\ icmp' = [icmp EXCEPT ![c] = "taken"]
  BY DEF MeetError, ConnectFails, ReadFails, WriteFails, TakeError
<1>4. /\ reading' \in [Peers -> BOOLEAN] /\ writing' \in [Peers -> BOOLEAN]
      /\ icmp' \in [Peers -> {"none", "waiting", "taken"}]
      /\ phase' \in [Peers -> {"off", "connecting", "running", "failed",
                               "unreached"}]
  BY <1>1, <1>3 DEF TypeOK
<1>5. TypeOK'
  BY <1>1, <1>2, <1>4 DEF TypeOK
<1>6. Started'
  BY <1>1, <1>2, <1>3 DEF Order, Started, TypeOK
<1>7. PlacesApart' /\ UpIsOwn' /\ DownIsOthers' /\ Unborn' /\ NoEcho'
  BY <1>2 DEF Order, PlacesApart, UpIsOwn, DownIsOthers, Unborn, NoEcho, ToSet
<1> QED
  BY <1>5, <1>6, <1>7 DEF Order

(* A fault of the network only takes from a queue or repeats its head, and *)
(* what finds the relay down is taken as well.                             *)
LEMMA FaultUpKeepsOrder ==
  ASSUME Order, NEW a \in Address, LoseUp(a) \/ DuplicateUp(a) \/ Bounce(a)
  PROVE  Order'
<1>1. TypeOK /\ UpIsOwn /\ Unborn
  BY DEF Order
<1>2. PICK q \in Seq(Datagrams) : /\ up[a] # << >>
                                  /\ up' = [up EXCEPT ![a] = q]
                                  /\ ToSet(q) \subseteq ToSet(up[a])
  <2>1. up[a] # << >> /\ up[a] \in Seq(Datagrams)
    BY <1>1 DEF TypeOK, LoseUp, DuplicateUp, Bounce
  <2>2. /\ Tail(up[a]) \in Seq(Datagrams) /\ Twice(up[a]) \in Seq(Datagrams)
        /\ ToSet(Tail(up[a])) \subseteq ToSet(up[a])
        /\ ToSet(Twice(up[a])) = ToSet(up[a])
    BY <2>1, TailOf, TwiceOf
  <2> QED
    BY <2>1, <2>2 DEF LoseUp, DuplicateUp, Bounce
<1>3. /\ UNCHANGED <<phase, run, reading, writing, serving, written, received,
                     peers, down>>
      /\ icmp' = icmp \/ icmp' = [icmp EXCEPT ![a.peer] = "waiting"]
  BY DEF LoseUp, DuplicateUp, Bounce, clientVars
<1>4. UpIsOwn'
  <2>1. \A b \in Address : ToSet(up'[b]) \subseteq ToSet(up[b])
    BY <1>1, <1>2 DEF TypeOK
  <2> QED
    BY <1>1, <2>1 DEF UpIsOwn, ToSet
<1>5. Unborn'
  BY <1>1, <1>2, <1>3 DEF Unborn, TypeOK
<1>6. TypeOK'
  <2>1. icmp' \in [Peers -> {"none", "waiting", "taken"}]
    BY <1>1, <1>3 DEF TypeOK
  <2> QED
    BY <1>1, <1>2, <1>3, <2>1 DEF TypeOK
<1>7. Started' /\ NoEcho' /\ PlacesApart' /\ DownIsOthers'
  BY <1>3 DEF Order, Started, NoEcho, PlacesApart, DownIsOthers, ToSet
<1> QED
  BY <1>4, <1>5, <1>6, <1>7 DEF Order

LEMMA FaultDownKeepsOrder ==
  ASSUME Order, NEW a \in Address, LoseDown(a) \/ DuplicateDown(a)
  PROVE  Order'
<1>1. TypeOK /\ DownIsOthers /\ Unborn
  BY DEF Order
<1>2. PICK q \in Seq(Datagrams) : /\ down[a] # << >>
                                  /\ down' = [down EXCEPT ![a] = q]
                                  /\ ToSet(q) \subseteq ToSet(down[a])
  <2>1. down[a] # << >> /\ down[a] \in Seq(Datagrams)
    BY <1>1 DEF TypeOK, LoseDown, DuplicateDown
  <2>2. /\ Tail(down[a]) \in Seq(Datagrams)
        /\ Twice(down[a]) \in Seq(Datagrams)
        /\ ToSet(Tail(down[a])) \subseteq ToSet(down[a])
        /\ ToSet(Twice(down[a])) = ToSet(down[a])
    BY <2>1, TailOf, TwiceOf
  <2> QED
    BY <2>1, <2>2 DEF LoseDown, DuplicateDown
<1>3. UNCHANGED <<phase, run, reading, writing, icmp, serving, written,
                  received, peers, up>>
  BY DEF LoseDown, DuplicateDown, clientVars
<1>4. DownIsOthers'
  <2>1. \A b \in Address : ToSet(down'[b]) \subseteq ToSet(down[b])
    BY <1>1, <1>2 DEF TypeOK
  <2> QED
    BY <1>1, <2>1 DEF DownIsOthers, ToSet
<1>5. Unborn'
  BY <1>1, <1>2, <1>3 DEF Unborn, TypeOK
<1>6. TypeOK'
  BY <1>1, <1>2, <1>3 DEF TypeOK
<1>7. Started' /\ NoEcho' /\ PlacesApart' /\ UpIsOwn'
  BY <1>3 DEF Order, Started, NoEcho, PlacesApart, UpIsOwn, ToSet
<1> QED
  BY <1>4, <1>5, <1>6, <1>7 DEF Order

LEMMA RelayKeepsOrder ==
  ASSUME Order, StopRelay \/ StartRelay
  PROVE  Order'
<1>1. /\ peers' = peers \/ peers' = [s \in 0 .. 1 |-> NoPeer]
      /\ serving' \in BOOLEAN
      /\ UNCHANGED <<phase, run, reading, writing, icmp, written, received,
                     up, down>>
  BY DEF StopRelay, StartRelay, clientVars
<1>2. TypeOK' /\ PlacesApart'
  BY <1>1 DEF Order, TypeOK, PlacesApart
<1>3. Unborn'
  <2>1. peers' = peers \/ \A s \in 0 .. 1 : peers'[s].addr = Nowhere
    BY <1>1 DEF NoPeer
  <2> QED
    BY <1>1, <2>1, AddressFacts DEF Order, Unborn
<1>4. Started' /\ NoEcho' /\ UpIsOwn' /\ DownIsOthers'
  BY <1>1 DEF Order, Started, NoEcho, UpIsOwn, DownIsOthers, ToSet
<1> QED
  BY <1>2, <1>3, <1>4 DEF Order

LEMMA NextKeepsOrder == Order /\ [Next]_vars => Order'
<1> SUFFICES ASSUME Order, [Next]_vars PROVE Order'
  OBVIOUS
<1>1. ASSUME NEW c \in Peers, Client(c) PROVE Order'
  BY <1>1, StartKeepsOrder, ConnectKeepsOrder, ReadKeepsOrder,
     WriteKeepsOrder, QuitKeepsOrder, MeetErrorKeepsOrder DEF Client
<1>2. ASSUME NEW a \in Address, Serve(a) PROVE Order'
  BY <1>2, ServeHandshakeKeepsOrder, ServeDataKeepsOrder DEF Serve
<1>3. ASSUME NEW a \in Address, Network(a) PROVE Order'
  BY <1>3, FaultUpKeepsOrder, FaultDownKeepsOrder DEF Network
<1>4. CASE StopRelay \/ StartRelay
  BY <1>4, RelayKeepsOrder
<1>5. CASE UNCHANGED vars
  <2>1. UNCHANGED <<phase, run, reading, writing, icmp, serving, written,
                    received, peers, up, down>>
    BY <1>5 DEF vars, clientVars
  <2> QED
    BY <2>1 DEF Order, TypeOK, Started, PlacesApart, UpIsOwn, DownIsOthers,
                Unborn, NoEcho, ToSet
<1> QED
  BY <1>1, <1>2, <1>3, <1>4, <1>5 DEF Next

(* What addresses, places and datagrams belong together (main.go:86-129).  *)
THEOREM RelayOrder == Spec => []Order
BY InitOrder, NextKeepsOrder, PTL DEF Spec

(* Every client and both places keep to their types: no place ever holds   *)
(* half a peer.                                                            *)
THEOREM TypeCorrect == Spec => []TypeOK
BY RelayOrder, PTL DEF Order

(* A client never gets its own packets back, whatever is lost, doubled or  *)
(* late and whoever is started again (main.go:86-105, 121-129).            *)
THEOREM NobodyHearsItself == Spec => []NoEcho
BY RelayOrder, PTL DEF Order

-----------------------------------------------------------------------------
(* The echo comes first. *)

FaultCounts ==
  lost \in Nat /\ duplicates \in Nat /\ stale \in Nat /\ restarts \in Nat

(* The echo is what waits first in the client's socket, or the hello, if   *)
(* it has not found the relay down, is all that is on its way and nobody   *)
(* else knows the address.                                                 *)
EchoComesFirst(c) ==
  LET a == AddressOf(c) IN
    \/ down[a] # << >> /\ Head(down[a]) = Handshake(c)
    \/ /\ down[a] = << >>
       /\ \A d \in ToSet(up[a]) : d = Handshake(c)
       /\ \A s \in 0 .. 1 : peers[s].addr # a

EchoFirst ==
  lost = 0 =>
    \A c \in Peers : phase[c] = "connecting" => EchoComesFirst(c)

FaultCountsStay == FaultCounts /\ [Next]_vars => FaultCounts'

LEMMA FaultsAreCounted == FaultCountsStay
<1> SUFFICES ASSUME FaultCounts, [Next]_vars PROVE FaultCounts'
  BY DEF FaultCountsStay
<1>1. ASSUME NEW c \in Peers, Client(c) PROVE FaultCounts'
  BY <1>1 DEF Client, Start, CountStale, Connect, Read, TakeIncoming, Write,
     Quit, MeetError, ConnectFails, ReadFails, WriteFails, TakeError,
     FaultCounts, faultVars
<1>2. ASSUME NEW a \in Address, Serve(a) PROVE FaultCounts'
  BY <1>2 DEF Serve, ServeHandshake, ServeData, TakeUp, FaultCounts, faultVars
<1>3. ASSUME NEW a \in Address, Network(a) PROVE FaultCounts'
  BY <1>3 DEF Network, LoseUp, LoseDown, DuplicateUp, DuplicateDown, Bounce,
     FaultCounts, faultVars
<1>4. CASE StopRelay \/ StartRelay
  BY <1>4 DEF StopRelay, StartRelay, FaultCounts, faultVars
<1>5. CASE UNCHANGED vars
  BY <1>5 DEF vars, faultVars, FaultCounts
<1> QED
  BY <1>1, <1>2, <1>3, <1>4, <1>5 DEF Next

LEMMA OwnAddress ==
  ASSUME NEW c, NEW d, AddressOf(c) = AddressOf(d)
  PROVE  c = d
BY DEF AddressOf

(* A step that leaves alone what a client's echo depends on. *)
LEMMA EchoFrame ==
  ASSUME NEW c \in Peers, EchoComesFirst(c), run'[c] = run[c],
         down'[AddressOf(c)] = down[AddressOf(c)],
         up'[AddressOf(c)] = up[AddressOf(c)], peers' = peers
  PROVE  EchoComesFirst(c)'
BY DEF EchoComesFirst, AddressOf, ToSet

LEMMA ClientKeepsEchoFirst ==
  ASSUME Order, EchoFirst, NeverRefused, NEW c \in Peers, Client(c)
  PROVE  EchoFirst' /\ NeverRefused'
<1> DEFINE a == AddressOf(c)
<1>1. TypeOK /\ Started /\ Unborn
  BY DEF Order
<1>2. lost' = lost /\ peers' = peers
  BY DEF Client, Start, Connect, Read, TakeIncoming, Write, Quit, MeetError,
         ConnectFails, ReadFails, WriteFails, TakeError, faultVars
<1>3. CASE Start(c)
  <2> DEFINE b == [peer |-> c, run |-> run[c] + 1]
  <2>1. b \in Address /\ run[c] < run[c] + 1
    <3>1. run[c] \in Nat /\ run[c] + 1 \in 1 .. MaxRuns
      BY <1>1, <1>3, RelayBoundsAssumption DEF Start, TypeOK
    <3> QED
      BY <3>1, AddressFacts
  <2>2. /\ run' = [run EXCEPT ![c] = run[c] + 1]
        /\ phase' = [phase EXCEPT ![c] = "connecting"]
        /\ up' = [up EXCEPT ![b] = <<Handshake(c)>>]
        /\ down' = down
    BY <1>3 DEF Start
  <2>3. (AddressOf(c))' = b
    BY <1>1, <2>2 DEF AddressOf, TypeOK
  <2>4. EchoComesFirst(c)'
    <3>1. down[b] = << >> /\ \A s \in 0 .. 1 : peers[s].addr # b
      BY <1>1, <2>1 DEF Unborn
    <3>2. up'[b] = <<Handshake(c)>>
      BY <1>1, <2>1, <2>2 DEF TypeOK
    <3> QED
      BY <1>2, <2>2, <2>3, <3>1, <3>2, ShortOnes DEF EchoComesFirst
  <2>5. ASSUME NEW d \in Peers, d # c, phase[d] = "connecting",
               EchoComesFirst(d)
        PROVE  EchoComesFirst(d)'
    <3>1. AddressOf(d) # b /\ run'[d] = run[d]
      BY <1>1, <2>2, <2>5 DEF AddressOf, TypeOK
    <3>2. up'[AddressOf(d)] = up[AddressOf(d)]
      BY <1>1, <2>2, <2>5, <3>1, HasAddress DEF TypeOK
    <3> QED
      BY <1>2, <2>2, <2>5, <3>1, <3>2, EchoFrame
  <2> QED
    BY <1>1, <1>2, <2>2, <2>4, <2>5 DEF EchoFirst, NeverRefused, TypeOK
<1>4. CASE ~ Start(c)
  <2>1. /\ phase[c] # "off" /\ run' = run
        /\ \A d \in Peers : d # c => phase'[d] = phase[d]
        /\ phase'[c] # "connecting"
        /\ \/ up' = up
           \/ \E q : up' = [up EXCEPT ![a] = q]
        /\ \/ down' = down
           \/ \E q : down' = [down EXCEPT ![a] = q]
    BY <1>1, <1>4 DEF Client, Connect, Read, TakeIncoming, Write, Quit,
       MeetError, ConnectFails, ReadFails, WriteFails, TakeError, TypeOK
  <2>2. EchoFirst'
    <3> SUFFICES ASSUME lost = 0, NEW d \in Peers, phase'[d] = "connecting"
                 PROVE  EchoComesFirst(d)'
      BY <1>2 DEF EchoFirst
    <3>1. d # c /\ phase[d] = "connecting"
      BY <2>1
    <3>2. AddressOf(d) \in Address /\ AddressOf(d) # a
      BY <1>1, <3>1, HasAddress, OwnAddress
    <3>3. /\ down'[AddressOf(d)] = down[AddressOf(d)]
          /\ up'[AddressOf(d)] = up[AddressOf(d)]
      BY <1>1, <2>1, <3>2 DEF TypeOK
    <3>4. EchoComesFirst(d)
      BY <3>1 DEF EchoFirst
    <3> QED
      BY <1>2, <2>1, <3>3, <3>4, EchoFrame
  <2>3. NeverRefused'
    <3> SUFFICES ASSUME lost = 0 PROVE phase'[c] # "failed"
      BY <1>2, <2>1 DEF NeverRefused
    <3>1. CASE Connect(c)
      <4>1. EchoComesFirst(c) /\ down[a] # << >>
        BY <3>1 DEF EchoFirst, Connect, TakeIncoming, Incoming
      <4>2. Head(Incoming(c)) = Handshake(c)
        BY <4>1 DEF EchoComesFirst, Incoming
      <4> QED
        BY <1>1, <3>1, <4>2 DEF Connect, TypeOK
    <3>2. CASE ~ Connect(c)
      BY <1>1, <1>4, <3>2 DEF Client, Read, Write, Quit, MeetError,
         ConnectFails, ReadFails, WriteFails, TypeOK
    <3> QED
      BY <3>1, <3>2
  <2> QED
    BY <2>2, <2>3
<1> QED
  BY <1>3, <1>4

LEMMA ServeKeepsEchoFirst ==
  ASSUME Order, EchoFirst, NEW a \in Address, Serve(a),
         NEW c \in Peers, phase[c] = "connecting", lost = 0
  PROVE  EchoComesFirst(c)'
<1> DEFINE b == AddressOf(c)
           d == Head(up[a])
<1>1. TypeOK /\ Started /\ PlacesApart
  BY DEF Order
<1>2. b \in Address /\ b.peer = c /\ b.run = run[c]
  BY <1>1, HasAddress
<1>3. TakeUp(a, d) /\ d \in Datagrams
  BY HelloIsOwn, TakeUpKeeps DEF Serve, ServeData, TakeUp
<1>4. /\ up' = [up EXCEPT ![a] = Tail(up[a])]
      /\ UNCHANGED <<phase, run>>
  BY <1>3, TakeUpKeeps
<1>5. (AddressOf(c))' = b
  BY <1>4 DEF AddressOf
<1>6. /\ down[b] \in Seq(Datagrams) /\ down \in [Address -> Seq(Datagrams)]
      /\ up \in [Address -> Seq(Datagrams)]
  BY <1>1, <1>2 DEF TypeOK
<1>7. PICK to \in Address \cup {Nowhere}, e \in Datagrams : Deliver(to, e)
  <2>1. CASE ServeHandshake(a)
    <3>1. Deliver(a, Handshake(a.peer)) /\ Handshake(a.peer) \in Datagrams
      BY <2>1, HelloIsOwn, DatagramFacts, AddressFacts
    <3> QED
      BY <3>1
  <2>2. CASE ServeData(a)
    <3>1. Deliver(Route(a), d)
      BY <2>2 DEF ServeData
    <3>2. Route(a) \in Address \cup {Nowhere}
      BY <1>1, RouteLeadsAway
    <3> QED
      BY <1>3, <3>1, <3>2
  <2> QED
    BY <2>1, <2>2 DEF Serve
<1>8. CASE down[b] # << >> /\ Head(down[b]) = Handshake(c)
  <2>1. down'[b] = down[b] \/ down'[b] = Append(down[b], e)
    <3>1. \/ down' = down
          \/ to \in Address /\ down' = [down EXCEPT ![to] = Append(down[to], e)]
      BY <1>7, DeliveredTo
    <3> QED
      BY <1>2, <1>6, <3>1
  <2>2. down'[b] # << >> /\ Head(down'[b]) = Handshake(c)
    <3>1. /\ Append(down[b], e) # << >>
          /\ Head(Append(down[b], e)) = Head(down[b])
      BY <1>6, <1>8, AppendKeepsHead
    <3> QED
      BY <1>8, <2>1, <3>1
  <2> QED
    BY <1>5, <2>2 DEF EchoComesFirst
<1>9. CASE /\ down[b] = << >>
           /\ \A x \in ToSet(up[b]) : x = Handshake(c)
           /\ \A s \in 0 .. 1 : peers[s].addr # b
  <2>1. CASE a = b
    <3>1. ServeHandshake(a)
      <4>1. d = Handshake(c)
        BY <1>3, <1>6, <1>9, <2>1, TailOf DEF TakeUp
      <4> QED
        BY <4>1, DatagramFacts DEF Serve, ServeData
    <3>2. Deliver(b, Handshake(c)) /\ Live(b)
      BY <1>2, <2>1, <3>1, HelloIsOwn DEF Live
    <3>3. down'[b] = Append(<< >>, Handshake(c))
      BY <1>2, <1>6, <1>9, <3>2, AddressFacts DEF Deliver
    <3>4. down'[b] # << >> /\ Head(down'[b]) = Handshake(c)
      BY <3>3
    <3> QED
      BY <1>5, <3>4 DEF EchoComesFirst
  <2>2. CASE a # b
    <3>1. up'[b] = up[b]
      BY <1>2, <1>4, <1>6, <2>2
    <3>2. down'[b] = down[b] /\ \A s \in 0 .. 1 : peers'[s].addr # b
      <4>1. CASE ServeHandshake(a)
        <5>1. SetRoute(a.peer, a) /\ Deliver(a, Handshake(a.peer))
          BY <4>1, HelloIsOwn
        <5>2. \A s \in 0 .. 1 : peers'[s].addr \in {peers[s].addr, a}
          BY <1>1, <5>1, SetRouteKeeps
        <5>3. down'[b] = down[b]
          BY <1>2, <1>6, <2>2, <5>1, DeliveredTo
        <5> QED
          BY <1>9, <2>2, <5>2, <5>3
      <4>2. CASE ServeData(a)
        <5>1. Deliver(Route(a), d) /\ peers' = peers
          BY <4>2 DEF ServeData
        <5>2. Route(a) # b /\ (Route(a) \in Address \/ Route(a) = Nowhere)
          BY <1>1, <1>2, <1>9, RouteLeadsAway, AddressFacts
        <5>3. down'[b] = down[b]
          BY <1>2, <1>6, <5>1, <5>2, DeliveredTo
        <5> QED
          BY <1>9, <5>1, <5>3
      <4> QED
        BY <4>1, <4>2 DEF Serve
    <3> QED
      BY <1>5, <1>9, <3>1, <3>2 DEF EchoComesFirst
  <2> QED
    BY <2>1, <2>2
<1> QED
  BY <1>8, <1>9 DEF EchoFirst, EchoComesFirst

LEMMA FaultKeepsEchoFirst ==
  ASSUME Order, EchoFirst, FaultCounts,
         StopRelay \/ StartRelay \/ \E a \in Address : Network(a),
         NEW c \in Peers, phase[c] = "connecting", lost' = 0
  PROVE  EchoComesFirst(c)'
<1> DEFINE b == AddressOf(c)
<1>1. TypeOK /\ Started
  BY DEF Order
<1>2. b \in Address
  BY <1>1, HasAddress
<1>3. /\ down[b] \in Seq(Datagrams) /\ down \in [Address -> Seq(Datagrams)]
      /\ up[b] \in Seq(Datagrams) /\ up \in [Address -> Seq(Datagrams)]
  BY <1>1, <1>2 DEF TypeOK
<1>4. lost = 0 /\ \A a \in Address : ~ LoseUp(a) /\ ~ LoseDown(a)
  BY DEF FaultCounts, StopRelay, StartRelay, Network, LoseUp, LoseDown,
         DuplicateUp, DuplicateDown, Bounce, faultVars
<1>5. EchoComesFirst(c)
  BY <1>4 DEF EchoFirst
<1>6. CASE StopRelay \/ StartRelay
  <2>1. /\ peers' = peers \/ peers' = [s \in 0 .. 1 |-> NoPeer]
        /\ UNCHANGED <<run, up, down>>
    BY <1>6 DEF StopRelay, StartRelay, clientVars
  <2>2. peers' = peers \/ \A s \in 0 .. 1 : peers'[s].addr # b
    BY <1>2, <2>1, AddressFacts DEF NoPeer
  <2> QED
    BY <1>5, <2>1, <2>2 DEF EchoComesFirst, AddressOf, ToSet
<1>7. ASSUME NEW a \in Address, DuplicateUp(a) \/ Bounce(a)
      PROVE  EchoComesFirst(c)'
  <2>1. /\ up[a] # << >>
        /\ \/ up' = [up EXCEPT ![a] = Twice(up[a])]
           \/ up' = [up EXCEPT ![a] = Tail(up[a])]
        /\ UNCHANGED <<run, peers, down>>
    BY <1>7 DEF DuplicateUp, Bounce, clientVars
  <2>2. up[b] # << >> => /\ ToSet(Twice(up[b])) = ToSet(up[b])
                         /\ ToSet(Tail(up[b])) \subseteq ToSet(up[b])
    BY <1>3, TwiceOf, TailOf
  <2>3. ToSet(up'[b]) \subseteq ToSet(up[b])
    BY <1>2, <1>3, <2>1, <2>2
  <2> QED
    BY <1>5, <2>1, <2>3 DEF EchoComesFirst, AddressOf
<1>8. ASSUME NEW a \in Address, DuplicateDown(a)
      PROVE  EchoComesFirst(c)'
  <2>1. /\ down[a] # << >> /\ down' = [down EXCEPT ![a] = Twice(down[a])]
        /\ UNCHANGED <<run, peers, up>>
    BY <1>8 DEF DuplicateDown, clientVars
  <2>2. down[b] # << >> =>
          Twice(down[b]) # << >> /\ Head(Twice(down[b])) = Head(down[b])
    BY <1>3, TwiceOf
  <2>3. \/ down'[b] = down[b]
        \/ down[b] # << >> /\ down'[b] = Twice(down[b])
    BY <1>2, <1>3, <2>1
  <2> QED
    BY <1>5, <2>1, <2>2, <2>3 DEF EchoComesFirst, AddressOf, ToSet
<1> QED
  BY <1>4, <1>6, <1>7, <1>8 DEF Network

EchoInv == Order /\ FaultCounts /\ EchoFirst /\ NeverRefused

LEMMA NextKeepsEcho == EchoInv /\ [Next]_vars => EchoInv'
<1> SUFFICES ASSUME EchoInv, [Next]_vars PROVE EchoInv'
  OBVIOUS
<1>1. Order' /\ FaultCounts'
  BY NextKeepsOrder, FaultsAreCounted DEF EchoInv, FaultCountsStay
<1>2. Order /\ FaultCounts /\ EchoFirst /\ NeverRefused
  BY DEF EchoInv
<1>3. ASSUME NEW c \in Peers, Client(c) PROVE EchoFirst' /\ NeverRefused'
  BY <1>2, <1>3, ClientKeepsEchoFirst
<1>4. ASSUME NEW a \in Address, Serve(a) PROVE EchoFirst' /\ NeverRefused'
  <2>1. phase' = phase /\ lost' = lost
    BY <1>4 DEF Serve, ServeHandshake, ServeData, TakeUp, clientVars, faultVars
  <2> QED
    BY <1>2, <1>4, <2>1, ServeKeepsEchoFirst DEF EchoFirst, NeverRefused
<1>5. ASSUME StopRelay \/ StartRelay \/ \E a \in Address : Network(a)
      PROVE  EchoFirst' /\ NeverRefused'
  <2>1. phase' = phase /\ (lost' = lost \/ lost' = lost + 1)
    BY <1>5 DEF StopRelay, StartRelay, Network, LoseUp, LoseDown, DuplicateUp,
       DuplicateDown, Bounce, clientVars, faultVars
  <2>2. lost' = 0 => lost = 0
    BY <1>2, <2>1 DEF FaultCounts
  <2>3. EchoFirst'
    BY <1>2, <1>5, <2>1, FaultKeepsEchoFirst DEF EchoFirst
  <2> QED
    BY <1>2, <2>1, <2>2, <2>3 DEF NeverRefused
<1>6. ASSUME UNCHANGED vars PROVE EchoFirst' /\ NeverRefused'
  <2>1. UNCHANGED <<phase, run, peers, up, down, lost>>
    BY <1>6 DEF vars, clientVars, faultVars
  <2>2. \A c \in Peers : EchoComesFirst(c) => EchoComesFirst(c)'
    BY <2>1, EchoFrame
  <2> QED
    BY <1>2, <2>1, <2>2 DEF EchoFirst, NeverRefused
<1>7. EchoFirst' /\ NeverRefused'
  BY <1>3, <1>4, <1>5, <1>6 DEF Next
<1> QED
  BY <1>1, <1>7 DEF EchoInv

LEMMA InitEcho == Init => EchoInv
<1> SUFFICES ASSUME Init PROVE EchoInv
  OBVIOUS
<1>1. FaultCounts /\ EchoFirst /\ NeverRefused
  BY DEF Init, FaultCounts, EchoFirst, NeverRefused
<1> QED
  BY <1>1, InitOrder DEF EchoInv

(* If nothing is lost, the echo waits first in the socket of a client that *)
(* connects, or the hello is on its way and nobody can send to that client *)
(* before (client.go:130-148, main.go:149-151).                            *)
THEOREM EchoInvariance == Spec => []EchoInv
BY InitEcho, NextKeepsEcho, PTL DEF Spec

(* Nothing but the echo can come first: unless a datagram is lost,         *)
(* connecting never fails, whatever else happens (client.go:138-148,       *)
(* main.go:149-151).                                                       *)
THEOREM ConnectingNeverFails == Spec => []NeverRefused
BY EchoInvariance, PTL DEF EchoInv

-----------------------------------------------------------------------------
(* There is one echo. *)

AtMostOnce(d, q) == \A i, j \in DOMAIN q : q[i] = d /\ q[j] = d => i = j

(* Of a client that is connecting the one hello is on its way, or its one  *)
(* echo, or neither; a client that is running has read it.                 *)
OneEcho(c) ==
  LET a == AddressOf(c) IN
    /\ phase[c] = "running" =>
         /\ reading[c] \/ icmp[c] # "none"
         /\ Handshake(c) \notin ToSet(up[a])
         /\ Handshake(c) \notin ToSet(down[a])
    /\ phase[c] = "connecting" =>
         /\ reading[c]
         /\ \/ up[a] = <<Handshake(c)>> /\ Handshake(c) \notin ToSet(down[a])
            \/ up[a] = << >> /\ AtMostOnce(Handshake(c), down[a])

EchoIsOnce == duplicates = 0 => \A c \in Peers : OneEcho(c)

LEMMA OnceInTail ==
  ASSUME NEW S, NEW q \in Seq(S), q # << >>, NEW d, AtMostOnce(d, q)
  PROVE  /\ AtMostOnce(d, Tail(q))
         /\ Head(q) = d => d \notin ToSet(Tail(q))
<1>1. /\ Len(q) \in Nat \ {0} /\ DOMAIN q = 1 .. Len(q)
      /\ Head(q) = q[1]
  OBVIOUS
<1>2. ASSUME NEW i \in DOMAIN Tail(q)
      PROVE  /\ Tail(q)[i] = q[i + 1]
             /\ i \in Nat /\ i + 1 \in 1 .. Len(q) /\ i + 1 # 1
  BY <1>1
<1>3. 1 \in 1 .. Len(q)
  BY <1>1
<1>4. ASSUME NEW i \in DOMAIN Tail(q), NEW j \in DOMAIN Tail(q),
             Tail(q)[i] = d, Tail(q)[j] = d
      PROVE  i = j
  <2>1. i + 1 = j + 1
    BY <1>1, <1>2, <1>4 DEF AtMostOnce
  <2> QED
    BY <1>2, <2>1
<1>5. ASSUME Head(q) = d, NEW i \in DOMAIN Tail(q)
      PROVE  Tail(q)[i] # d
  BY <1>1, <1>2, <1>3, <1>5 DEF AtMostOnce
<1> QED
  BY <1>4, <1>5 DEF AtMostOnce, ToSet

LEMMA OnceAppended ==
  ASSUME NEW S, NEW q \in Seq(S), NEW x \in S, NEW d,
         \/ d \notin ToSet(q)
         \/ AtMostOnce(d, q) /\ x # d
  PROVE  AtMostOnce(d, Append(q, x))
<1>1. /\ Len(q) \in Nat /\ DOMAIN q = 1 .. Len(q)
      /\ DOMAIN Append(q, x) = 1 .. Len(q) + 1
      /\ \A i \in 1 .. Len(q) : Append(q, x)[i] = q[i]
      /\ Append(q, x)[Len(q) + 1] = x
  OBVIOUS
<1>2. \A i \in 1 .. Len(q) + 1 : i \in 1 .. Len(q) \/ i = Len(q) + 1
  BY <1>1
<1>3. CASE d \notin ToSet(q)
  <2>1. \A i \in 1 .. Len(q) : q[i] # d
    BY <1>1, <1>3 DEF ToSet
  <2> QED
    BY <1>1, <1>2, <2>1 DEF AtMostOnce
<1>4. CASE AtMostOnce(d, q) /\ x # d
  BY <1>1, <1>2, <1>4 DEF AtMostOnce
<1> QED
  BY <1>3, <1>4

(* A step that leaves alone a client and the queues of its address. *)
LEMMA OneEchoFrame ==
  ASSUME NEW c \in Peers, OneEcho(c), run'[c] = run[c],
         phase'[c] = phase[c], reading'[c] = reading[c],
         icmp[c] # "none" => icmp'[c] # "none",
         down'[AddressOf(c)] = down[AddressOf(c)],
         up'[AddressOf(c)] = up[AddressOf(c)]
  PROVE  OneEcho(c)'
BY DEF OneEcho, AddressOf, AtMostOnce, ToSet

(* Nothing is said of a client without a socket. *)
LEMMA OffOrFailed ==
  ASSUME NEW c \in Peers, phase[c] \notin {"connecting", "running"}
  PROVE  OneEcho(c)
BY DEF OneEcho

(* What a client does touches only its own queues. *)
LEMMA ClientTouchesItsOwn ==
  ASSUME Order, NEW c \in Peers, Client(c), NEW d \in Peers, d # c,
         phase[d] # "off"
  PROVE  /\ run'[d] = run[d] /\ phase'[d] = phase[d]
         /\ reading'[d] = reading[d] /\ icmp'[d] = icmp[d]
         /\ down'[AddressOf(d)] = down[AddressOf(d)]
         /\ up'[AddressOf(d)] = up[AddressOf(d)]
<1>1. TypeOK /\ Started
  BY DEF Order
<1>2. /\ AddressOf(d) \in Address /\ AddressOf(d) # AddressOf(c)
      /\ AddressOf(d) # [peer |-> c, run |-> run[c] + 1]
  BY <1>1, HasAddress, OwnAddress DEF AddressOf
<1>3. /\ run'[d] = run[d] /\ phase'[d] = phase[d] /\ reading'[d] = reading[d]
      /\ icmp'[d] = icmp[d]
  BY <1>1 DEF Client, Start, Connect, Read, TakeIncoming, Write, Quit,
     MeetError, ConnectFails, ReadFails, WriteFails, TakeError, TypeOK
<1>4. /\ \/ up' = up
         \/ \E q : up' = [up EXCEPT ![AddressOf(c)] = q]
         \/ \E q : up' = [up EXCEPT ![[peer |-> c, run |-> run[c] + 1]] = q]
      /\ \/ down' = down
         \/ \E q : down' = [down EXCEPT ![AddressOf(c)] = q]
  BY DEF Client, Start, Connect, Read, TakeIncoming, Write, Quit, MeetError,
         ConnectFails, ReadFails, WriteFails, TakeError
<1> QED
  BY <1>1, <1>2, <1>3, <1>4 DEF TypeOK

LEMMA StartsWithOneHello ==
  ASSUME Order, NEW c \in Peers, Start(c)
  PROVE  /\ OneEcho(c)'
         /\ down'[(AddressOf(c))'] = << >>
         /\ (AddressOf(c))' = [peer |-> c, run |-> run[c] + 1]
<1> DEFINE b == [peer |-> c, run |-> run[c] + 1]
<1>1. TypeOK /\ Unborn
  BY DEF Order
<1>2. b \in Address /\ run[c] < run[c] + 1
  <2>1. run[c] \in Nat /\ run[c] + 1 \in 1 .. MaxRuns
    BY <1>1, RelayBoundsAssumption DEF Start, TypeOK
  <2> QED
    BY <2>1, AddressFacts
<1>3. /\ run' = [run EXCEPT ![c] = run[c] + 1]
      /\ phase' = [phase EXCEPT ![c] = "connecting"]
      /\ reading' = [reading EXCEPT ![c] = TRUE]
      /\ up' = [up EXCEPT ![b] = <<Handshake(c)>>]
      /\ down' = down
  BY DEF Start
<1>4. (AddressOf(c))' = b
  BY <1>1, <1>3 DEF AddressOf, TypeOK
<1>5. down'[b] = << >> /\ up'[b] = <<Handshake(c)>>
  BY <1>1, <1>2, <1>3 DEF Unborn, TypeOK
<1>6. reading'[c] /\ phase'[c] = "connecting"
  BY <1>1, <1>3 DEF TypeOK
<1> QED
  BY <1>4, <1>5, <1>6, ShortOnes DEF OneEcho

(* connect reads the one echo, the reader meets none (client.go:138-171).  *)
LEMMA ClientKeepsOneEcho ==
  ASSUME Order, NEW c \in Peers, Client(c), OneEcho(c)
  PROVE  OneEcho(c)'
<1> DEFINE a == AddressOf(c)
           h == Head(Incoming(c))
<1>1. TypeOK /\ Started /\ DownIsOthers
  BY DEF Order
<1>2. CASE Start(c)
  BY <1>2, StartsWithOneHello
<1>3. CASE Quit(c)
  <2>1. phase'[c] = "off"
    BY <1>1, <1>3 DEF Quit, TypeOK
  <2> QED
    BY <2>1 DEF OneEcho
<1>4. ASSUME phase[c] \in {"connecting", "running"}, TakeIncoming(c)
      PROVE  /\ a \in Address /\ (AddressOf(c))' = a
             /\ up'[a] = up[a] /\ icmp' = icmp
             /\ down[a] \in Seq(Datagrams) /\ down[a] # << >>
             /\ h = Head(down[a])
             /\ down'[a] = Tail(down[a])
             /\ ToSet(Tail(down[a])) \subseteq ToSet(down[a])
             /\ h \in ToSet(down[a])
             /\ h.kind = "handshake" => h = Handshake(c)
  <2>1. a \in Address /\ a.peer = c
    BY <1>1, <1>4, HasAddress
  <2>2. /\ down[a] \in Seq(Datagrams) /\ down[a] # << >>
        /\ down' = [down EXCEPT ![a] = Tail(down[a])]
        /\ run' = run /\ up' = up /\ icmp' = icmp /\ h = Head(down[a])
    BY <1>1, <1>4, <2>1 DEF TakeIncoming, Incoming, TypeOK
  <2>3. /\ ToSet(Tail(down[a])) \subseteq ToSet(down[a])
        /\ h \in ToSet(down[a])
    BY <2>2, TailOf
  <2>4. h.kind = "handshake" => h = Handshake(c)
    BY <1>1, <2>1, <2>3 DEF DownIsOthers
  <2>5. (AddressOf(c))' = a /\ down'[a] = Tail(down[a])
    BY <1>1, <2>1, <2>2 DEF AddressOf, TypeOK
  <2> QED
    BY <2>1, <2>2, <2>3, <2>4, <2>5
<1>5. CASE Connect(c)
  <2>1. phase[c] = "connecting" /\ TakeIncoming(c) /\ reading' = reading
    BY <1>5 DEF Connect
  <2>2. CASE h = Handshake(c)
    <3>1. phase'[c] = "running"
      BY <1>1, <1>5, <2>2 DEF Connect, TypeOK
    <3>2. up[a] = << >> /\ AtMostOnce(Handshake(c), down[a]) /\ reading[c]
      BY <1>4, <2>1, <2>2 DEF OneEcho
    <3>3. Handshake(c) \notin ToSet(Tail(down[a]))
      BY <1>4, <2>1, <2>2, <3>2, OnceInTail
    <3>4. Handshake(c) \notin ToSet(up[a])
      BY <3>2, ShortOnes
    <3> QED
      BY <1>4, <2>1, <3>1, <3>2, <3>3, <3>4 DEF OneEcho
  <2>3. CASE h # Handshake(c)
    <3>1. phase'[c] = "failed"
      BY <1>1, <1>5, <2>3 DEF Connect, TypeOK
    <3> QED
      BY <3>1 DEF OneEcho
  <2> QED
    BY <2>2, <2>3
<1>6. CASE Read(c)
  <2>1. phase[c] = "running" /\ TakeIncoming(c) /\ phase' = phase
    BY <1>6 DEF Read
  <2>2. /\ reading[c] \/ icmp[c] # "none"
        /\ Handshake(c) \notin ToSet(up[a])
        /\ Handshake(c) \notin ToSet(down[a])
    BY <2>1 DEF OneEcho
  <2>3. ~ WrongLength(h)
    BY <1>4, <2>1, <2>2 DEF WrongLength
  <2>4. reading' = reading
    BY <1>6, <2>3 DEF Read
  <2>5. Handshake(c) \notin ToSet(Tail(down[a]))
    BY <1>4, <2>1, <2>2
  <2> QED
    BY <1>4, <2>1, <2>2, <2>4, <2>5 DEF OneEcho
<1>7. CASE Write(c)
  <2> DEFINE d == Datum(a, written[c] + 1)
  <2>1. a \in Address /\ phase[c] = "running"
    BY <1>1, <1>7, HasAddress DEF Write
  <2>2. written[c] + 1 \in 1 .. MaxData
    BY <1>1, <1>7, RelayBoundsAssumption DEF Write, TypeOK
  <2>3. d \in Datagrams /\ d # Handshake(c)
    BY <2>1, <2>2, DatagramFacts
  <2>4. /\ up' = [up EXCEPT ![a] = Append(up[a], d)]
        /\ UNCHANGED <<phase, run, reading, icmp, down>>
    BY <1>7 DEF Write
  <2>5. up[a] \in Seq(Datagrams) /\ up'[a] = Append(up[a], d)
    BY <1>1, <2>1, <2>4 DEF TypeOK
  <2>6. ToSet(up'[a]) = ToSet(up[a]) \cup {d}
    BY <2>3, <2>5, AppendOf
  <2>7. (AddressOf(c))' = a
    BY <2>4 DEF AddressOf
  <2> QED
    BY <2>1, <2>3, <2>4, <2>6, <2>7 DEF OneEcho
<1>8. CASE MeetError(c)
  <2>1. /\ icmp'[c] = "taken" /\ UNCHANGED <<run, up, down>>
        /\ phase'[c] \in {"running", "unreached"}
        /\ phase'[c] = "running" => phase[c] = "running"
    BY <1>1, <1>8 DEF MeetError, ConnectFails, ReadFails, WriteFails, TakeError,
       TypeOK
  <2> QED
    BY <2>1 DEF OneEcho, AddressOf, ToSet
<1> QED
  BY <1>2, <1>3, <1>5, <1>6, <1>7, <1>8 DEF Client

LEMMA ServeKeepsOneEcho ==
  ASSUME Order, NEW x \in Address, Serve(x), NEW c \in Peers, OneEcho(c),
         phase[c] \in {"connecting", "running"}
  PROVE  OneEcho(c)'
<1> DEFINE a == AddressOf(c)
           d == Head(up[x])
<1>1. TypeOK /\ Started /\ PlacesApart
  BY DEF Order
<1>2. a \in Address /\ a.peer = c /\ a.run = run[c]
  BY <1>1, HasAddress
<1>3. TakeUp(x, d) /\ d \in Datagrams /\ up[x] # << >>
  BY HelloIsOwn, TakeUpKeeps DEF Serve, ServeData, TakeUp
<1>4. /\ up' = [up EXCEPT ![x] = Tail(up[x])]
      /\ UNCHANGED <<phase, run, reading, icmp>>
  BY <1>3, TakeUpKeeps
<1>5. (AddressOf(c))' = a
  BY <1>4 DEF AddressOf
<1>6. /\ down \in [Address -> Seq(Datagrams)] /\ down[a] \in Seq(Datagrams)
      /\ up \in [Address -> Seq(Datagrams)] /\ up[x] \in Seq(Datagrams)
  BY <1>1, <1>2 DEF TypeOK
<1>7. /\ ToSet(Tail(up[x])) \subseteq ToSet(up[x]) /\ d \in ToSet(up[x])
  BY <1>3, <1>6, TailOf
<1>8. CASE ServeHandshake(x)
  <2>1. d = Handshake(x.peer) /\ Deliver(x, d)
    BY <1>8, HelloIsOwn DEF TakeUp
  <2>2. CASE x = a
    <3>1. phase[c] = "connecting" /\ up[a] = <<Handshake(c)>>
      BY <1>2, <1>3, <1>7, <2>1, <2>2 DEF OneEcho
    <3>2. reading[c] /\ Handshake(c) \notin ToSet(down[a])
      BY <1>3, <2>2, <3>1, ShortOnes DEF OneEcho
    <3>3. up'[a] = << >>
      BY <1>2, <1>4, <1>6, <2>2, <3>1
    <3>4. down'[a] = Append(down[a], d) \/ down'[a] = down[a]
      BY <1>2, <1>6, <2>1, <2>2, DeliveredTo
    <3>5. AtMostOnce(Handshake(c), Append(down[a], d))
      BY <1>3, <1>6, <3>2, OnceAppended
    <3>6. AtMostOnce(Handshake(c), down[a])
      BY <3>2 DEF AtMostOnce, ToSet
    <3>7. AtMostOnce(Handshake(c), down'[a])
      BY <3>4, <3>5, <3>6
    <3>8. phase'[c] = "connecting" /\ reading'[c]
      BY <1>4, <3>1, <3>2
    <3> QED
      BY <1>5, <3>3, <3>7, <3>8 DEF OneEcho, AtMostOnce
  <2>3. CASE x # a
    <3>1. down'[a] = down[a] /\ up'[a] = up[a]
      BY <1>2, <1>4, <1>6, <2>1, <2>3, DeliveredTo
    <3> QED
      BY <1>4, <3>1, OneEchoFrame
  <2> QED
    BY <2>2, <2>3
<1>9. CASE ServeData(x)
  <2>1. d.kind = "data" /\ Deliver(Route(x), d) /\ d # Handshake(c)
    BY <1>9, DatagramFacts DEF ServeData
  <2>2. Route(x) \in Address \/ Route(x) = Nowhere
    BY <1>1, RouteLeadsAway
  <2>3. \/ down'[a] = down[a] \/ down'[a] = Append(down[a], d)
    <3>1. \/ down' = down
          \/ /\ Route(x) \in Address
             /\ down' = [down EXCEPT ![Route(x)] = Append(down[Route(x)], d)]
      BY <2>1, <2>2, DeliveredTo
    <3> QED
      BY <1>2, <1>6, <3>1
  <2>4. ToSet(Append(down[a], d)) = ToSet(down[a]) \cup {d}
    BY <1>3, <1>6, AppendOf
  <2>5. Handshake(c) \notin ToSet(down[a])
          => Handshake(c) \notin ToSet(down'[a])
    BY <2>1, <2>3, <2>4
  <2>6. AtMostOnce(Handshake(c), down[a])
          => AtMostOnce(Handshake(c), down'[a])
    <3>1. AtMostOnce(Handshake(c), down[a])
            => AtMostOnce(Handshake(c), Append(down[a], d))
      BY <1>3, <1>6, <2>1, OnceAppended
    <3> QED
      BY <2>3, <3>1
  <2>7. up'[a] = up[a] \/ (x = a /\ up'[a] = Tail(up[a]))
    BY <1>2, <1>4, <1>6
  <2>8. CASE phase[c] = "running"
    <3>1. ToSet(up'[a]) \subseteq ToSet(up[a])
      BY <1>7, <2>7
    <3> QED
      BY <1>4, <1>5, <2>5, <2>8, <3>1 DEF OneEcho
  <2>9. CASE phase[c] = "connecting"
    <3>1. x # a
      <4>1. up[a] = <<Handshake(c)>> => Head(up[a]) = Handshake(c)
        OBVIOUS
      <4> QED
        BY <1>3, <2>1, <2>9, <4>1 DEF OneEcho
    <3> QED
      BY <1>4, <1>5, <2>5, <2>6, <2>7, <2>9, <3>1 DEF OneEcho, AtMostOnce
  <2> QED
    BY <2>8, <2>9
<1> QED
  BY <1>8, <1>9 DEF Serve

LEMMA FaultKeepsOneEcho ==
  ASSUME Order, duplicates' = 0, FaultCounts,
         StopRelay \/ StartRelay \/ \E x \in Address : Network(x),
         NEW c \in Peers, OneEcho(c), phase[c] \in {"connecting", "running"}
  PROVE  OneEcho(c)'
<1> DEFINE a == AddressOf(c)
<1>1. TypeOK /\ Started
  BY DEF Order
<1>2. a \in Address
  BY <1>1, HasAddress
<1>3. /\ down[a] \in Seq(Datagrams) /\ down \in [Address -> Seq(Datagrams)]
      /\ up[a] \in Seq(Datagrams) /\ up \in [Address -> Seq(Datagrams)]
  BY <1>1, <1>2 DEF TypeOK
<1>4. /\ UNCHANGED <<phase, run, reading>>
      /\ icmp[c] # "none" => icmp'[c] # "none"
  <2>1. /\ UNCHANGED <<phase, run, reading>>
        /\ \/ icmp' = icmp
           \/ \E p \in Peers : icmp' = [icmp EXCEPT ![p] = "waiting"]
    BY AddressFacts DEF StopRelay, StartRelay, Network, LoseUp, LoseDown,
       DuplicateUp, DuplicateDown, Bounce, clientVars
  <2> QED
    BY <1>1, <2>1 DEF TypeOK
<1>5. (AddressOf(c))' = a
  BY <1>4 DEF AddressOf
<1>6. \A x \in Address : ~ DuplicateUp(x) /\ ~ DuplicateDown(x)
  BY DEF FaultCounts, DuplicateUp, DuplicateDown
<1>7. CASE down' = down /\ up' = up
  BY <1>4, <1>7, OneEchoFrame
<1>8. ASSUME NEW x \in Address, LoseUp(x) \/ Bounce(x)
      PROVE  OneEcho(c)'
  <2>1. /\ up[x] # << >> /\ up' = [up EXCEPT ![x] = Tail(up[x])]
        /\ down' = down
    BY <1>8 DEF LoseUp, Bounce
  <2>2. CASE x # a
    BY <1>2, <1>3, <1>4, <2>1, <2>2, OneEchoFrame
  <2>3. CASE x = a
    <3>1. /\ up'[a] = Tail(up[a]) /\ up[a] # << >>
          /\ ToSet(Tail(up[a])) \subseteq ToSet(up[a])
      BY <1>2, <1>3, <2>1, <2>3, TailOf
    <3>2. CASE phase[c] = "running"
      BY <1>4, <1>5, <2>1, <3>1, <3>2 DEF OneEcho
    <3>3. CASE phase[c] = "connecting"
      <4>1. /\ up[a] = <<Handshake(c)>> /\ reading[c]
            /\ Handshake(c) \notin ToSet(down[a])
        BY <3>1, <3>3 DEF OneEcho
      <4>2. up'[a] = << >>
        BY <3>1, <4>1
      <4>3. AtMostOnce(Handshake(c), down[a])
        BY <4>1 DEF AtMostOnce, ToSet
      <4> QED
        BY <1>4, <1>5, <2>1, <3>3, <4>1, <4>2, <4>3 DEF OneEcho, AtMostOnce
    <3> QED
      BY <3>2, <3>3
  <2> QED
    BY <2>2, <2>3
<1>9. ASSUME NEW x \in Address, LoseDown(x)
      PROVE  OneEcho(c)'
  <2>1. /\ down[x] # << >> /\ down' = [down EXCEPT ![x] = Tail(down[x])]
        /\ up' = up
    BY <1>9 DEF LoseDown
  <2>2. CASE x # a
    BY <1>2, <1>3, <1>4, <2>1, <2>2, OneEchoFrame
  <2>3. CASE x = a
    <3>1. /\ down'[a] = Tail(down[a]) /\ down[a] # << >>
          /\ ToSet(Tail(down[a])) \subseteq ToSet(down[a])
      BY <1>2, <1>3, <2>1, <2>3, TailOf
    <3>2. Handshake(c) \notin ToSet(down[a])
            => Handshake(c) \notin ToSet(down'[a])
      BY <3>1
    <3>3. AtMostOnce(Handshake(c), down[a])
            => AtMostOnce(Handshake(c), down'[a])
      BY <1>3, <3>1, OnceInTail
    <3> QED
      BY <1>4, <1>5, <2>1, <3>2, <3>3 DEF OneEcho, AtMostOnce
  <2> QED
    BY <2>2, <2>3
<1> QED
  BY <1>6, <1>7, <1>8, <1>9 DEF StopRelay, StartRelay, Network

OnceInv == Order /\ FaultCounts /\ EchoIsOnce

LEMMA NextKeepsOnce == OnceInv /\ [Next]_vars => OnceInv'
<1> SUFFICES ASSUME OnceInv, [Next]_vars PROVE OnceInv'
  OBVIOUS
<1>1. Order' /\ FaultCounts'
  BY NextKeepsOrder, FaultsAreCounted DEF OnceInv, FaultCountsStay
<1>2. Order /\ FaultCounts /\ EchoIsOnce
  BY DEF OnceInv
<1>3. ASSUME NEW c \in Peers, Client(c) PROVE EchoIsOnce'
  <2>1. duplicates' = duplicates
    BY <1>3 DEF Client, Start, Connect, Read, TakeIncoming, Write, Quit,
       MeetError, ConnectFails, ReadFails, WriteFails, TakeError, faultVars
  <2>2. ASSUME NEW d \in Peers, OneEcho(d) PROVE OneEcho(d)'
    <3>1. CASE d = c
      BY <1>2, <1>3, <2>2, <3>1, ClientKeepsOneEcho
    <3>2. CASE d # c /\ phase[d] # "off"
      BY <1>2, <1>3, <2>2, <3>2, ClientTouchesItsOwn, OneEchoFrame
    <3>3. CASE d # c /\ phase[d] = "off"
      <4>1. phase'[d] = phase[d]
        BY <1>2, <1>3, <3>3 DEF Order, TypeOK, Client, Start, Connect, Read,
           Write, Quit, MeetError, ConnectFails, ReadFails, WriteFails
      <4> QED
        BY <3>3, <4>1 DEF OneEcho
    <3> QED
      BY <3>1, <3>2, <3>3
  <2> QED
    BY <1>2, <2>1, <2>2 DEF EchoIsOnce
<1>4. ASSUME NEW x \in Address, Serve(x) PROVE EchoIsOnce'
  <2>1. phase' = phase /\ duplicates' = duplicates
    BY <1>4 DEF Serve, ServeHandshake, ServeData, TakeUp, clientVars, faultVars
  <2>2. ASSUME NEW c \in Peers, OneEcho(c) PROVE OneEcho(c)'
    <3>1. CASE phase[c] \in {"connecting", "running"}
      BY <1>2, <1>4, <2>2, <3>1, ServeKeepsOneEcho
    <3>2. CASE phase[c] \notin {"connecting", "running"}
      BY <2>1, <3>2 DEF OneEcho
    <3> QED
      BY <3>1, <3>2
  <2> QED
    BY <1>2, <2>1, <2>2 DEF EchoIsOnce
<1>5. ASSUME StopRelay \/ StartRelay \/ \E x \in Address : Network(x)
      PROVE  EchoIsOnce'
  <2>1. phase' = phase
    BY <1>5 DEF StopRelay, StartRelay, Network, LoseUp, LoseDown, DuplicateUp,
       DuplicateDown, Bounce, clientVars
  <2>2. duplicates' = duplicates \/ duplicates' = duplicates + 1
    BY <1>5 DEF StopRelay, StartRelay, Network, LoseUp, LoseDown, DuplicateUp,
       DuplicateDown, Bounce, faultVars
  <2>3. duplicates' = 0 => duplicates = 0
    BY <1>2, <2>2 DEF FaultCounts
  <2>4. ASSUME NEW c \in Peers, OneEcho(c), duplicates' = 0 PROVE OneEcho(c)'
    <3>1. CASE phase[c] \in {"connecting", "running"}
      BY <1>2, <1>5, <2>4, <3>1, FaultKeepsOneEcho
    <3>2. CASE phase[c] \notin {"connecting", "running"}
      BY <2>1, <3>2 DEF OneEcho
    <3> QED
      BY <3>1, <3>2
  <2> QED
    BY <1>2, <2>3, <2>4 DEF EchoIsOnce
<1>6. ASSUME UNCHANGED vars PROVE EchoIsOnce'
  <2>1. UNCHANGED <<phase, run, reading, icmp, up, down, duplicates>>
    BY <1>6 DEF vars, clientVars, faultVars
  <2> QED
    BY <1>2, <2>1 DEF EchoIsOnce, OneEcho, AddressOf, AtMostOnce, ToSet
<1>7. EchoIsOnce'
  BY <1>3, <1>4, <1>5, <1>6 DEF Next
<1> QED
  BY <1>1, <1>7 DEF OnceInv

LEMMA InitOnce == Init => OnceInv
<1> SUFFICES ASSUME Init PROVE OnceInv
  OBVIOUS
<1>1. FaultCounts /\ EchoIsOnce
  BY DEF Init, FaultCounts, EchoIsOnce, OneEcho
<1> QED
  BY <1>1, InitOrder DEF OnceInv

(* Unless a datagram is doubled, connect reads the echo and the secure     *)
(* reader, which would end at it, never meets one: nothing but word that   *)
(* the relay is down ends the reader of a client that runs, whatever else  *)
(* is lost, late or started again (client.go:138-171).                     *)
THEOREM ReaderNeverMeetsEcho == Spec => []ReaderSurvives
<1>1. OnceInv => ReaderSurvives
  BY DEF OnceInv, EchoIsOnce, OneEcho, ReaderSurvives
<1> QED
  BY <1>1, InitOnce, NextKeepsOnce, PTL DEF Spec

-----------------------------------------------------------------------------
(* The echo means that the route is set. *)

(* The relay has a place for everybody. *)
TwoPeers == \A b, c, d \in Peers : b = c \/ c = d \/ b = d

(* The echo of c's hello is in its socket, or c has read it. *)
Echoed(c) ==
  \/ phase[c] = "running"
  \/ phase[c] = "connecting" /\ Handshake(c) \in ToSet(down[AddressOf(c)])

(* Nothing an earlier run of a client sent is still on its way. *)
OldAreSilent == \A a \in Address : a.run < run[a.peer] => up[a] = << >>

EchoMeansRouted ==
  (stale = 0 /\ restarts = 0) =>
    OldAreSilent /\ \A c \in Peers : Echoed(c) => Routed(c)

(* A step by which nobody is started, echoed or put elsewhere. *)
LEMMA RoutesFrame ==
  ASSUME EchoMeansRouted, UNCHANGED <<run, peers, stale, restarts>>,
         \A c \in Peers : Echoed(c)' => Echoed(c),
         OldAreSilent => OldAreSilent'
  PROVE  EchoMeansRouted'
BY DEF EchoMeansRouted, Routed, AddressOf

LEMMA StartKeepsRoutes ==
  ASSUME Order, FaultCounts, EchoMeansRouted, NEW c \in Peers, Start(c)
  PROVE  EchoMeansRouted'
<1> DEFINE b == [peer |-> c, run |-> run[c] + 1]
<1>1. TypeOK
  BY DEF Order
<1>2. /\ run' = [run EXCEPT ![c] = run[c] + 1]
      /\ up' = [up EXCEPT ![b] = <<Handshake(c)>>]
      /\ peers' = peers /\ down' = down /\ restarts' = restarts
      /\ phase' = [phase EXCEPT ![c] = "connecting"]
      /\ CountStale(c)
  BY DEF Start
<1>3. SUFFICES ASSUME stale' = 0, restarts' = 0
               PROVE  OldAreSilent' /\ \A d \in Peers : Echoed(d)' => Routed(d)'
  BY DEF EchoMeansRouted
<1>4. stale = 0 /\ restarts = 0 /\ Settled(c)
  BY <1>2, <1>3 DEF CountStale, FaultCounts
<1>5. OldAreSilent /\ \A d \in Peers : Echoed(d) => Routed(d)
  BY <1>4 DEF EchoMeansRouted
<1>6. OldAreSilent'
  <2> SUFFICES ASSUME NEW a \in Address, a.run < run'[a.peer]
               PROVE  up'[a] = << >>
    BY DEF OldAreSilent
  <2>1. CASE a.peer = c
    <3>1. a.run < run[c] + 1
      BY <1>1, <1>2, <2>1 DEF TypeOK
    <3>2. run[c] + 1 \in Nat /\ a.run \in Nat
      BY <1>1, AddressFacts DEF TypeOK
    <3>3. a # b
      BY <3>1, <3>2
    <3> QED
      BY <1>1, <1>2, <1>4, <2>1, <3>3 DEF Settled, TypeOK
  <2>2. CASE a.peer # c
    <3>1. a # b /\ run'[a.peer] = run[a.peer]
      BY <1>1, <1>2, <2>2, AddressFacts DEF TypeOK
    <3> QED
      BY <1>1, <1>2, <1>5, <3>1 DEF OldAreSilent, TypeOK
  <2> QED
    BY <2>1, <2>2
<1>7. ASSUME NEW d \in Peers, Echoed(d)' PROVE Routed(d)'
  <2>1. CASE d = c
    <3>1. /\ phase'[c] = "connecting"
          /\ down'[(AddressOf(c))'] = << >>
      BY <1>1, <1>2, StartsWithOneHello DEF TypeOK
    <3> QED
      BY <1>7, <2>1, <3>1, ShortOnes DEF Echoed
  <2>2. CASE d # c
    <3>1. phase'[d] = phase[d] /\ run'[d] = run[d]
      BY <1>1, <1>2, <2>2 DEF TypeOK
    <3>2. (AddressOf(d))' = AddressOf(d)
      BY <3>1 DEF AddressOf
    <3>3. Echoed(d)
      BY <1>2, <1>7, <3>1, <3>2 DEF Echoed, Handshake
    <3> QED
      BY <1>2, <1>5, <3>2, <3>3 DEF Routed
  <2> QED
    BY <2>1, <2>2
<1> QED
  BY <1>6, <1>7

LEMMA ClientKeepsRoutes ==
  ASSUME Order, EchoMeansRouted, NEW c \in Peers,
         Connect(c) \/ Read(c) \/ Write(c) \/ Quit(c) \/ MeetError(c)
  PROVE  EchoMeansRouted'
<1> DEFINE a == AddressOf(c)
<1>1. TypeOK /\ Started
  BY DEF Order
<1>2. phase[c] # "off"
  BY DEF Connect, Read, Write, Quit, MeetError, ConnectFails, ReadFails,
         WriteFails
<1>3. a \in Address /\ a.peer = c /\ a.run = run[c] /\ run[c] \in Nat
  BY <1>1, <1>2, HasAddress DEF TypeOK
<1>4. UNCHANGED <<run, peers, stale, restarts>>
  BY DEF Connect, Read, Write, Quit, TakeIncoming, MeetError, ConnectFails,
         ReadFails, WriteFails, TakeError, faultVars
<1>5. \/ up' = up
      \/ \E q : up' = [up EXCEPT ![a] = q]
  BY DEF Connect, Read, Write, Quit, TakeIncoming, MeetError, ConnectFails,
         ReadFails, WriteFails, TakeError
<1>6. ASSUME OldAreSilent PROVE OldAreSilent'
  BY <1>1, <1>3, <1>4, <1>5, <1>6 DEF OldAreSilent, TypeOK
<1>7. /\ down \in [Address -> Seq(Datagrams)] /\ down[a] \in Seq(Datagrams)
      /\ \/ down' = down
         \/ down[a] # << >> /\ down' = [down EXCEPT ![a] = Tail(down[a])]
         \/ phase'[c] = "off" /\ down' = [down EXCEPT ![a] = << >>]
  BY <1>1, <1>3 DEF Connect, Read, Write, Quit, TakeIncoming, Incoming,
     MeetError, ConnectFails, ReadFails, WriteFails, TakeError, TypeOK
<1>8. \/ phase' = phase
      \/ /\ phase' = [phase EXCEPT ![c] = "running"]
         /\ phase[c] = "connecting" /\ down[a] # << >>
         /\ Head(down[a]) = Handshake(c)
      \/ \E p \in {"off", "failed", "unreached"} :
           phase' = [phase EXCEPT ![c] = p]
  BY DEF Connect, Read, Write, Quit, TakeIncoming, Incoming, MeetError,
         ConnectFails, ReadFails, WriteFails
<1>9. ASSUME NEW d \in Peers, Echoed(d)' PROVE Echoed(d)
  <2>1. (AddressOf(d))' = AddressOf(d) /\ Handshake(d)' = Handshake(d)
    BY <1>4 DEF AddressOf, Handshake
  <2>2. CASE d = c
    <3>1. phase'[c] \notin {"off", "failed", "unreached"}
      BY <1>9, <2>2 DEF Echoed
    <3>2. CASE phase' = phase
      <4>1. ToSet(down'[a]) \subseteq ToSet(down[a])
        BY <1>3, <1>7, <3>1, TailOf
      <4> QED
        BY <1>9, <2>1, <2>2, <3>2, <4>1 DEF Echoed
    <3>3. CASE phase[c] = "connecting" /\ down[a] # << >>
                 /\ Head(down[a]) = Handshake(c)
      BY <1>7, <2>2, <3>3, TailOf DEF Echoed
    <3> QED
      BY <1>1, <1>8, <3>1, <3>2, <3>3 DEF TypeOK
  <2>3. CASE d # c
    <3>1. phase'[d] = phase[d]
      BY <1>1, <1>8, <2>3 DEF TypeOK
    <3>2. AddressOf(d) # a
      BY <2>3, OwnAddress
    <3>3. phase[d] # "off"
      BY <1>9, <3>1 DEF Echoed
    <3>4. AddressOf(d) \in Address
      BY <1>1, <3>3, HasAddress
    <3>5. down'[AddressOf(d)] = down[AddressOf(d)]
      BY <1>7, <3>2, <3>4
    <3> QED
      BY <1>9, <2>1, <3>1, <3>5 DEF Echoed
  <2> QED
    BY <2>2, <2>3
<1> QED
  BY <1>4, <1>6, <1>9, RoutesFrame

(* Of two peers each finds a place, and leaves the other's alone           *)
(* (main.go:86-105).                                                       *)
LEMMA EverybodyHasAPlace ==
  ASSUME TwoPeers, TypeOK, PlacesApart, NEW c \in Peers, NEW a \in Address,
         SetRoute(c, a)
  PROVE  /\ \E s \in 0 .. 1 : peers'[s] = [id |-> c, addr |-> a]
         /\ \A d \in Peers, s \in 0 .. 1 :
              d # c /\ peers[s].id = d => peers'[s] = peers[s]
<1>1. peers \in [0 .. 1 -> [id : Peers, addr : Address] \cup {NoPeer}]
  BY DEF TypeOK
<1>2. PlacesFor(c) # {}
  <2> SUFFICES ASSUME PlacesFor(c) = {} PROVE FALSE
    OBVIOUS
  <2>1. \A s \in 0 .. 1 : peers[s].id # c /\ peers[s] # NoPeer
    BY DEF PlacesFor
  <2>2. peers[0].id \in Peers /\ peers[1].id \in Peers
    BY <1>1, <2>1
  <2>3. peers[0].id # peers[1].id
    BY <2>1 DEF PlacesApart
  <2> QED
    BY <2>1, <2>2, <2>3 DEF TwoPeers
<1>3. PICK s \in 0 .. 1 :
        /\ peers' = [peers EXCEPT ![s] = [id |-> c, addr |-> a]]
        /\ peers[s].id = c \/ peers[s] = NoPeer
  BY <1>2, RouteIsSet
<1>4. peers[s].id \in {c, Nobody}
  BY <1>3 DEF NoPeer
<1>5. ASSUME NEW d \in Peers, NEW r \in 0 .. 1, d # c, peers[r].id = d
      PROVE  peers'[r] = peers[r]
  BY <1>1, <1>3, <1>4, <1>5, PeersAssumption
<1> QED
  BY <1>1, <1>3, <1>5

LEMMA ServeKeepsRoutes ==
  ASSUME TwoPeers, Order, EchoMeansRouted, NEW x \in Address, Serve(x)
  PROVE  EchoMeansRouted'
<1> DEFINE c == x.peer
           d == Head(up[x])
<1>1. TypeOK /\ Started /\ PlacesApart
  BY DEF Order
<1>2. TakeUp(x, d) /\ d \in Datagrams /\ up[x] # << >> /\ ~ run[c] < x.run
  BY HelloIsOwn, TakeUpKeeps DEF Serve, ServeData, TakeUp
<1>3. /\ up' = [up EXCEPT ![x] = Tail(up[x])]
      /\ UNCHANGED <<phase, run, stale, restarts>>
  BY <1>2 DEF TakeUp, clientVars, faultVars
<1>4. up \in [Address -> Seq(Datagrams)] /\ down \in [Address -> Seq(Datagrams)]
  BY <1>1 DEF TypeOK
<1>5. ASSUME OldAreSilent PROVE OldAreSilent' /\ x = AddressOf(c)
  <2>1. ~ x.run < run[c]
    BY <1>2, <1>5 DEF OldAreSilent
  <2>2. x.run \in Nat /\ run[c] \in Nat
    BY <1>1, AddressFacts DEF TypeOK
  <2>3. x.run = run[c]
    BY <1>2, <2>1, <2>2
  <2>4. \A a \in Address : a.run < run[a.peer] => a # x
    BY <2>1
  <2> QED
    BY <1>3, <1>4, <1>5, <2>3, <2>4, AddressFacts DEF OldAreSilent, AddressOf
<1>6. \A e \in Peers : (AddressOf(e))' = AddressOf(e)
  BY <1>3 DEF AddressOf
<1>7. CASE ServeHandshake(x)
  <2> SUFFICES ASSUME stale = 0, restarts = 0, OldAreSilent,
                      \A e \in Peers : Echoed(e) => Routed(e)
               PROVE  EchoMeansRouted'
    BY <1>3 DEF EchoMeansRouted
  <2>1. c \in Peers /\ SetRoute(c, x) /\ Deliver(x, Handshake(c))
    BY <1>7, HelloIsOwn, AddressFacts
  <2>2. x = AddressOf(c)
    BY <1>5
  <2>3. Routed(c)'
    BY <1>1, <1>6, <2>1, <2>2, EverybodyHasAPlace DEF Routed
  <2>4. ASSUME NEW e \in Peers, e # c, Echoed(e)' PROVE Routed(e)'
    <3>1. AddressOf(e) \in Address /\ AddressOf(e) # x
      BY <1>1, <1>3, <2>2, <2>4, HasAddress, OwnAddress DEF Echoed
    <3>2. down'[AddressOf(e)] = down[AddressOf(e)]
      <4>1. \/ down' = down
            \/ down' = [down EXCEPT ![x] = Append(down[x], Handshake(c))]
        BY <2>1, DeliveredTo
      <4> QED
        BY <1>4, <3>1, <4>1
    <3>3. Echoed(e)
      BY <1>3, <1>6, <2>4, <3>2 DEF Echoed, Handshake
    <3>4. PICK s \in 0 .. 1 : peers[s] = [id |-> e, addr |-> AddressOf(e)]
      BY <3>3 DEF Routed
    <3>5. peers'[s] = peers[s]
      <4>1. \A f \in Peers, r \in 0 .. 1 :
              f # c /\ peers[r].id = f => peers'[r] = peers[r]
        BY <1>1, <2>1, EverybodyHasAPlace
      <4>2. peers[s].id = e
        BY <3>4
      <4> QED
        BY <2>4, <4>1, <4>2
    <3> QED
      BY <1>6, <3>4, <3>5 DEF Routed
  <2> QED
    BY <1>5, <2>3, <2>4 DEF EchoMeansRouted
<1>8. CASE ServeData(x)
  <2>1. d.kind = "data" /\ Deliver(Route(x), d) /\ peers' = peers
    BY <1>8 DEF ServeData
  <2>2. \/ down' = down
        \/ /\ Route(x) \in Address
           /\ down' = [down EXCEPT ![Route(x)] = Append(down[Route(x)], d)]
    BY <1>1, <2>1, RouteLeadsAway, DeliveredTo
  <2>3. ASSUME NEW e \in Peers, Echoed(e)' PROVE Echoed(e)
    <3> DEFINE a == AddressOf(e)
    <3>1. a \in Address
      BY <1>1, <1>3, <2>3, HasAddress DEF Echoed
    <3>2. down'[a] = down[a] \/ down'[a] = Append(down[a], d)
      BY <1>4, <2>2, <3>1
    <3>3. ToSet(Append(down[a], d)) = ToSet(down[a]) \cup {d}
      BY <1>2, <1>4, <3>1, AppendOf
    <3>4. d # Handshake(e)
      BY <2>1, DatagramFacts
    <3>5. Handshake(e) \in ToSet(down'[a]) => Handshake(e) \in ToSet(down[a])
      BY <3>2, <3>3, <3>4
    <3> QED
      BY <1>3, <1>6, <2>3, <3>5 DEF Echoed, Handshake
  <2> QED
    BY <1>3, <1>5, <2>1, <2>3, RoutesFrame
<1> QED
  BY <1>7, <1>8 DEF Serve

LEMMA NetworkKeepsRoutes ==
  ASSUME Order, EchoMeansRouted, NEW x \in Address, Network(x)
  PROVE  EchoMeansRouted'
<1>1. TypeOK /\ Started
  BY DEF Order
<1>2. UNCHANGED <<phase, run, peers, stale, restarts>>
  BY DEF Network, LoseUp, LoseDown, DuplicateUp, DuplicateDown, Bounce,
         clientVars, faultVars
<1>3. up \in [Address -> Seq(Datagrams)] /\ down \in [Address -> Seq(Datagrams)]
  BY <1>1 DEF TypeOK
<1>4. \/ up' = up
      \/ up[x] # << >> /\ \E q : up' = [up EXCEPT ![x] = q]
  BY DEF Network, LoseUp, LoseDown, DuplicateUp, DuplicateDown, Bounce
<1>5. ASSUME OldAreSilent PROVE OldAreSilent'
  BY <1>2, <1>3, <1>4, <1>5 DEF OldAreSilent
<1>6. ASSUME NEW a \in Address PROVE ToSet(down'[a]) \subseteq ToSet(down[a])
  <2>1. \/ down' = down
        \/ /\ down[x] # << >>
           /\ \/ down' = [down EXCEPT ![x] = Tail(down[x])]
              \/ down' = [down EXCEPT ![x] = Twice(down[x])]
    BY DEF Network, LoseUp, LoseDown, DuplicateUp, DuplicateDown, Bounce
  <2>2. down[x] # << >> =>
          /\ ToSet(Tail(down[x])) \subseteq ToSet(down[x])
          /\ ToSet(Twice(down[x])) = ToSet(down[x])
    BY <1>3, TailOf, TwiceOf
  <2> QED
    BY <1>3, <2>1, <2>2
<1>7. ASSUME NEW c \in Peers, Echoed(c)' PROVE Echoed(c)
  <2>1. (AddressOf(c))' = AddressOf(c)
    BY <1>2 DEF AddressOf
  <2>2. AddressOf(c) \in Address
    BY <1>1, <1>2, <1>7, HasAddress DEF Echoed
  <2> QED
    BY <1>2, <1>6, <1>7, <2>1, <2>2 DEF Echoed, Handshake
<1> QED
  BY <1>2, <1>5, <1>7, RoutesFrame

RouteInv == Order /\ FaultCounts /\ EchoMeansRouted

LEMMA NextKeepsRoutes == TwoPeers /\ RouteInv /\ [Next]_vars => RouteInv'
<1> SUFFICES ASSUME TwoPeers, RouteInv, [Next]_vars PROVE RouteInv'
  OBVIOUS
<1>1. Order' /\ FaultCounts'
  BY NextKeepsOrder, FaultsAreCounted DEF RouteInv, FaultCountsStay
<1>2. Order /\ FaultCounts /\ EchoMeansRouted
  BY DEF RouteInv
<1>3. ASSUME NEW c \in Peers, Client(c) PROVE EchoMeansRouted'
  BY <1>2, <1>3, StartKeepsRoutes, ClientKeepsRoutes DEF Client
<1>4. ASSUME NEW x \in Address, Serve(x) \/ Network(x) PROVE EchoMeansRouted'
  BY <1>2, <1>4, ServeKeepsRoutes, NetworkKeepsRoutes
<1>5. ASSUME StopRelay \/ StartRelay PROVE EchoMeansRouted'
  <2>1. CASE StopRelay
    BY <1>2, <2>1 DEF StopRelay, FaultCounts, EchoMeansRouted
  <2>2. CASE StartRelay
    <3>1. UNCHANGED <<phase, run, peers, up, down, stale, restarts>>
      BY <2>2 DEF StartRelay, clientVars, faultVars
    <3> QED
      BY <1>2, <3>1 DEF EchoMeansRouted, OldAreSilent, Echoed, Routed,
         AddressOf, ToSet
  <2> QED
    BY <1>5, <2>1, <2>2
<1>6. ASSUME UNCHANGED vars PROVE EchoMeansRouted'
  <2>1. UNCHANGED <<phase, run, peers, up, down, stale, restarts>>
    BY <1>6 DEF vars, clientVars, faultVars
  <2> QED
    BY <1>2, <2>1 DEF EchoMeansRouted, OldAreSilent, Echoed, Routed, AddressOf,
                      ToSet
<1>7. EchoMeansRouted'
  BY <1>3, <1>4, <1>5, <1>6 DEF Next
<1> QED
  BY <1>1, <1>7 DEF RouteInv

LEMMA InitRoutes == Init => RouteInv
<1> SUFFICES ASSUME Init PROVE RouteInv
  OBVIOUS
<1>1. FaultCounts
  BY DEF Init, FaultCounts
<1>2. \A c \in Peers : ~ Echoed(c)
  BY DEF Init, Echoed
<1>3. OldAreSilent
  BY DEF Init, OldAreSilent
<1> QED
  BY <1>1, <1>2, <1>3, InitOrder DEF RouteInv, EchoMeansRouted

(* As long as no more than two peers know the relay, a client that takes   *)
(* itself for connected is one of those packets are passed on to, at its   *)
(* present address, unless the relay was restarted or a client was started *)
(* again too early (client.go:152, main.go:86-105).  With a third peer the *)
(* echo promises nothing: serve answers whether setRoute found a place or  *)
(* not (main.go:146-163).                                                  *)
THEOREM RunningClientsAreRouted ==
  ASSUME TwoPeers
  PROVE  Spec => []RunningIsRouted
<1>1. RouteInv => RunningIsRouted
  BY DEF RouteInv, EchoMeansRouted, Echoed, RunningIsRouted
<1>2. RouteInv /\ [Next]_vars => RouteInv'
  BY TwoPeers, NextKeepsRoutes
<1> QED
  BY <1>1, <1>2, InitRoutes, PTL DEF Spec
================================================================================
