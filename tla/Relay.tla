-------------------------------- MODULE Relay --------------------------------
(***************************************************************************)
(* The relay (src/cmd/server/main.go) and the clients that meet at it      *)
(* (src/src/client.go): a client says hello with its peer id and waits for *)
(* the echo, the relay keeps the address of two peers and passes what      *)
(* comes from one of them on to the other.                                 *)
(*                                                                         *)
(* Datagrams between the relay and one address keep their order, those of  *)
(* different addresses overtake each other at will.  Every run of a client *)
(* has a socket, and so an address, of its own; what it sent may still be  *)
(* on the way when it is gone.  A datagram of the codec is a number; of    *)
(* the secure reader only its test of the length is modelled               *)
(* (src/src/secure/reader.go:55), by which a stray echo ends the reading.  *)
(*                                                                         *)
(* While the relay is down, what is sent to it may be answered by its host *)
(* that nobody listens there; the client's socket, which is connected,     *)
(* hands the error to the next Read or Write.                              *)
(*                                                                         *)
(* Each kind of fault is counted, so that a property can say which of them *)
(* it survives; MaxFaults, like the other Max constants, bounds the model. *)
(***************************************************************************)
EXTENDS Integers, Sequences, FiniteSetsExt

CONSTANTS
  Peers,         \* the peer ids, one for each client
  Nobody,        \* uuid.Nil
  MaxRuns,       \* how often a client is started
  MaxData,       \* how many datagrams a run of a client sends
  MaxFaults      \* how many faults there are, of whatever kind

ASSUME PeersAssumption == Nobody \notin Peers
ASSUME RelayBoundsAssumption ==
  MaxRuns \in Nat /\ MaxData \in Nat /\ MaxFaults \in Nat

VARIABLES
  phase,      \* of each client: "off", "connecting" (client.go:139),
              \* "running", "failed" (line 148) or "unreached" (line 141)
  run,        \* how often it was started
  reading,    \* the first goroutine of routeIn has not returned
  writing,    \* the second goroutine of routeOut has not returned
  icmp,       \* whether this run was told that the relay is down: "none",
              \* "waiting" in the socket, or "taken" from it by some call
  written,    \* how many datagrams this run has sent
  received,   \* the datagrams that reached its decoder (history)
  peers,      \* Server.peers
  serving,    \* the relay is running
  up, down,   \* the datagrams from and to each address
  lost,       \* how many datagrams were lost
  duplicates, \* how many datagrams were duplicated
  stale,      \* how many clients were started again while the network still
              \* carried what their previous run sent
  restarts    \* how often the relay was stopped

clientVars == <<phase, run, reading, writing, icmp, written, received>>
faultVars == <<lost, duplicates, stale, restarts>>
vars == <<clientVars, peers, serving, up, down, faultVars>>

Address == [peer : Peers, run : 1 .. MaxRuns]

Nowhere == [peer |-> Nobody, run |-> 0]

NoPeer == [id |-> Nobody, addr |-> Nowhere]

Handshake(c) == [kind |-> "handshake", peer |-> c, run |-> 0, n |-> 0]

Datum(a, n) == [kind |-> "data", peer |-> a.peer, run |-> a.run, n |-> n]

AddressOf(c) == [peer |-> c, run |-> run[c]]

(* A socket is open at this address. *)
Live(a) == run[a.peer] = a.run /\ phase[a.peer] \in {"connecting", "running"}

Init ==
  /\ phase = [c \in Peers |-> "off"]
  /\ run = [c \in Peers |-> 0]
  /\ reading = [c \in Peers |-> FALSE]
  /\ writing = [c \in Peers |-> FALSE]
  /\ icmp = [c \in Peers |-> "none"]
  /\ written = [c \in Peers |-> 0]
  /\ received = [c \in Peers |-> {}]
  /\ peers = [s \in 0 .. 1 |-> NoPeer]
  /\ serving = TRUE
  /\ up = [a \in Address |-> << >>]
  /\ down = [a \in Address |-> << >>]
  /\ lost = 0 /\ duplicates = 0 /\ stale = 0 /\ restarts = 0

-----------------------------------------------------------------------------
(* The client. *)

FaultsLeft == lost + duplicates + stale + restarts < MaxFaults

(* What an earlier run of c sent has arrived or is lost. *)
Settled(c) == \A a \in Address : a.peer = c => up[a] = << >>

(* A client may be started before that. *)
CountStale(c) ==
  \/ Settled(c) /\ UNCHANGED stale
  \/ ~ Settled(c) /\ FaultsLeft /\ stale' = stale + 1

(* Mutant: the hello is sent twice, to be on the safe side. *)
StartGreetingTwice(c) ==
  /\ phase[c] \in {"off", "failed", "unreached"}
  /\ run[c] < MaxRuns
  /\ run' = [run EXCEPT ![c] = @ + 1]
  /\ phase' = [phase EXCEPT ![c] = "connecting"]
  /\ reading' = [reading EXCEPT ![c] = TRUE]
  /\ writing' = [writing EXCEPT ![c] = TRUE]
  /\ icmp' = [icmp EXCEPT ![c] = "none"]
  /\ written' = [written EXCEPT ![c] = 0]
  /\ received' = [received EXCEPT ![c] = {}]
  /\ up' = [up EXCEPT ![[peer |-> c, run |-> run[c] + 1]] =
                        <<Handshake(c), Handshake(c)>>]
  /\ CountStale(c)
  /\ UNCHANGED <<peers, serving, down, lost, duplicates, restarts>>

(* connect up to line 136. *)
Start(c) ==
  /\ phase[c] \in {"off", "failed", "unreached"}
  /\ run[c] < MaxRuns
  /\ run' = [run EXCEPT ![c] = @ + 1]
  /\ phase' = [phase EXCEPT ![c] = "connecting"]
  /\ reading' = [reading EXCEPT ![c] = TRUE]
  /\ writing' = [writing EXCEPT ![c] = TRUE]
  /\ icmp' = [icmp EXCEPT ![c] = "none"]
  /\ written' = [written EXCEPT ![c] = 0]
  /\ received' = [received EXCEPT ![c] = {}]
  /\ up' = [up EXCEPT ![[peer |-> c, run |-> run[c] + 1]] = <<Handshake(c)>>]
  /\ CountStale(c)
  /\ UNCHANGED <<peers, serving, down, lost, duplicates, restarts>>

(* What waits in the socket of c; asked only of a client that was started. *)
Incoming(c) == down[AddressOf(c)]

TakeIncoming(c) ==
  /\ icmp[c] # "waiting"
  /\ Incoming(c) # << >>
  /\ down' = [down EXCEPT ![AddressOf(c)] = Tail(@)]
  /\ UNCHANGED <<run, writing, icmp, written, peers, serving, up, faultVars>>

(* ECONNREFUSED, returned by one call, before any datagram. *)
TakeError(c) ==
  /\ icmp[c] = "waiting"
  /\ icmp' = [icmp EXCEPT ![c] = "taken"]
  /\ UNCHANGED <<run, written, received, peers, serving, up, down, faultVars>>

(* connect, lines 138-153: what comes first must be the echo. *)
Connect(c) ==
  /\ phase[c] = "connecting"
  /\ TakeIncoming(c)
  /\ phase' = [phase EXCEPT ![c] = IF Head(Incoming(c)) = Handshake(c)
                                     THEN "running" ELSE "failed"]
  /\ UNCHANGED <<reading, received>>

(* connect, lines 139-142. *)
ConnectFails(c) ==
  /\ phase[c] = "connecting"
  /\ TakeError(c)
  /\ phase' = [phase EXCEPT ![c] = "unreached"]
  /\ UNCHANGED <<reading, writing>>

(* The secure reader returns an error (src/src/secure/reader.go:55), where *)
(* a packet that was forged or damaged would only be skipped (line 60).    *)
WrongLength(datagram) == datagram.kind = "handshake"

(* routeIn, lines 166-176. *)
Read(c) ==
  /\ phase[c] = "running" /\ reading[c]
  /\ TakeIncoming(c)
  /\ IF WrongLength(Head(Incoming(c)))
       THEN /\ reading' = [reading EXCEPT ![c] = FALSE]
            /\ UNCHANGED received
       ELSE /\ received' = [received EXCEPT ![c] = @ \cup {Head(Incoming(c))}]
            /\ UNCHANGED reading
  /\ UNCHANGED phase

(* routeIn, lines 168-171. *)
ReadFails(c) ==
  /\ phase[c] = "running" /\ reading[c]
  /\ TakeError(c)
  /\ reading' = [reading EXCEPT ![c] = FALSE]
  /\ UNCHANGED <<phase, writing>>

(* routeOut, lines 243-244. *)
Write(c) ==
  /\ phase[c] = "running" /\ writing[c]
  /\ icmp[c] # "waiting"
  /\ written[c] < MaxData
  /\ written' = [written EXCEPT ![c] = @ + 1]
  /\ up' = [up EXCEPT ![AddressOf(c)] =
                        Append(@, Datum(AddressOf(c), written[c] + 1))]
  /\ UNCHANGED <<phase, run, reading, writing, icmp, received, peers, serving,
                 down, faultVars>>

(* routeOut, lines 244-248: the datagram is not sent. *)
WriteFails(c) ==
  /\ phase[c] = "running" /\ writing[c]
  /\ TakeError(c)
  /\ writing' = [writing EXCEPT ![c] = FALSE]
  /\ UNCHANGED <<phase, reading>>

(* The client is stopped (lines 122-127); what it sent stays on the way. *)
Quit(c) ==
  /\ phase[c] \in {"connecting", "running"}
  /\ phase' = [phase EXCEPT ![c] = "off"]
  /\ down' = [down EXCEPT ![AddressOf(c)] = << >>]
  /\ UNCHANGED <<run, reading, writing, icmp, written, received, peers, serving,
                 up, faultVars>>

-----------------------------------------------------------------------------
(* The relay. *)

(* Mutant: a free place is looked for before the peer's own. *)
PlacesFreeFirst(c) ==
  LET own == {s \in 0 .. 1 : peers[s].id = c}
      free == {s \in 0 .. 1 : peers[s] = NoPeer}
  IN  IF free # {} THEN free ELSE own

(* The places setRoute considers (main.go:86-105): the peer's own before a *)
(* free one.                                                               *)
PlacesFor(c) ==
  LET own == {s \in 0 .. 1 : peers[s].id = c}
      free == {s \in 0 .. 1 : peers[s] = NoPeer}
  IN  IF own # {} THEN own ELSE free

(* Mutant: a peer that is known keeps its address. *)
SetRouteOnce(c, a) ==
  IF PlacesFor(c) = {} \/ \E s \in 0 .. 1 : peers[s].id = c
    THEN UNCHANGED peers
    ELSE peers' = [peers EXCEPT ![Min(PlacesFor(c))] = [id |-> c, addr |-> a]]

SetRoute(c, a) ==
  IF PlacesFor(c) = {}
    THEN UNCHANGED peers
    ELSE peers' = [peers EXCEPT ![Min(PlacesFor(c))] = [id |-> c, addr |-> a]]

(* Where route sends what comes from a (main.go:121-129). *)
Route(a) ==
  IF peers[0].addr = a THEN peers[1].addr
  ELSE IF peers[1].addr = a THEN peers[0].addr
  ELSE Nowhere

(* WriteToUDP; at an address nobody listens to the datagram is lost. *)
Deliver(a, datagram) ==
  down' = IF a # Nowhere /\ Live(a)
            THEN [down EXCEPT ![a] = Append(@, datagram)] ELSE down

TakeUp(a, datagram) ==
  /\ serving
  /\ up[a] # << >>
  /\ datagram = Head(up[a])
  /\ up' = [up EXCEPT ![a] = Tail(@)]
  /\ UNCHANGED <<clientVars, serving, faultVars>>

(* Mutant: only a peer that is new gets an answer. *)
ServeHandshakeOnce(a) ==
  \E c \in Peers :
    /\ TakeUp(a, Handshake(c))
    /\ SetRoute(c, a)
    /\ IF \E s \in 0 .. 1 : peers[s].id = c
         THEN UNCHANGED down ELSE Deliver(a, Handshake(c))

(* serve, lines 146-163: a peer without a place is answered as well. *)
ServeHandshake(a) ==
  \E c \in Peers :
    /\ TakeUp(a, Handshake(c))
    /\ SetRoute(c, a)
    /\ Deliver(a, Handshake(c))

(* serve, lines 165-181. *)
ServeData(a) ==
  /\ up[a] # << >> /\ Head(up[a]).kind = "data"
  /\ TakeUp(a, Head(up[a]))
  /\ Deliver(Route(a), Head(up[a]))
  /\ UNCHANGED peers

(* The relay keeps its peers in memory only (main.go:37-42). *)
StopRelay ==
  /\ serving /\ FaultsLeft
  /\ serving' = FALSE
  /\ restarts' = restarts + 1
  /\ peers' = [s \in 0 .. 1 |-> NoPeer]
  /\ UNCHANGED <<clientVars, up, down, lost, duplicates, stale>>

StartRelay ==
  /\ ~ serving
  /\ serving' = TRUE
  /\ UNCHANGED <<clientVars, peers, up, down, faultVars>>

-----------------------------------------------------------------------------
(* The network. *)

LoseUp(a) ==
  /\ up[a] # << >> /\ FaultsLeft
  /\ up' = [up EXCEPT ![a] = Tail(@)]
  /\ lost' = lost + 1
  /\ UNCHANGED <<clientVars, peers, serving, down, duplicates, stale, restarts>>

LoseDown(a) ==
  /\ down[a] # << >> /\ FaultsLeft
  /\ down' = [down EXCEPT ![a] = Tail(@)]
  /\ lost' = lost + 1
  /\ UNCHANGED <<clientVars, peers, serving, up, duplicates, stale, restarts>>

(* A datagram that finds the relay down is gone, and its sender may be     *)
(* told, if it still has its socket.                                       *)
Bounce(a) ==
  /\ ~ serving
  /\ up[a] # << >>
  /\ up' = [up EXCEPT ![a] = Tail(@)]
  /\ \/ UNCHANGED icmp
     \/ Live(a) /\ icmp' = [icmp EXCEPT ![a.peer] = "waiting"]
  /\ UNCHANGED <<phase, run, reading, writing, written, received, peers,
                 serving, down, faultVars>>

Twice(queue) == <<Head(queue)>> \o queue

DuplicateUp(a) ==
  /\ up[a] # << >> /\ FaultsLeft
  /\ up' = [up EXCEPT ![a] = Twice(@)]
  /\ duplicates' = duplicates + 1
  /\ UNCHANGED <<clientVars, peers, serving, down, lost, stale, restarts>>

DuplicateDown(a) ==
  /\ down[a] # << >> /\ FaultsLeft
  /\ down' = [down EXCEPT ![a] = Twice(@)]
  /\ duplicates' = duplicates + 1
  /\ UNCHANGED <<clientVars, peers, serving, up, lost, stale, restarts>>

-----------------------------------------------------------------------------
MeetError(c) == ConnectFails(c) \/ ReadFails(c) \/ WriteFails(c)

Client(c) ==
  Start(c) \/ Connect(c) \/ Read(c) \/ Write(c) \/ Quit(c) \/ MeetError(c)

Serve(a) == ServeHandshake(a) \/ ServeData(a)

Network(a) ==
  LoseUp(a) \/ LoseDown(a) \/ DuplicateUp(a) \/ DuplicateDown(a) \/ Bounce(a)

Next ==
  \/ \E c \in Peers : Client(c)
  \/ \E a \in Address : Serve(a) \/ Network(a)
  \/ StopRelay \/ StartRelay

Spec == Init /\ [][Next]_vars

(* The network and the relay (main.go:235) go on, unless the relay is      *)
(* down, which may be for ever, and a client reads what has come; it need  *)
(* not write, nor stop.                                                    *)
FairSpec ==
  /\ Spec
  /\ \A a \in Address : WF_vars(Serve(a))
  /\ \A c \in Peers : WF_vars(Connect(c)) /\ WF_vars(Read(c))

-----------------------------------------------------------------------------
Datagrams ==
  {Handshake(c) : c \in Peers}
    \cup {Datum(a, n) : a \in Address, n \in 1 .. MaxData}

TypeOK ==
  /\ phase \in [Peers -> {"off", "connecting", "running", "failed",
                       "unreached"}]
  /\ run \in [Peers -> 0 .. MaxRuns]
  /\ reading \in [Peers -> BOOLEAN]
  /\ writing \in [Peers -> BOOLEAN]
  /\ icmp \in [Peers -> {"none", "waiting", "taken"}]
  /\ written \in [Peers -> 0 .. MaxData]
  /\ received \in [Peers -> SUBSET Datagrams]
  /\ peers \in [0 .. 1 -> [id : Peers, addr : Address] \cup {NoPeer}]
  /\ serving \in BOOLEAN
  /\ up \in [Address -> Seq(Datagrams)]
  /\ down \in [Address -> Seq(Datagrams)]

(* A client never gets its own packets back: the relay holds two different *)
(* peers, whatever is lost, doubled or late and whoever is started again   *)
(* (main.go:86-105, 121-129).                                              *)
NoEcho ==
  \A c \in Peers : \A datagram \in received[c] : datagram.peer # c

Routed(c) == \E s \in 0 .. 1 : peers[s] = [id |-> c, addr |-> AddressOf(c)]

(* A client that takes itself for connected (client.go:152) is one of the  *)
(* two the relay passes packets on to, at the address it has now, unless   *)
(* the relay forgot it or a stale hello replaced its address.              *)
RunningIsRouted ==
  (stale = 0 /\ restarts = 0) =>
    \A c \in Peers : phase[c] = "running" => Routed(c)

(* Nothing but the echo can come first, though the other peer may already  *)
(* be sending when the relay learns of the new address (main.go:149-151):  *)
(* unless the echo is lost, connecting never fails at line 148.            *)
NeverRefused == lost = 0 => \A c \in Peers : phase[c] # "failed"

(* The echo is read by connect and never by the secure reader, which would *)
(* take it for a broken packet and end the goroutine (client.go:167-171):  *)
(* if the network doubles nothing, only word that the relay is down ends   *)
(* the reader of a client that runs.                                       *)
ReaderSurvives ==
  duplicates = 0 =>
    \A c \in Peers : phase[c] = "running" => reading[c] \/ icmp[c] # "none"

(* A client that is started is connected, unless it is stopped first, a    *)
(* datagram is lost or the relay was down (the hello is sent once,         *)
(* client.go:130).                                                         *)
EveryoneConnects ==
  \A c \in Peers :
    phase[c] = "connecting"
      ~> (phase[c] \in {"running", "off"} \/ lost > 0 \/ restarts > 0)

Running(a) == run[a.peer] = a.run /\ phase[a.peer] = "running"

Disturbed == lost + duplicates + stale + restarts > 0

(* The two clients hear each other: what one sends while both are          *)
(* connected reaches the other, unless one of them is stopped or there is  *)
(* a fault.                                                                *)
PeersHearEachOther ==
  \A a, b \in Address, n \in 1 .. MaxData :
    (/\ a.peer # b.peer
     /\ Running(a) /\ Running(b)
     /\ \E i \in 1 .. Len(up[a]) : up[a][i] = Datum(a, n))
      ~> (\/ ~ Running(a) \/ ~ Running(b)
          \/ Datum(a, n) \in received[b.peer]
          \/ Disturbed)
=============================================================================
