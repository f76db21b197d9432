----------------------------- MODULE ClientInbound -----------------------------
(***************************************************************************)
(* The client's way in (src/src/client.go, routeIn) around the decoder:    *)
(* the goroutine that reads packets from the server, the four goroutines   *)
(* of the decoder and the one that sends the chunks to the application, to *)
(* the port it listens on and, once it has written something, back to      *)
(* where that came from.  And their end: the context is cancelled, the     *)
(* sockets are closed (client.go:122-127) and close closes the decoder's   *)
(* channels one by one (decoder.go:361-368).                               *)
(*                                                                         *)
(* A select chooses at random among its ready cases.  Once the context is  *)
(* done its Done case always is, and so is a receive from a closed and     *)
(* empty channel, which yields nil, and a send on a closed channel, which  *)
(* panics and takes the process down.  decode, assembly and dispatch drop  *)
(* a nil (lines 334, 230 and 101): no step of theirs.                      *)
(***************************************************************************)
EXTENDS Decoder

VARIABLES
  cancelled,     \* ctx is done
  socketsClosed, \* the sockets are closed
  closed,        \* how many channels close has closed
  panic,         \* "none", "send" on a closed channel, or "nil" used
  ended,         \* the goroutines that have returned, of Returning
  senderPc,      \* "select" (line 184), "caller" (188) or "listener" (195)
  inHand,        \* buf of the sender: a csn, or 0 for nil or when it is done
  refused,       \* a datagram found nobody on portCaller: the error waits
                 \* in the socket for the next write (ECONNREFUSED)
  addressKnown,  \* acceptedLocalAddr # nil
  toCaller,      \* the chunks written to callerConn (history)
  toListener     \* the chunks written to acceptedLocalAddr (history)

endVars == <<cancelled, socketsClosed, closed, panic, ended>>
senderVars == <<senderPc, inHand, refused, toCaller, toListener>>
inboundVars == <<decoderVars, endVars, senderVars, addressKnown>>

(* The goroutines without a pc of their own in Decoder. *)
Returning == {"reader", "decode", "restore", "sender"}

InboundInit ==
  /\ DecoderInit
  /\ cancelled = FALSE /\ socketsClosed = FALSE
  /\ closed = 0 /\ panic = "none" /\ ended = {}
  /\ senderPc = "select" /\ inHand = 0
  /\ refused = FALSE /\ addressKnown = FALSE
  /\ toCaller = << >> /\ toListener = << >>

Runs(goroutine) == panic = "none" /\ goroutine \notin ended

Alive == panic = "none"

-----------------------------------------------------------------------------
(* close (decoder.go:361-368): the order in which the channels are closed. *)
ArgumentClosed == closed >= 1
AssemblyClosed == closed >= 2
RestoreClosed == closed >= 3
DispatchClosed == closed >= 4
ResultClosed == closed >= 5

Cancel ==
  /\ Alive /\ ~ cancelled
  /\ cancelled' = TRUE
  /\ UNCHANGED <<decoderVars, socketsClosed, closed, panic, ended,
                 senderVars, addressKnown>>

CloseSockets ==
  /\ Alive /\ cancelled /\ ~ socketsClosed
  /\ socketsClosed' = TRUE
  /\ UNCHANGED <<decoderVars, cancelled, closed, panic, ended, senderVars,
                 addressKnown>>

CloseChannel ==
  /\ Alive /\ cancelled /\ closed < 5
  /\ closed' = closed + 1
  /\ UNCHANGED <<decoderVars, cancelled, socketsClosed, panic, ended,
                 senderVars, addressKnown>>

(* The Done case, or for the reader the error of a closed socket. *)
Return(goroutine) ==
  /\ Runs(goroutine) /\ cancelled
  /\ goroutine = "sender" => senderPc = "select"
  /\ ended' = ended \cup {goroutine}
  /\ UNCHANGED <<decoderVars, cancelled, socketsClosed, closed, panic,
                 senderVars, addressKnown>>

ReturnAssembly ==
  /\ Alive /\ cancelled
  /\ Stop
  /\ UNCHANGED <<networkVars, decodeVars, restoring, restartVars,
                 dispatcherVars, endVars, senderVars, addressKnown>>

ReturnDispatch ==
  /\ Alive /\ cancelled
  /\ Dispatcher!Stop
  /\ UNCHANGED <<vars, networkVars, decodeVars, restoring, restartVars,
                 endVars, senderVars, addressKnown>>

(* Lines 176 of client.go and 354, 273, 214, 129-169 of decoder.go. *)
SendsOnClosed ==
  \/ ArgumentClosed /\ "reader" \notin ended
  \/ AssemblyClosed /\ decoded # Nil /\ "decode" \notin ended
  \/ RestoreClosed /\ pc = "push"
  \/ DispatchClosed /\ restoring # 0 /\ "restore" \notin ended
  \/ ResultClosed /\ dispatchPc \notin {"select", "stopped"}

(* restore indexes what it received (decoder.go:192-193). *)
UsesNil ==
  /\ RestoreClosed /\ restored = Len(pushed)
  /\ restoring = 0 /\ "restore" \notin ended

Panic ==
  /\ Alive
  /\ \/ SendsOnClosed /\ panic' = "send"
     \/ UsesNil /\ panic' = "nil"
  /\ UNCHANGED <<decoderVars, cancelled, socketsClosed, closed, ended,
                 senderVars, addressKnown>>

-----------------------------------------------------------------------------
(* The goroutines of the decoder and the client's reader. *)

(* Bounds: nothing is lost or stray here, and nothing is read any more     *)
(* once the context is done.                                               *)
ReadPacket ==
  /\ Runs("reader") /\ ~ cancelled
  /\ Transmit
  /\ UNCHANGED <<endVars, senderVars, addressKnown>>

DecodePacket ==
  /\ Runs("decode")
  /\ Decode \/ (PassOn /\ ~ AssemblyClosed)
  /\ UNCHANGED <<endVars, senderVars, addressKnown>>

AssemblePacket ==
  /\ Alive
  /\ Assemble
  /\ pc = "push" => ~ RestoreClosed
  /\ UNCHANGED <<endVars, senderVars, addressKnown>>

RestoreChunk ==
  /\ Runs("restore")
  /\ TakeLine \/ (SendChunk /\ ~ DispatchClosed)
  /\ UNCHANGED <<endVars, senderVars, addressKnown>>

Order ==
  /\ Alive
  /\ DispatchChunk
  /\ dispatchPc # "select" => ~ ResultClosed
  /\ UNCHANGED <<endVars, senderVars, addressKnown>>

-----------------------------------------------------------------------------
(* The goroutine that sends to the application (client.go:180-203). *)

TakeResult ==
  /\ Runs("sender") /\ senderPc = "select"
  /\ Deliver
  /\ inHand' = delivered[consumed + 1]
  /\ senderPc' = "caller"
  /\ UNCHANGED <<endVars, refused, toCaller, toListener, addressKnown>>

(* The closed resultQueue yields nil, which goes out as an empty datagram. *)
TakeNil ==
  /\ Runs("sender") /\ senderPc = "select"
  /\ ResultClosed /\ consumed = Len(delivered)
  /\ inHand' = 0
  /\ senderPc' = "caller"
  /\ UNCHANGED <<decoderVars, endVars, refused, toCaller, toListener,
                 addressKnown>>

Written(log) == IF inHand = 0 THEN log ELSE Append(log, inHand)

(* Mutant: the chunk is not sent to the port if there is an address. *)
WriteCallerOrListener ==
  /\ Runs("sender") /\ senderPc = "caller"
  /\ ~ refused /\ ~ socketsClosed
  /\ toCaller' = IF addressKnown THEN toCaller ELSE Written(toCaller)
  /\ refused' \in IF cancelled THEN {FALSE} ELSE BOOLEAN
  /\ senderPc' = IF addressKnown THEN "listener" ELSE "select"
  /\ inHand' = IF addressKnown THEN inHand ELSE 0
  /\ UNCHANGED <<decoderVars, endVars, toListener, addressKnown>>

(* Lines 188 and 194; nobody locks acceptedLocalAddrMu.  Bound: once the   *)
(* context is done the application is there.                               *)
WriteCaller ==
  /\ Runs("sender") /\ senderPc = "caller"
  /\ ~ refused /\ ~ socketsClosed
  /\ toCaller' = Written(toCaller)
  /\ refused' \in IF cancelled THEN {FALSE} ELSE BOOLEAN
  /\ senderPc' = IF addressKnown THEN "listener" ELSE "select"
  /\ inHand' = IF addressKnown THEN inHand ELSE 0
  /\ UNCHANGED <<decoderVars, endVars, toListener, addressKnown>>

(* Line 195. *)
WriteListener ==
  /\ Runs("sender") /\ senderPc = "listener"
  /\ ~ socketsClosed
  /\ toListener' = Written(toListener)
  /\ senderPc' = "select"
  /\ inHand' = 0
  /\ UNCHANGED <<decoderVars, endVars, refused, toCaller, addressKnown>>

(* Mutant: the write that failed is tried again. *)
FailWriteAndRetry ==
  /\ Runs("sender")
  /\ \/ senderPc = "caller" /\ (refused \/ socketsClosed)
     \/ senderPc = "listener" /\ socketsClosed
  /\ UNCHANGED inboundVars

(* Lines 189-192 and 196-199: an error ends the goroutine. *)
FailWrite ==
  /\ Runs("sender")
  /\ \/ senderPc = "caller" /\ (refused \/ socketsClosed)
     \/ senderPc = "listener" /\ socketsClosed
  /\ ended' = ended \cup {"sender"}
  /\ UNCHANGED <<decoderVars, cancelled, socketsClosed, closed, panic,
                 senderVars, addressKnown>>

Send == TakeResult \/ TakeNil \/ WriteCaller \/ WriteListener \/ FailWrite

-----------------------------------------------------------------------------
(* routeOut's listener notes where the application wrote from              *)
(* (client.go:226).  Bound: it does not write once the context is done.    *)
Accept ==
  /\ ~ cancelled /\ ~ addressKnown
  /\ addressKnown' = TRUE
  /\ UNCHANGED <<decoderVars, endVars, senderVars>>

-----------------------------------------------------------------------------
End ==
  \/ CloseSockets \/ CloseChannel
  \/ \E goroutine \in Returning : Return(goroutine)
  \/ ReturnAssembly \/ ReturnDispatch

Work == DecodePacket \/ AssemblePacket \/ RestoreChunk \/ Order \/ Send

InboundNext ==
  \/ ReadPacket \/ Work
  \/ Accept
  \/ Cancel \/ End \/ Panic

InboundSpec == InboundInit /\ [][InboundNext]_inboundVars

(* Some goroutine runs on as long as any can (client.go:159, 180; decoder. *)
(* go:385-389), and those that can return or close something do it in the  *)
(* end: less than the scheduler gives each of them.  The network and the   *)
(* application owe nothing and nobody has to panic.                        *)
FairInboundSpec ==
  InboundSpec /\ WF_inboundVars(Work) /\ WF_inboundVars(End)

-----------------------------------------------------------------------------
(* What the encoder sent reaches the application, unless a datagram finds  *)
(* it gone: no goroutine waits for another for ever.  (One refused         *)
(* datagram ends the sender, client.go:188-192, and the client stays deaf  *)
(* even when the application comes back.)                                  *)
ApplicationHears ==
  []<>(sent < PacketsSent \/ refused \/ cancelled
       \/ Len(toCaller) = Blocks * Depth)

(* An application that has written to the client is sent every chunk to    *)
(* where it wrote from, from some chunk on and none left out, though the   *)
(* address is read without a lock after the chunk went to the port         *)
(* (client.go:188-195).                                                    *)
ListenerFollows ==
  Alive /\ senderPc = "select" /\ addressKnown /\ ~ socketsClosed =>
    \E start \in 0 .. Len(toCaller) :
      toListener = SubSeq(toCaller, start + 1, Len(toCaller))

(* A cancelled client ends, wherever that finds its goroutines: all of     *)
(* them return and all channels are closed, unless a panic takes the       *)
(* process down first.                                                     *)
InboundEnds ==
  []<>(cancelled => \/ panic # "none"
                    \/ /\ ended = Returning
                       /\ pc = "stopped" /\ dispatchPc = "stopped"
                       /\ closed = 5)

(* A nil that a closed channel yields is dropped, as the decoder's log     *)
(* lines say of it: "assembly: dropping invalid packet: packet is nil"     *)
(* (decoder.go:231) and "dispatch: dropping invalid chunk: nil chunk"      *)
(* (line 102).                                                             *)
NilIsDropped == panic # "nil"
=============================================================================
