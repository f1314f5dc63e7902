------------------------------ MODULE EthConn ------------------------------
(***************************************************************************)
(* A live eth.Conn (eth/conn.go): the background reader goroutine, the     *)
(* callers that send, wait for messages and wait for a disconnect on it,   *)
(* and the peer at the other end of the socket.                            *)
(*                                                                         *)
(* A frame is its code and its position in what the peer sent; payloads    *)
(* are left out.  One step is one blocking point of the code: a wire read  *)
(* with the dispatch that follows it, a lock, a wire write, one case of a  *)
(* select.  Timers are not numbers: the timer of a wait is armed by the    *)
(* call, fires at any later moment, if ever, and stays fired until the     *)
(* wait looks at it.                                                       *)
(***************************************************************************)
EXTENDS Naturals, Sequences

CONSTANTS Clients,        \* goroutines of the case that use the connection
          Codes,          \* wire codes that are not Disconnect, Ping or Pong
          PeerCodes,      \* the codes the peer may send
          QueueCap,       \* capacity of the msgs channel (256 in the code)
          SendBuf,        \* frames the outgoing socket buffer holds
          MaxFrames,      \* bound: frames the peer sends
          SnapNegotiated  \* snapOffset is not 0

\* "Bad" stands for bytes that are no valid frame (length, MAC, snappy).
BaseCodes == {"Disc", "Ping", "Pong", "Bad"}

ASSUME ConnAssumption ==
  /\ QueueCap \in Nat \ {0}
  /\ SendBuf \in Nat \ {0}
  /\ MaxFrames \in Nat
  /\ SnapNegotiated \in BOOLEAN
  /\ Codes \cap BaseCodes = {}
  /\ PeerCodes \subseteq Codes \cup BaseCodes
  /\ "Reader" \notin Clients
  /\ "Free" \notin Clients

Frame == [code : Codes \cup BaseCodes, id : 1..MaxFrames]
ReadErrors == {"None", "ReadError", "PongError", "QueueFull"}
DiscReasons == {"None", "PeerReason"}
ReaderSteps == {"Read", "LockPong", "WritePong", "FailFast", "Return", "Done"}
Timers == {"Off", "Armed", "Fired"}
ClientOps == {"Idle", "Receive", "WaitDisconnect", "LockSend", "WriteSend"}
Outcomes == {"None", "Message", "Failure", "Timeout", "Cancelled",
             "Disconnected", "StillConnected", "Sent", "SendError"}

VARIABLES
  inbound,     \* frames the peer sent that the reader has not read
  sent,        \* how many frames the peer has sent
  peerEnd,     \* the peer's end of the socket: "Open", "Fin" or "Reset"
  outbound,    \* frames written and not yet read by the peer
  fd,          \* the local socket is open
  ctxDone,     \* c.ctx is cancelled
  reader,      \* where the reader goroutine is
  msgs,        \* the msgs channel
  dead,        \* the dead channel is closed
  discReason,  \* c.discReason ("" is "None")
  readErr,     \* c.readErr (nil is "None")
  writeMu,     \* holder of c.writeMu, or "Free"
  op,          \* op[c]: the call client c is in
  want,        \* want[c]: the codes that end the Receive of client c
  timer,       \* timer[c]: the time.Timer of the wait client c is in
  outcome,     \* how the last call ended, until the next one begins
  log,         \* history: protocol frames read off the wire
  taken,       \* history: frames received from msgs
  pings,       \* history: Pings read off the wire
  pongs        \* history: Pongs written

peerVars   == <<inbound, sent, peerEnd>>
causeVars  == <<discReason, readErr>>
clientVars == <<op, want, timer, outcome>>
history    == <<log, taken, pings, pongs>>
vars == <<inbound, sent, peerEnd, outbound, fd, ctxDone, reader, msgs, dead,
          discReason, readErr, writeMu, op, want, timer, outcome, log, taken,
          pings, pongs>>

\* A Conn as rawDial returns it and DialWithKey hands it to its reader.
Init ==
  /\ inbound = << >>
  /\ sent = 0
  /\ peerEnd = "Open"
  /\ outbound = 0
  /\ fd = TRUE
  /\ ctxDone = FALSE
  /\ reader = "Read"
  /\ msgs = << >>
  /\ dead = FALSE
  /\ discReason = "None"
  /\ readErr = "None"
  /\ writeMu = "Free"
  /\ op = [c \in Clients |-> "Idle"]
  /\ want = [c \in Clients |-> {}]
  /\ timer = [c \in Clients |-> "Off"]
  /\ outcome = "None"
  /\ log = << >>
  /\ taken = << >>
  /\ pings = 0
  /\ pongs = 0
-----------------------------------------------------------------------------
(* The peer and the network.                                               *)

PeerSend(code) ==
  /\ peerEnd = "Open"
  /\ fd
  /\ sent < MaxFrames
  /\ sent' = sent + 1
  /\ inbound' = Append(inbound, [code |-> code, id |-> sent + 1])
  /\ UNCHANGED <<peerEnd, outbound, fd, ctxDone, reader, msgs, dead, causeVars,
                 writeMu, clientVars, history>>

\* The peer, or the network, ends the TCP connection in order or by reset.
PeerClose ==
  /\ peerEnd = "Open"
  /\ peerEnd' \in {"Fin", "Reset"}
  /\ UNCHANGED <<inbound, sent, outbound, fd, ctxDone, reader, msgs, dead,
                 causeVars, writeMu, clientVars, history>>

PeerDrain ==
  /\ peerEnd = "Open"
  /\ outbound > 0
  /\ outbound' = outbound - 1
  /\ UNCHANGED <<peerVars, fd, ctxDone, reader, msgs, dead, causeVars, writeMu,
                 clientVars, history>>

\* The run that owns the connection's context is cancelled.
Cancel ==
  /\ ~ctxDone
  /\ ctxDone' = TRUE
  /\ UNCHANGED <<peerVars, outbound, fd, reader, msgs, dead, causeVars,
                 writeMu, clientVars, history>>
-----------------------------------------------------------------------------
(* The socket, as wire.Read and wire.Write see it.                         *)

\* wire.Read fails: the local end is closed, the peer is gone and its frames
\* are used up, a reset threw them away, or the bytes are no frame.  A closed
\* descriptor may still yield a frame that the RLPx reader had buffered.
ReadFails ==
  \/ ~fd
  \/ peerEnd = "Reset"
  \/ peerEnd = "Fin" /\ inbound = << >>
  \/ inbound # << >> /\ Head(inbound).code = "Bad"

WriteSucceeds == fd /\ peerEnd # "Reset" /\ outbound < SendBuf

\* A peer that closed its end answers a write with a reset sooner or later.
WriteFails == ~fd \/ peerEnd # "Open"

setReadError(err) ==
  readErr' = IF readErr = "None" THEN err ELSE readErr

setDisconnectReason(reason) ==
  discReason' = IF discReason = "None" THEN reason ELSE discReason
-----------------------------------------------------------------------------
(* readMessages, the reader goroutine.                                     *)

\* Mutant: a failed read is retried instead of ending the reader.
ReadFailedRetries ==
  /\ reader = "Read"
  /\ ReadFails
  /\ setReadError("ReadError")
  /\ UNCHANGED <<peerVars, outbound, fd, ctxDone, msgs, dead, discReason,
                 writeMu, clientVars, history, reader>>

ReadFailed ==
  /\ reader = "Read"
  /\ ReadFails
  /\ setReadError("ReadError")
  /\ reader' = "Return"
  /\ UNCHANGED <<peerVars, outbound, fd, ctxDone, msgs, dead, discReason,
                 writeMu, clientVars, history>>

\* The reader has frame f from the wire.
ReadFrame(f) ==
  /\ reader = "Read"
  /\ inbound # << >>
  /\ f = Head(inbound)
  /\ inbound' = Tail(inbound)
  /\ UNCHANGED <<sent, peerEnd, outbound, ctxDone, dead, writeMu, clientVars,
                 taken, pongs>>

\* Mutant: the reader goes on reading after a Disconnect.
ReadDiscContinues(f) ==
  /\ ReadFrame(f)
  /\ f.code = "Disc"
  /\ setDisconnectReason("PeerReason")
  /\ UNCHANGED <<reader, readErr, msgs, fd, log, pings>>

ReadDisc(f) ==
  /\ ReadFrame(f)
  /\ f.code = "Disc"
  /\ setDisconnectReason("PeerReason")
  /\ reader' = "Return"
  /\ UNCHANGED <<readErr, msgs, fd, log, pings>>

ReadPing(f) ==
  /\ ReadFrame(f)
  /\ f.code = "Ping"
  /\ reader' = "LockPong"
  /\ pings' = pings + 1
  /\ UNCHANGED <<causeVars, msgs, fd, log>>

ReadPong(f) ==
  /\ ReadFrame(f)
  /\ f.code = "Pong"
  /\ UNCHANGED <<causeVars, reader, msgs, fd, log, pings>>

\* Mutant: the capacity is not looked at.
queueMessageUnbounded(f) ==
  /\ msgs' = Append(msgs, f)
  /\ UNCHANGED <<readErr, reader>>

\* Mutant: a message that meets a full queue is dropped and reading goes on.
queueMessageDrops(f) ==
  /\ msgs' = IF Len(msgs) < QueueCap THEN Append(msgs, f) ELSE msgs
  /\ UNCHANGED <<readErr, reader>>

\* queueMessage: a send that never blocks; a full queue ends the connection.
queueMessage(f) ==
  \/ /\ Len(msgs) < QueueCap
     /\ msgs' = Append(msgs, f)
     /\ UNCHANGED <<readErr, reader>>
  \/ /\ Len(msgs) >= QueueCap
     /\ setReadError("QueueFull")
     /\ reader' = "FailFast"
     /\ UNCHANGED msgs

ReadProtocol(f) ==
  /\ ReadFrame(f)
  /\ f.code \in Codes
  /\ queueMessage(f)
  /\ log' = Append(log, f)
  /\ UNCHANGED <<discReason, fd, pings>>

\* Mutant: a Pong that finds the lock taken is skipped.
LockPongTry ==
  /\ reader = "LockPong"
  /\ writeMu' = IF writeMu = "Free" THEN "Reader" ELSE writeMu
  /\ reader' = IF writeMu = "Free" THEN "WritePong" ELSE "Read"
  /\ UNCHANGED <<peerVars, outbound, fd, ctxDone, msgs, dead, causeVars,
                 clientVars, history>>

LockPong ==
  /\ reader = "LockPong"
  /\ writeMu = "Free"
  /\ writeMu' = "Reader"
  /\ reader' = "WritePong"
  /\ UNCHANGED <<peerVars, outbound, fd, ctxDone, msgs, dead, causeVars,
                 clientVars, history>>

WritePong ==
  /\ reader = "WritePong"
  /\ WriteSucceeds
  /\ outbound' = outbound + 1
  /\ pongs' = pongs + 1
  /\ writeMu' = "Free"
  /\ reader' = "Read"
  /\ UNCHANGED <<peerVars, fd, ctxDone, msgs, dead, causeVars, clientVars,
                 log, taken, pings>>

WritePongFailed ==
  /\ reader = "WritePong"
  /\ WriteFails
  /\ writeMu' = "Free"
  /\ setReadError("PongError")
  /\ reader' = "FailFast"
  /\ UNCHANGED <<peerVars, outbound, fd, ctxDone, msgs, dead, discReason,
                 clientVars, history>>

\* Mutant: the fail-fast path closes c.dead
\* before it closes the socket.
FailFastEarlyDead ==
  /\ reader = "FailFast"
  /\ dead' = TRUE
  /\ reader' = "Return"
  /\ UNCHANGED <<peerVars, outbound, fd, ctxDone, msgs, causeVars, writeMu,
                 clientVars, history>>

FailFast ==
  /\ reader = "FailFast"
  /\ fd' = FALSE
  /\ reader' = "Return"
  /\ UNCHANGED <<peerVars, outbound, ctxDone, msgs, dead, causeVars, writeMu,
                 clientVars, history>>

\* The deferred close(c.dead).
CloseDead ==
  /\ reader = "Return"
  /\ dead' = TRUE
  /\ reader' = "Done"
  /\ UNCHANGED <<peerVars, outbound, fd, ctxDone, msgs, causeVars, writeMu,
                 clientVars, history>>

readMessages ==
  \/ ReadFailed
  \/ \E f \in Frame : ReadDisc(f) \/ ReadPing(f) \/ ReadPong(f) \/ ReadProtocol(f)
  \/ LockPong \/ WritePong \/ WritePongFailed
  \/ FailFast
  \/ CloseDead
-----------------------------------------------------------------------------
(* The callers.                                                            *)

connVars == <<peerVars, fd, ctxDone, reader, dead, causeVars, log, pings, pongs>>

Waits == {"Receive", "WaitDisconnect"}

\* A wait arms its timer once, before its first select.
Call(c, newOp, codes) ==
  /\ op[c] = "Idle"
  /\ op' = [op EXCEPT ![c] = newOp]
  /\ want' = [want EXCEPT ![c] = codes]
  /\ timer' = [timer EXCEPT ![c] = IF newOp \in Waits THEN "Armed" ELSE "Off"]
  /\ outcome' = "None"
  /\ UNCHANGED <<connVars, outbound, msgs, writeMu, taken>>

\* The deferred timer.Stop goes with the return.
Return(c, result) ==
  /\ op' = [op EXCEPT ![c] = "Idle"]
  /\ want' = [want EXCEPT ![c] = {}]
  /\ timer' = [timer EXCEPT ![c] = "Off"]
  /\ outcome' = result

\* ReadMsg takes any message, WaitForMsg discards all but one code.
ReadMsg(c) == Call(c, "Receive", Codes)
WaitForMsg(c, code) == Call(c, "Receive", {code})
WaitDisconnect(c) == Call(c, "WaitDisconnect", {})
Send(c) == Call(c, "LockSend", {})

SendSnap(c) ==
  \/ SnapNegotiated /\ Call(c, "LockSend", {})
  \/ /\ ~SnapNegotiated
     /\ op[c] = "Idle"
     /\ Return(c, "SendError")
     /\ UNCHANGED <<connVars, outbound, msgs, writeMu, taken>>

\* Mutant: every turn of the loop of WaitForMsg makes a timer of its own.
ReceiveMsgRearms(c) ==
  /\ op[c] = "Receive"
  /\ msgs # << >>
  /\ msgs' = Tail(msgs)
  /\ taken' = Append(taken, Head(msgs))
  /\ \/ Head(msgs).code \in want[c] /\ Return(c, "Message")
     \/ /\ Head(msgs).code \notin want[c]
        /\ timer' = [timer EXCEPT ![c] = "Armed"]
        /\ UNCHANGED <<op, want, outcome>>
  /\ UNCHANGED <<connVars, outbound, writeMu>>

\* case msg := <-c.msgs
ReceiveMsg(c) ==
  /\ op[c] = "Receive"
  /\ msgs # << >>
  /\ msgs' = Tail(msgs)
  /\ taken' = Append(taken, Head(msgs))
  /\ \/ Head(msgs).code \in want[c] /\ Return(c, "Message")
     \/ Head(msgs).code \notin want[c] /\ UNCHANGED clientVars
  /\ UNCHANGED <<connVars, outbound, writeMu>>

\* case <-c.dead
ReceiveDead(c) ==
  /\ op[c] = "Receive"
  /\ dead
  /\ Return(c, "Failure")
  /\ UNCHANGED <<connVars, outbound, msgs, writeMu, taken>>

DisconnectSeen(c) ==
  /\ op[c] = "WaitDisconnect"
  /\ dead
  /\ Return(c, "Disconnected")
  /\ UNCHANGED <<connVars, outbound, msgs, writeMu, taken>>

\* case <-c.ctx.Done()
WaitCancelled(c) ==
  /\ op[c] \in Waits
  /\ ctxDone
  /\ Return(c, IF op[c] = "Receive" THEN "Cancelled" ELSE "StillConnected")
  /\ UNCHANGED <<connVars, outbound, msgs, writeMu, taken>>

\* The runtime: the time of the wait is over, and timer.C holds a value.
TimerFires(c) ==
  /\ timer[c] = "Armed"
  /\ timer' = [timer EXCEPT ![c] = "Fired"]
  /\ UNCHANGED <<connVars, outbound, msgs, writeMu, op, want, outcome, taken>>

\* case <-timer.C
WaitTimeout(c) ==
  /\ op[c] \in Waits
  /\ timer[c] = "Fired"
  /\ Return(c, IF op[c] = "Receive" THEN "Timeout" ELSE "StillConnected")
  /\ UNCHANGED <<connVars, outbound, msgs, writeMu, taken>>

LockSend(c) ==
  /\ op[c] = "LockSend"
  /\ writeMu = "Free"
  /\ writeMu' = c
  /\ op' = [op EXCEPT ![c] = "WriteSend"]
  /\ UNCHANGED <<connVars, outbound, msgs, want, timer, outcome, taken>>

WriteSend(c) ==
  /\ op[c] = "WriteSend"
  /\ WriteSucceeds
  /\ outbound' = outbound + 1
  /\ writeMu' = "Free"
  /\ Return(c, "Sent")
  /\ UNCHANGED <<connVars, msgs, taken>>

WriteSendFailed(c) ==
  /\ op[c] = "WriteSend"
  /\ WriteFails
  /\ writeMu' = "Free"
  /\ Return(c, "SendError")
  /\ UNCHANGED <<connVars, outbound, msgs, taken>>

\* Close may be called at any time by the owner of the connection.
Close ==
  /\ fd
  /\ fd' = FALSE
  /\ UNCHANGED <<peerVars, outbound, ctxDone, reader, msgs, dead, causeVars,
                 writeMu, clientVars, history>>

\* The cases of a select that end the wait.
EndWait(c) ==
  ReceiveDead(c) \/ DisconnectSeen(c) \/ WaitCancelled(c) \/ WaitTimeout(c)

ClientStep(c) ==
  \/ ReceiveMsg(c) \/ EndWait(c)
  \/ LockSend(c) \/ WriteSend(c) \/ WriteSendFailed(c)

ClientCall(c) ==
  \/ ReadMsg(c)
  \/ \E code \in Codes : WaitForMsg(c, code)
  \/ WaitDisconnect(c)
  \/ Send(c)
  \/ SendSnap(c)

Next ==
  \/ \E code \in PeerCodes : PeerSend(code)
  \/ PeerClose
  \/ PeerDrain
  \/ Cancel
  \/ readMessages
  \/ \E c \in Clients : ClientCall(c) \/ ClientStep(c) \/ TimerFires(c)
  \/ Close

Spec == Init /\ [][Next]_vars

(***************************************************************************)
(* The Go scheduler runs every goroutine that can run, and sync.Mutex is   *)
(* handed to the longest waiter once it starves.  A select chooses at      *)
(* random among the cases that are ready, so that one which stays ready is *)
(* taken in the end although messages keep coming.  Nothing is assumed of  *)
(* the peer, of Close, of timers firing, or of calls being made.           *)
(***************************************************************************)
Fairness ==
  /\ WF_vars(readMessages)
  /\ SF_vars(LockPong)
  /\ \A c \in Clients :
       /\ WF_vars(ReceiveMsg(c))
       /\ WF_vars(EndWait(c))
       /\ SF_vars(LockSend(c))
       /\ WF_vars(WriteSend(c) \/ WriteSendFailed(c))

FairSpec == Spec /\ Fairness
-----------------------------------------------------------------------------
(* Properties.                                                             *)

\* Every variable of the connection, its callers and the history has its type;
\* the msgs channel never exceeds its capacity (eth/conn.go: Conn).
TypeOK ==
  /\ inbound \in Seq(Frame)
  /\ sent \in 0..MaxFrames
  /\ peerEnd \in {"Open", "Fin", "Reset"}
  /\ outbound \in 0..SendBuf
  /\ fd \in BOOLEAN
  /\ ctxDone \in BOOLEAN
  /\ reader \in ReaderSteps
  /\ msgs \in Seq(Frame) /\ Len(msgs) <= QueueCap
  /\ dead \in BOOLEAN
  /\ discReason \in DiscReasons
  /\ readErr \in ReadErrors
  /\ writeMu \in Clients \cup {"Free", "Reader"}
  /\ op \in [Clients -> ClientOps]
  /\ want \in [Clients -> SUBSET Codes]
  /\ timer \in [Clients -> Timers]
  /\ outcome \in Outcomes
  /\ log \in Seq(Frame)
  /\ taken \in Seq(Frame)
  /\ pings \in Nat
  /\ pongs \in Nat

\* What readFailure returns: the read error if there is one, else the reason
\* of the peer's Disconnect.
readFailure == IF readErr # "None" THEN readErr ELSE discReason

\* A caller that finds c.dead closed always finds the cause of it as well:
\* setReadError or setDisconnectReason happened before close(c.dead), on every
\* path out of readMessages.
CauseKnown == dead => readFailure # "None"

\* The strengthening of CauseKnown that is inductive: the reader runs without
\* a cause, leaves its loop with one, and only its last step closes c.dead.
ReaderCause ==
  /\ reader \in {"Read", "LockPong", "WritePong"} =>
       readErr = "None" /\ discReason = "None"
  /\ reader \in {"FailFast", "Return", "Done"} => readFailure # "None"
  /\ dead <=> reader = "Done"

\* Every protocol frame read off the wire is received by a caller or waits in
\* msgs, in the order the peer sent them; the one exception is the frame that
\* met a full queue, and then the connection fails with errReceiveQueueFull.
NoSilentLoss ==
  \/ log = taken \o msgs
  \/ /\ readErr = "QueueFull"
     /\ \E f \in Frame : log = Append(taken \o msgs, f)

\* The reader reads no further frame before it has answered every Ping it
\* read, and never writes a Pong nobody asked for.
PongBeforeNextRead ==
  /\ reader = "Read" => pings = pongs
  /\ reader \in {"LockPong", "WritePong"} => pings = pongs + 1
  /\ pings \in {pongs, pongs + 1}

\* At most one goroutine is inside wire.Write of this connection, the one that
\* holds writeMu (frames carry a running cipher and MAC state).
OneWriter ==
  /\ reader = "WritePong" <=> writeMu = "Reader"
  /\ \A c \in Clients : op[c] = "WriteSend" <=> writeMu = c

\* The connection is the bounded FIFO with one final cause of MessageFeed.
Feed == INSTANCE MessageFeed WITH
          Message <- Frame, Capacity <- QueueCap, NoCause <- "None",
          queue <- msgs, cause <- readFailure, ended <- dead

ImplementsFeed == Feed!FeedSpec

\* After Close (by the owner or by the reader's own fail-fast) and when the
\* peer's end of the socket goes away, the reader ends and closes c.dead, even
\* from a blocked Pong or behind a blocked sender; and after Close no caller
\* stays inside a call: waits return without their timers, and blocked sends
\* return as well.
EndReleasesAll ==
  /\ (~fd \/ peerEnd # "Open") ~> dead
  /\ \A c \in Clients : (~fd /\ op[c] # "Idle") ~> op[c] = "Idle"

\* ReadMsg, WaitForMsg and WaitDisconnect return once their time is over or the
\* run is cancelled, whatever the peer, the reader and other callers do: a
\* message that WaitForMsg discards (eth/conn.go:417-423) must not give it a
\* new timer.
WaitsReturn ==
  \A c \in Clients :
    (op[c] \in Waits /\ (timer[c] = "Fired" \/ ctxDone)) ~> op[c] = "Idle"

\* As long as the peer reads what it is sent, a Ping is answered or the
\* connection ends, however many callers compete for writeMu.
PingAnswered ==
  WF_vars(PeerDrain) => (pings > pongs ~> (pings = pongs \/ dead))

\* "WaitDisconnect ... Returns true if the peer disconnected"
\* (eth/conn.go:436): true only after a Disconnect or the end of the peer's
\* socket, or after the caller's own side closed the connection.
DisconnectIsThePeers ==
  outcome = "Disconnected" =>
    \/ discReason # "None"
    \/ peerEnd # "Open"
    \/ readErr # "QueueFull"

\* "WaitForMsg reads messages until one with the expected wire code arrives"
\* (eth/conn.go:412): it does not report a failure while the message it waits
\* for is already in msgs.
WaitedMessageIsReturned ==
  [][\A c \in Clients :
       (op[c] = "Receive" /\ op'[c] = "Idle" /\ outcome' = "Failure")
         => \A i \in DOMAIN msgs : msgs[i].code \notin want[c]]_vars
=============================================================================
