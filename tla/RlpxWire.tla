----------------------------- MODULE RlpxWire -----------------------------
(***************************************************************************)
(* A bare RLPx connection (rlpx/conn.go) and the waits that cases run on   *)
(* it: rlpx.WaitClose, eth.WaitStatus, eth.WaitClose, the low-level        *)
(* WaitForRequestID and wit.ReadRaw.  One goroutine waits, answering Pings *)
(* where its wait does, while another writes frames of its own.            *)
(*                                                                         *)
(* A frame crosses the socket in two parts, so that a deadline may end a   *)
(* read and an error may end a write inside it.  Outgoing frames carry the *)
(* position of the cipher and MAC state they were sealed with; the peer    *)
(* decodes exactly the frames that arrive whole and in that order.         *)
(* Payloads are left out.  The frame reader is go-ethereum's: a read that  *)
(* fails inside a frame loses what it had taken, and one that meets a      *)
(* frame it cannot authenticate loses the state of its MAC.                *)
(***************************************************************************)
EXTENDS Naturals, Sequences

CONSTANTS MaxSends,  \* bound: frames the sender writes
          MaxPings,  \* bound: Pings the peer sends
          SendBuf    \* parts of frames the outgoing socket buffer holds

ASSUME RlpxWireAssumption ==
  MaxSends \in Nat /\ MaxPings \in Nat /\ SendBuf \in Nat \ {0}

Waits == {"RlpxClose", "EthClose", "Status", "Request", "Wit"}

\* The codes a wait tells apart: "Wanted" is Status, the request code or a code
\* in wit's window, and "Broken" a request whose id does not decode.  Two kinds
\* of frames make the read itself fail: "Corrupt" ones have a wrong MAC, and
\* "Undecodable" ones a right one, but no code, bad snappy data or too much of it.
Malformed == {"Corrupt", "Undecodable"}
Codes == {"Disc", "Ping", "Pong", "Wanted", "Broken", "Unrelated"} \cup Malformed
Part == [code : Codes, half : 1..2]
Writers == {"Waiter", "Sender"}

VARIABLES
  dial,      \* DialWithKey: "Auth", "Ack", "Clear", then "Ready" or "Failed"
  fd,        \* the socket is open on our side
  peerOpen,  \* ... and on the peer's
  inbound,   \* parts of frames the peer sent that are not yet read
  partial,   \* the frame of which the peer has sent half, or "None"
  pings,     \* Pings the peer has sent
  readBy,    \* the read deadline: "None", "Armed" or "Past"
  reading,   \* the frame half read, or "None"
  lostSync,  \* a read ended inside a frame or met a wrong MAC
  op,        \* the wait under way, or "None"
  step,      \* where the waiting goroutine is
  verdict,   \* what the last wait reported
  mu,        \* Conn.mu
  egress,    \* frames sealed: the state of the writer's cipher and MAC
  sends,     \* frames the sender has begun
  writing,   \* writing[w]: the frame w is writing and the half to come, or 0
  outbound,  \* parts written to the socket
  drained,   \* ... of which the peer has taken that many
  failed     \* a write to the socket has failed

peerVars == <<peerOpen, inbound, partial, pings, drained>>
readVars == <<readBy, reading, lostSync>>
waitVars == <<op, step, verdict>>
writeVars == <<mu, egress, sends, writing, outbound, failed>>
vars == <<dial, fd, peerVars, readVars, waitVars, writeVars>>

NotWriting == [seq |-> 0, half |-> 0]

\* The TCP connection is there and the handshake's deadline is armed.
Init ==
  /\ dial = "Auth"
  /\ fd = TRUE
  /\ peerOpen = TRUE
  /\ inbound = << >> /\ partial = "None" /\ pings = 0 /\ drained = 0
  /\ readBy = "Armed" /\ reading = "None" /\ lostSync = FALSE
  /\ op = "None" /\ step = "Idle" /\ verdict = "None"
  /\ mu = "Free" /\ egress = 0 /\ sends = 0 /\ outbound = << >> /\ failed = FALSE
  /\ writing = [w \in Writers |-> NotWriting]
-----------------------------------------------------------------------------
(* The initiator's handshake.                                              *)

\* The sealed auth packet is written whole.
WriteAuth ==
  /\ dial = "Auth" /\ peerOpen /\ readBy = "Armed"
  /\ dial' = "Ack"
  /\ UNCHANGED <<fd, peerVars, readVars, waitVars, writeVars>>

\* The answer decrypts and decodes, both sides have the secrets, and newConn
\* starts the cipher and MAC state of the connection.
ReadAck ==
  /\ dial = "Ack" /\ readBy = "Armed"
  /\ dial' = "Clear"
  /\ UNCHANGED <<fd, peerVars, readVars, waitVars, writeVars>>

\* A packet that cannot be written, read, opened or decoded, the peer's end or
\* the deadline: dial closes the socket.
HandshakeFails ==
  /\ dial \in {"Auth", "Ack"}
  /\ dial' = "Failed"
  /\ fd' = FALSE
  /\ UNCHANGED <<peerVars, readVars, waitVars, writeVars>>

\* clearDeadline.
ClearDeadline ==
  /\ dial = "Clear"
  /\ dial' = "Ready"
  /\ readBy' = "None"
  /\ UNCHANGED <<fd, peerVars, reading, lostSync, waitVars, writeVars>>

Handshake == WriteAuth \/ ReadAck \/ HandshakeFails \/ ClearDeadline
-----------------------------------------------------------------------------
(* The peer.                                                               *)

\* The first part of a frame, then the second; at most one frame is under way.
PeerSends(code) ==
  /\ peerOpen /\ inbound = << >> /\ partial = "None"
  /\ code = "Ping" => pings < MaxPings
  /\ inbound' = << [code |-> code, half |-> 1] >>
  /\ partial' = code
  /\ pings' = IF code = "Ping" THEN pings + 1 ELSE pings
  /\ UNCHANGED <<fd, peerOpen, drained, readVars, waitVars, writeVars>>

PeerCompletes ==
  /\ peerOpen /\ partial # "None"
  /\ inbound' = Append(inbound, [code |-> partial, half |-> 2])
  /\ partial' = "None"
  /\ UNCHANGED <<fd, peerOpen, pings, drained, readVars, waitVars, writeVars>>

PeerCloses ==
  /\ peerOpen
  /\ peerOpen' = FALSE
  /\ UNCHANGED <<fd, inbound, partial, pings, drained, readVars, waitVars, writeVars>>

PeerDrains ==
  /\ peerOpen /\ drained < Len(outbound)
  /\ drained' = drained + 1
  /\ UNCHANGED <<fd, peerOpen, inbound, partial, pings, readVars, waitVars, writeVars>>

DeadlinePasses ==
  /\ readBy = "Armed"
  /\ readBy' = "Past"
  /\ UNCHANGED <<fd, peerVars, reading, lostSync, waitVars, writeVars>>

Close ==
  /\ fd
  /\ fd' = FALSE
  /\ UNCHANGED <<peerVars, readVars, waitVars, writeVars>>
-----------------------------------------------------------------------------
(* frameWriter.write, under Conn.mu.                                       *)

\* Write and WriteRawFrame seal the frame as soon as they hold the lock.
Seal(w) ==
  /\ mu = "Free"
  /\ mu' = w
  /\ egress' = egress + 1
  /\ writing' = [writing EXCEPT ![w] = [seq |-> egress + 1, half |-> 1]]

\* Mutant: the cipher moves before the size of the frame is looked at.
RefuseSealed(w) ==
  /\ mu = "Free"
  /\ egress' = egress + 1
  /\ UNCHANGED <<mu, writing, outbound, failed>>

\* A header or a payload that is too large is refused with nothing sealed.
Refuse(w) ==
  /\ mu = "Free"
  /\ UNCHANGED <<mu, egress, writing, outbound, failed>>

\* Mutant: the loop does not see that the frame is written.
WritePartOver(w) ==
  /\ writing[w].half \in 1..2
  /\ fd /\ Len(outbound) - drained < SendBuf
  /\ outbound' = Append(outbound, writing[w])
  /\ writing' = [writing EXCEPT ![w].half = @ + 1]
  /\ UNCHANGED <<mu, egress, failed>>

\* One dst.Write of the loop; the second one returns the lock.
WritePart(w) ==
  /\ writing[w].half \in 1..2
  /\ fd /\ Len(outbound) - drained < SendBuf
  /\ outbound' = Append(outbound, writing[w])
  /\ writing' = [writing EXCEPT ![w] = IF @.half = 1 THEN [@ EXCEPT !.half = 2] ELSE NotWriting]
  /\ mu' = IF writing[w].half = 2 THEN "Free" ELSE mu
  /\ UNCHANGED <<egress, failed>>

wrote(w) == writing[w].half = 2

\* A write fails when the socket is closed on either side.
WriteFails(w) ==
  /\ writing[w].half \in 1..2
  /\ ~fd \/ ~peerOpen
  /\ failed' = TRUE
  /\ writing' = [writing EXCEPT ![w] = NotWriting]
  /\ mu' = "Free"
  /\ UNCHANGED <<egress, outbound>>

SenderBegins ==
  /\ writing["Sender"] = NotWriting /\ sends < MaxSends
  /\ sends' = sends + 1
  /\ Seal("Sender")
  /\ UNCHANGED <<outbound, failed, fd, peerVars, readVars, waitVars>>

SenderRefused ==
  /\ writing["Sender"] = NotWriting /\ sends < MaxSends
  /\ sends' = sends + 1
  /\ Refuse("Sender")
  /\ UNCHANGED <<fd, peerVars, readVars, waitVars>>

SenderStep ==
  /\ WritePart("Sender") \/ WriteFails("Sender")
  /\ UNCHANGED <<sends, fd, peerVars, readVars, waitVars>>
-----------------------------------------------------------------------------
(* The waits.  Each arms the read deadline once, reads frames until one of *)
(* them or an error decides, and takes the deadline away when it returns.  *)

BeginWait(w) ==
  /\ op = "None"
  /\ \/ fd /\ op' = w /\ step' = "Read" /\ verdict' = "None" /\ readBy' = "Armed"
     \/ ~fd /\ verdict' = (IF w \in {"RlpxClose", "EthClose"} THEN "Open" ELSE "Error")
        /\ UNCHANGED <<op, step, readBy>>
  /\ UNCHANGED <<fd, peerVars, reading, lostSync, writeVars>>

Report(v) ==
  /\ op' = "None" /\ step' = "Idle" /\ verdict' = v
  /\ readBy' = "None"

\* The first part of a frame: the header, which carries its own MAC.  A read
\* that begins after the deadline fails.
ReadHeader ==
  /\ step = "Read" /\ reading = "None" /\ fd /\ ~lostSync /\ readBy # "Past"
  /\ inbound # << >> /\ Head(inbound).half = 1
  /\ reading' = Head(inbound).code
  /\ inbound' = Tail(inbound)
  /\ UNCHANGED <<fd, peerOpen, partial, pings, drained, readBy, lostSync, waitVars,
                 writeVars>>

\* Mutant: a read that times out counts as the end of the connection.
closesOnTimeout(err) == op \in {"RlpxClose", "EthClose"}

\* isTimeoutError: the deadline is no verdict on the connection.
closedBy(err) == op \in {"RlpxClose", "EthClose"} /\ err # "Timeout"

ReadErrors == {"Timeout", "Closed", "BadMAC", "Malformed"}

\* The read fails: the deadline, our own or the peer's end of the socket, a
\* frame that cannot be authenticated because an earlier read was cut short, or
\* a malformed frame.  The bytes of a frame half read are gone.
ReadFails(err) ==
  /\ step = "Read"
  /\ CASE err = "Timeout"   -> readBy = "Past" /\ fd
       [] err = "Closed"    -> ~fd \/ (~peerOpen /\ inbound = << >>)
       [] err = "BadMAC"    -> fd /\ lostSync /\ inbound # << >>
       [] err = "Malformed" -> fd /\ reading \in Malformed /\ inbound # << >>
  /\ inbound' = CASE err = "BadMAC" -> << >>
                  [] err = "Malformed" -> Tail(inbound)
                  [] OTHER -> inbound
  /\ lostSync' = (lostSync \/ (reading # "None" /\ err # "Malformed") \/ reading = "Corrupt")
  /\ reading' = "None"
  /\ Report(IF closedBy(err) THEN "Closed"
            ELSE IF op \in {"RlpxClose", "EthClose"} THEN "Open" ELSE "Error")
  /\ UNCHANGED <<fd, peerOpen, partial, pings, drained, writeVars>>

\* Mutant: the deadline is armed again for every frame that is skipped.
SkipRearmed == readBy' = "Armed" /\ UNCHANGED waitVars

\* The loop goes on to the next frame under the same deadline.
Skip == UNCHANGED <<readBy, waitVars>>

\* The second part completes a frame and the wait dispatches on its code; it may
\* have come with the first and be in the reader's buffer.
ReadFrame ==
  /\ step = "Read" /\ reading # "None" /\ fd
  /\ inbound # << >>
  /\ inbound' = Tail(inbound)
  /\ reading' = "None"
  /\ \/ /\ reading = "Disc"
        /\ Report(IF op \in {"RlpxClose", "EthClose"} THEN "Closed" ELSE "Error")
     \/ /\ reading = "Ping" /\ op # "RlpxClose"
        /\ step' = "LockPong" /\ UNCHANGED <<op, verdict, readBy>>
     \/ reading = "Wanted" /\ op \in {"Status", "Request", "Wit"} /\ Report("Got")
     \/ reading = "Broken" /\ op = "Request" /\ Report("Error")
     \/ /\ \/ reading \in {"Pong", "Unrelated"}
           \/ reading = "Ping" /\ op = "RlpxClose"
           \/ reading = "Wanted" /\ op \in {"RlpxClose", "EthClose"}
           \/ reading = "Broken" /\ op # "Request"
        /\ Skip
  /\ UNCHANGED <<fd, peerOpen, partial, pings, drained, lostSync, writeVars>>

\* The Pong is written under no deadline.
LockPong ==
  /\ step = "LockPong"
  /\ Seal("Waiter")
  /\ step' = "WritePong"
  /\ UNCHANGED <<fd, peerVars, readVars, op, verdict, sends, outbound, failed>>

WritePong ==
  /\ step = "WritePong"
  /\ WritePart("Waiter")
  /\ step' = IF wrote("Waiter") THEN "Read" ELSE step
  /\ UNCHANGED <<fd, peerVars, readVars, op, verdict, sends>>

PongFails ==
  /\ step = "WritePong"
  /\ WriteFails("Waiter")
  /\ Report(IF op = "EthClose" THEN "Closed" ELSE "Error")
  /\ UNCHANGED <<fd, peerVars, reading, lostSync, sends>>

WaitStep ==
  \/ ReadHeader
  \/ \E err \in ReadErrors : ReadFails(err)
  \/ ReadFrame \/ LockPong \/ WritePong \/ PongFails

\* What happens on the connection once DialWithKey has returned it.
Connected(A) == dial = "Ready" /\ A /\ UNCHANGED dial

Next ==
  \/ Handshake
  \/ (PeerCloses \/ DeadlinePasses) /\ UNCHANGED dial
  \/ \E code \in Codes : Connected(PeerSends(code))
  \/ Connected(PeerCompletes) \/ Connected(PeerDrains) \/ Connected(Close)
  \/ Connected(SenderBegins) \/ Connected(SenderRefused) \/ Connected(SenderStep)
  \/ \E w \in Waits : Connected(BeginWait(w))
  \/ Connected(WaitStep)

Spec == Init /\ [][Next]_vars

(***************************************************************************)
(* Both goroutines run, and an armed deadline passes in the end.  Nothing  *)
(* is assumed of the peer.                                                 *)
(***************************************************************************)
Fairness ==
  /\ WF_vars(Connected(WaitStep))
  /\ WF_vars(Connected(SenderStep))
  /\ WF_vars(DeadlinePasses /\ UNCHANGED dial)

FairSpec == Spec /\ Fairness
-----------------------------------------------------------------------------
(* Properties.                                                             *)

\* Every variable of the socket, the wait and the two writers has its type.
TypeOK ==
  /\ dial \in {"Auth", "Ack", "Clear", "Ready", "Failed"}
  /\ fd \in BOOLEAN /\ peerOpen \in BOOLEAN
  /\ inbound \in Seq(Part) /\ Len(inbound) <= 2
  /\ partial \in Codes \cup {"None"} /\ pings \in 0..MaxPings
  /\ readBy \in {"None", "Armed", "Past"}
  /\ reading \in Codes \cup {"None"} /\ lostSync \in BOOLEAN
  /\ op \in Waits \cup {"None"}
  /\ step \in {"Idle", "Read", "LockPong", "WritePong"}
  /\ verdict \in {"None", "Open", "Closed", "Got", "Error"}
  /\ mu \in Writers \cup {"Free"}
  /\ egress \in Nat /\ sends \in 0..MaxSends /\ drained \in Nat
  /\ writing \in [Writers -> [seq : Nat, half : 0..2]]
  /\ outbound \in Seq([seq : Nat, half : 1..2])
  /\ failed \in BOOLEAN

\* Until a write fails, what the peer receives is frame after frame, whole and
\* in the order the cipher and MAC state advanced, although a waiting goroutine
\* answers Pings while another one sends; and no frame is sealed that does not
\* reach the socket, which would make every later one undecodable.
FramesInOrder ==
  failed \/
    /\ \A i \in 1..Len(outbound) :
         outbound[i] = [seq |-> (i + 1) \div 2, half |-> 2 - (i % 2)]
    /\ mu = "Free" => Len(outbound) = 2 * egress

CloseReason ==
  \/ reading \in {"Disc"} \cup Malformed /\ inbound # << >>
  \/ ~peerOpen \/ ~fd \/ lostSync

\* A wait says that the connection closed only when the peer sent Disconnect or
\* closed, when our own side closed, when the peer sent a frame that go-ethereum
\* cannot read, or when an earlier wait was cut off inside a frame by its
\* deadline: never because of a deadline of its own, an unanswered Ping or a
\* message it does not know.  (The last two causes are not what the comment at
\* rlpx/conn.go:123 says: the peer neither closed nor sent Disconnect.)
ClosedIsJustified ==
  [][(op # "None" /\ op' = "None" /\ verdict' = "Closed") => CloseReason]_vars

\* While the peer takes what it is sent, every wait returns by its deadline: a
\* peer that keeps sending keepalives or unrelated messages does not extend it.
\* (A peer that stops reading does: the Pong is written without a deadline.)
WaitReturns == WF_vars(Connected(PeerDrains)) => (op # "None" ~> op = "None")
=============================================================================
