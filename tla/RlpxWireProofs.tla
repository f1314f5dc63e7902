--------------------------- MODULE RlpxWireProofs ---------------------------
(***************************************************************************)
(* Proofs about RlpxWire, for every bound on sends and Pings and every     *)
(* size of the socket buffer.                                              *)
(***************************************************************************)
EXTENDS RlpxWire, TLAPS

USE DEF Writers, NotWriting, Connected

\* Only the holder of the lock writes, and it writes the last frame sealed.
LockInv ==
  /\ mu = "Free" => \A w \in Writers : writing[w] = NotWriting
  /\ mu # "Free" =>
       /\ writing[mu].half \in 1..2 /\ writing[mu].seq = egress
       /\ \A w \in Writers \ {mu} : writing[w] = NotWriting

\* At most one frame is under way to us, of which one part may be missing.
InboundInv == partial # "None" => Len(inbound) <= 1

TypeInv == TypeOK /\ LockInv /\ InboundInv

LEMMA TypeInit == Init => TypeInv
<1> SUFFICES ASSUME Init PROVE TypeInv
  OBVIOUS
<1> USE RlpxWireAssumption DEF RlpxWireAssumption, Init
<1>1. inbound \in Seq(Part) /\ Len(inbound) = 0 /\ outbound \in Seq([seq : Nat, half : 1..2])
  OBVIOUS
<1>2. LockInv /\ InboundInv
  BY DEF LockInv, InboundInv
<1>3. writing \in [Writers -> [seq : Nat, half : 0..2]]
  OBVIOUS
<1>4. fd \in BOOLEAN /\ peerOpen \in BOOLEAN /\ lostSync \in BOOLEAN /\ failed \in BOOLEAN
  OBVIOUS
<1>5. /\ dial = "Auth" /\ partial = "None" /\ pings = 0 /\ drained = 0 /\ readBy = "Armed"
      /\ reading = "None" /\ op = "None" /\ step = "Idle" /\ verdict = "None" /\ mu = "Free"
      /\ egress = 0 /\ sends = 0
  OBVIOUS
<1> HIDE DEF Init
<1> QED
  BY <1>1, <1>2, <1>3, <1>4, <1>5 DEF TypeInv, TypeOK

\* Reading a part off the socket leaves what may be under way.
LEMMA TailType ==
  ASSUME NEW s \in Seq(Part), s # << >>
  PROVE  /\ Head(s) \in Part /\ Tail(s) \in Seq(Part) /\ Len(Tail(s)) <= Len(s)
  OBVIOUS

\* The three ways in which a writer changes the lock and its place.
LEMMA SealType ==
  ASSUME TypeInv, NEW w \in Writers, Seal(w)
  PROVE  /\ mu' \in Writers \cup {"Free"} /\ egress' \in Nat
         /\ writing' \in [Writers -> [seq : Nat, half : 0..2]]
         /\ LockInv'
  BY DEF TypeInv, TypeOK, LockInv, Seal

LEMMA WritePartType ==
  ASSUME TypeInv, NEW w \in Writers, WritePart(w)
  PROVE  /\ mu' \in Writers \cup {"Free"}
         /\ writing' \in [Writers -> [seq : Nat, half : 0..2]]
         /\ outbound' \in Seq([seq : Nat, half : 1..2])
         /\ LockInv'
<1> DEFINE W == [seq : Nat, half : 0..2]
<1> USE DEF TypeInv, TypeOK, LockInv
<1>1. mu = w /\ writing[w] \in W /\ writing[w].half \in 1..2 /\ writing[w].seq = egress
  BY DEF WritePart
<1>2. writing[w] \in [seq : Nat, half : 1..2]
  BY <1>1
<1>3. outbound' \in Seq([seq : Nat, half : 1..2])
  BY <1>2 DEF WritePart
<1>4. CASE writing[w].half = 1
  <2>1. writing' = [writing EXCEPT ![w] = [writing[w] EXCEPT !.half = 2]] /\ mu' = mu /\ egress' = egress
    BY <1>4 DEF WritePart
  <2> QED
    BY <1>1, <1>3, <2>1
<1>5. CASE writing[w].half = 2
  <2>1. writing' = [writing EXCEPT ![w] = NotWriting] /\ mu' = "Free"
    BY <1>5 DEF WritePart
  <2> QED
    BY <1>1, <1>3, <2>1
<1> QED
  BY <1>1, <1>4, <1>5

LEMMA WriteFailsType ==
  ASSUME TypeInv, NEW w \in Writers, WriteFails(w)
  PROVE  /\ mu' \in Writers \cup {"Free"} /\ failed' \in BOOLEAN
         /\ writing' \in [Writers -> [seq : Nat, half : 0..2]]
         /\ LockInv'
  BY DEF TypeInv, TypeOK, LockInv, WriteFails

\* One step keeps the types and who may write.
LEMMA TypeStep == TypeInv /\ [Next]_vars => TypeInv'
<1> SUFFICES ASSUME TypeInv, [Next]_vars PROVE TypeInv'
  OBVIOUS
<1> USE RlpxWireAssumption DEF RlpxWireAssumption, TypeInv, InboundInv
<1>a. TypeOK /\ LockInv
  OBVIOUS
<1>1. CASE Handshake
  <2>1. CASE WriteAuth \/ ReadAck
    BY <2>1 DEF TypeOK, LockInv, WriteAuth, ReadAck, peerVars, readVars, waitVars, writeVars
  <2>2. CASE HandshakeFails
    <3>1. fd' \in BOOLEAN /\ dial' = "Failed" /\ UNCHANGED <<peerVars, readVars, waitVars, writeVars>>
      BY <2>2 DEF HandshakeFails
    <3> QED
      BY <3>1 DEF TypeOK, LockInv, peerVars, readVars, waitVars, writeVars
  <2>3. CASE ClearDeadline
    BY <2>3 DEF TypeOK, LockInv, ClearDeadline, peerVars, waitVars, writeVars
  <2> QED
    BY <1>1, <2>1, <2>2, <2>3 DEF Handshake
<1>2. CASE (PeerCloses \/ DeadlinePasses) /\ UNCHANGED dial
  <2>1. CASE PeerCloses
    <3>1. /\ peerOpen' \in BOOLEAN
          /\ UNCHANGED <<dial, fd, inbound, partial, pings, drained, readVars, waitVars, writeVars>>
      BY <1>2, <2>1 DEF PeerCloses
    <3> QED
      BY <3>1 DEF TypeOK, LockInv, readVars, waitVars, writeVars
  <2>2. CASE DeadlinePasses
    BY <1>2, <2>2 DEF TypeOK, LockInv, DeadlinePasses, peerVars, waitVars, writeVars
  <2> QED
    BY <1>2, <2>1, <2>2
<1>3. ASSUME NEW code \in Codes, Connected(PeerSends(code)) PROVE TypeInv'
  <2>1. [code |-> code, half |-> 1] \in Part
    BY DEF Part
  <2>2. inbound' \in Seq(Part) /\ Len(inbound') = 1
    BY <1>3, <2>1 DEF PeerSends
  <2> QED
    BY <1>3, <2>2 DEF TypeOK, LockInv, PeerSends, readVars, waitVars, writeVars
<1>4. CASE Connected(PeerCompletes)
  <2>1. [code |-> partial, half |-> 2] \in Part
    BY <1>4 DEF Part, PeerCompletes, TypeOK
  <2>2. inbound' \in Seq(Part) /\ Len(inbound') <= 2
    BY <1>4, <2>1 DEF PeerCompletes, TypeOK
  <2> QED
    BY <1>4, <2>2 DEF TypeOK, LockInv, PeerCompletes, readVars, waitVars, writeVars
<1>5. CASE Connected(PeerDrains) \/ Connected(Close)
  <2>1. CASE PeerDrains
    BY <1>5, <2>1 DEF TypeOK, LockInv, PeerDrains, readVars, waitVars, writeVars
  <2>2. CASE Close
    <3>1. fd' \in BOOLEAN /\ UNCHANGED <<dial, peerVars, readVars, waitVars, writeVars>>
      BY <1>5, <2>2 DEF Close
    <3> QED
      BY <3>1 DEF TypeOK, LockInv, peerVars, readVars, waitVars, writeVars
  <2> QED
    BY <1>5, <2>1, <2>2
<1>6. CASE Connected(SenderBegins)
  <2>1. Seal("Sender") /\ sends' \in 0..MaxSends
    BY <1>6 DEF SenderBegins, TypeOK
  <2>2. /\ mu' \in Writers \cup {"Free"} /\ egress' \in Nat
        /\ writing' \in [Writers -> [seq : Nat, half : 0..2]]
        /\ LockInv'
    BY <2>1, SealType
  <2> QED
    BY <1>6, <2>1, <2>2 DEF TypeOK, SenderBegins, peerVars, readVars, waitVars
<1>7. CASE Connected(SenderRefused)
  BY <1>7 DEF TypeOK, LockInv, SenderRefused, Refuse, peerVars, readVars, waitVars
<1>8. CASE Connected(SenderStep)
  <2>1. CASE WritePart("Sender")
    BY <1>8, <2>1, WritePartType DEF TypeOK, SenderStep, WritePart, peerVars, readVars, waitVars
  <2>2. CASE WriteFails("Sender")
    BY <1>8, <2>2, WriteFailsType DEF TypeOK, SenderStep, WriteFails, peerVars, readVars, waitVars
  <2> QED
    BY <1>8, <2>1, <2>2 DEF SenderStep
<1>9. ASSUME NEW w \in Waits, Connected(BeginWait(w)) PROVE TypeInv'
  BY <1>9 DEF TypeOK, LockInv, BeginWait, peerVars, writeVars
<1>10. CASE Connected(WaitStep)
  <2>1. CASE ReadHeader
    <3>1. inbound' \in Seq(Part) /\ Len(inbound') <= Len(inbound) /\ reading' \in Codes
      BY <2>1, TailType DEF ReadHeader, TypeOK, Part
    <3> QED
      BY <1>10, <2>1, <3>1 DEF TypeOK, LockInv, ReadHeader, waitVars, writeVars
  <2>2. ASSUME NEW err \in ReadErrors, ReadFails(err) PROVE TypeInv'
    <3>1. inbound' \in Seq(Part) /\ Len(inbound') <= Len(inbound)
      <4>1. CASE err = "Malformed"
        <5>1. inbound # << >> /\ inbound' = Tail(inbound)
          BY <2>2, <4>1 DEF ReadFails
        <5> QED
          BY <5>1, TailType DEF TypeOK
      <4>2. CASE err # "Malformed"
        BY <2>2, <4>2 DEF ReadFails, ReadErrors, TypeOK
      <4> QED
        BY <4>1, <4>2
    <3>2. op' = "None" /\ step' = "Idle" /\ verdict' \in {"Closed", "Open", "Error"} /\ readBy' = "None"
      BY <2>2 DEF ReadFails, Report
    <3>3. lostSync' \in BOOLEAN /\ reading' = "None"
      BY <2>2 DEF ReadFails
    <3> QED
      BY <1>10, <2>2, <3>1, <3>2, <3>3 DEF TypeOK, LockInv, ReadFails, writeVars
  <2>3. CASE ReadFrame
    <3>1. inbound' \in Seq(Part) /\ Len(inbound') <= Len(inbound) /\ reading' = "None"
      BY <2>3, TailType DEF ReadFrame, TypeOK
    <3>2. /\ op' \in {op, "None"} /\ step' \in {"Idle", "Read", "LockPong"}
          /\ verdict' \in {verdict, "Closed", "Error", "Got"} /\ readBy' \in {readBy, "None"}
      BY <2>3 DEF ReadFrame, Report, Skip, waitVars, TypeOK
    <3> QED
      BY <1>10, <2>3, <3>1, <3>2 DEF TypeOK, LockInv, ReadFrame, writeVars
  <2>4. CASE LockPong
    BY <1>10, <2>4, SealType DEF TypeOK, LockPong, peerVars, readVars
  <2>5. CASE WritePong
    BY <1>10, <2>5, WritePartType DEF TypeOK, WritePong, WritePart, peerVars, readVars
  <2>6. CASE PongFails
    BY <1>10, <2>6, WriteFailsType DEF TypeOK, PongFails, WriteFails, Report, peerVars
  <2> QED
    BY <1>10, <2>1, <2>2, <2>3, <2>4, <2>5, <2>6 DEF WaitStep
<1>11. CASE UNCHANGED vars
  BY <1>11 DEF TypeOK, LockInv, vars, peerVars, readVars, waitVars, writeVars
<1> QED
  BY <1>1, <1>2, <1>3, <1>4, <1>5, <1>6, <1>7, <1>8, <1>9, <1>10, <1>11 DEF Next

\* The variables keep their types, and only the holder of Conn.mu writes
\* (rlpx/conn.go).
THEOREM TypeCorrect == Spec => []TypeOK
<1>1. TypeInv => TypeOK
  BY DEF TypeInv
<1> QED
  BY <1>1, TypeInit, TypeStep, PTL DEF Spec
-----------------------------------------------------------------------------
(* Frames in the order of the cipher.                                      *)

\* The parts written so far are frame after frame, in the order of the cipher.
Ordered ==
  \A i \in 1..Len(outbound) : outbound[i] = [seq |-> (i + 1) \div 2, half |-> 2 - (i % 2)]

\* How many parts there are: all of the sealed frames, or all but what the holder
\* of the lock has still to write of the last one.
OrderInv ==
  failed \/
    /\ Ordered
    /\ mu = "Free" => Len(outbound) = 2 * egress
    /\ mu # "Free" => egress > 0 /\ Len(outbound) = 2 * (egress - 1) + writing[mu].half - 1

LEMMA OrderInit == Init => OrderInv
<1> SUFFICES ASSUME Init PROVE OrderInv
  OBVIOUS
<1>1. outbound = << >> /\ mu = "Free" /\ egress = 0
  BY DEF Init
<1> QED
  BY <1>1 DEF OrderInv, Ordered

\* Sealing puts a frame behind what is written; refusing one leaves it all.
LEMMA SealOrder ==
  ASSUME TypeInv, OrderInv, NEW w \in Writers, Seal(w), UNCHANGED <<outbound, failed>>
  PROVE  OrderInv'
  BY DEF TypeInv, TypeOK, LockInv, OrderInv, Ordered, Seal

\* Where the last part of a frame is.
LEMMA EvenHalf ==
  ASSUME NEW e \in Nat
  PROVE  (2 * e + 1) \div 2 = e /\ (2 * e) % 2 = 0
  OBVIOUS

\* The next part of the last frame goes to its place.
LEMMA WritePartOrder ==
  ASSUME TypeInv, OrderInv, NEW w \in Writers, WritePart(w)
  PROVE  OrderInv'
<1> SUFFICES ASSUME ~failed PROVE OrderInv'
  BY DEF WritePart, OrderInv
<1> DEFINE n == Len(outbound)
<1>1. /\ mu = w /\ writing[w].half \in 1..2 /\ writing[w].seq = egress
      /\ egress \in Nat /\ egress > 0 /\ n = 2 * (egress - 1) + writing[w].half - 1
      /\ writing[w] \in [seq : Nat, half : 0..2] /\ n \in Nat
      /\ outbound \in Seq([seq : Nat, half : 1..2])
  <2>1. writing[w].half \in 1..2
    BY DEF WritePart
  <2>2. mu = w /\ writing[w].seq = egress
    BY <2>1 DEF TypeInv, TypeOK, LockInv
  <2>3. outbound \in Seq([seq : Nat, half : 1..2]) /\ egress \in Nat /\ n \in Nat
    BY DEF TypeInv, TypeOK
  <2>4. egress > 0 /\ n = 2 * (egress - 1) + writing[w].half - 1
    BY <2>2 DEF OrderInv
  <2> QED
    BY <2>1, <2>2, <2>3, <2>4 DEF TypeInv, TypeOK
<1>2. outbound' = Append(outbound, writing[w]) /\ egress' = egress /\ failed' = failed
  BY DEF WritePart
<1>3. /\ Len(outbound') = n + 1 /\ outbound'[n + 1] = writing[w]
      /\ \A i \in 1..n : outbound'[i] = outbound[i]
  BY <1>1, <1>2
<1>4. writing[w] = [seq |-> ((n + 1) + 1) \div 2, half |-> 2 - ((n + 1) % 2)]
  <2>1. CASE writing[w].half = 1
    <3>1. n + 1 = 2 * egress - 1
      BY <1>1, <2>1
    <3>2. ((n + 1) + 1) \div 2 = egress /\ (n + 1) % 2 = 1
      BY <1>1, <3>1
    <3> QED
      BY <1>1, <2>1, <3>2
  <2>2. CASE writing[w].half = 2
    <3>1. n + 1 = 2 * egress
      BY <1>1, <2>2
    <3>2. ((n + 1) + 1) \div 2 = egress /\ (n + 1) % 2 = 0
      BY <1>1, <3>1, EvenHalf
    <3> QED
      BY <1>1, <2>2, <3>2
  <2> QED
    BY <1>1, <2>1, <2>2
<1>5. Ordered'
  <2>1. Ordered
    BY DEF OrderInv
  <2> SUFFICES ASSUME NEW i \in 1..(n + 1)
               PROVE  outbound'[i] = [seq |-> (i + 1) \div 2, half |-> 2 - (i % 2)]
    BY <1>3 DEF Ordered
  <2>2. CASE i = n + 1
    BY <1>3, <1>4, <2>2
  <2>3. CASE i \in 1..n
    BY <1>3, <2>1, <2>3 DEF Ordered
  <2> QED
    BY <1>1, <2>2, <2>3
<1>6. CASE writing[w].half = 1
  <2>1. mu' = w /\ writing'[w].half = 2
    BY <1>1, <1>6 DEF WritePart, TypeInv, TypeOK
  <2> QED
    BY <1>1, <1>2, <1>3, <1>5, <1>6, <2>1 DEF OrderInv
<1>7. CASE writing[w].half = 2
  <2>1. mu' = "Free"
    BY <1>7 DEF WritePart
  <2> QED
    BY <1>1, <1>2, <1>3, <1>5, <1>7, <2>1 DEF OrderInv
<1> QED
  BY <1>1, <1>6, <1>7

\* Everything else leaves the lock, the cipher and what is written alone, or
\* ends a write with a failure.
LEMMA OrderStep == TypeInv /\ OrderInv /\ [Next]_vars => OrderInv'
<1> SUFFICES ASSUME TypeInv, OrderInv, [Next]_vars PROVE OrderInv'
  OBVIOUS
<1>1. CASE UNCHANGED writeVars
  BY <1>1 DEF OrderInv, Ordered, writeVars
<1>2. ASSUME NEW w \in Writers, Seal(w), UNCHANGED <<outbound, failed>> PROVE OrderInv'
  BY <1>2, SealOrder
<1>3. ASSUME NEW w \in Writers, WritePart(w) PROVE OrderInv'
  BY <1>3, WritePartOrder
<1>4. ASSUME NEW w \in Writers, WriteFails(w) PROVE OrderInv'
  BY <1>4 DEF WriteFails, OrderInv
<1>5. CASE Handshake
  BY <1>1, <1>5 DEF Handshake, WriteAuth, ReadAck, HandshakeFails, ClearDeadline
<1>6. CASE PeerCloses \/ DeadlinePasses \/ PeerCompletes \/ PeerDrains \/ Close
  BY <1>1, <1>6 DEF PeerCloses, DeadlinePasses, PeerCompletes, PeerDrains, Close
<1>7. ASSUME NEW code \in Codes, PeerSends(code) PROVE OrderInv'
  BY <1>1, <1>7 DEF PeerSends
<1>8. CASE SenderBegins
  BY <1>2, <1>8 DEF SenderBegins
<1>9. CASE SenderRefused
  BY <1>9 DEF SenderRefused, Refuse, OrderInv, Ordered
<1>10. CASE SenderStep
  BY <1>3, <1>4, <1>10 DEF SenderStep
<1>11. ASSUME NEW w \in Waits, BeginWait(w) PROVE OrderInv'
  BY <1>1, <1>11 DEF BeginWait
<1>12. CASE WaitStep
  <2>1. CASE ReadHeader \/ ReadFrame
    BY <1>1, <2>1 DEF ReadHeader, ReadFrame
  <2>2. ASSUME NEW err \in ReadErrors, ReadFails(err) PROVE OrderInv'
    BY <1>1, <2>2 DEF ReadFails
  <2>3. CASE LockPong
    BY <1>2, <2>3 DEF LockPong
  <2>4. CASE WritePong
    BY <1>3, <2>4 DEF WritePong
  <2>5. CASE PongFails
    BY <1>4, <2>5 DEF PongFails
  <2> QED
    BY <1>12, <2>1, <2>2, <2>3, <2>4, <2>5 DEF WaitStep
<1>13. CASE UNCHANGED vars
  BY <1>1, <1>13 DEF vars
<1> QED
  BY <1>5, <1>6, <1>7, <1>8, <1>9, <1>10, <1>11, <1>12, <1>13 DEF Next

\* Until a write fails, the peer receives whole frames in the order in which
\* the cipher and the MAC were advanced, however a Pong and the frames of
\* another goroutine interleave (frameWriter.write under Conn.mu).
THEOREM FramesInOrderCorrect == Spec => []FramesInOrder
<1>1. OrderInv => FramesInOrder
  BY DEF OrderInv, Ordered, FramesInOrder
<1> QED
  BY <1>1, TypeInit, TypeStep, OrderInit, OrderStep, PTL DEF Spec
-----------------------------------------------------------------------------
(* What a close is reported for.                                           *)

LEMMA ClosedStep ==
  ASSUME [Next]_vars, op # "None", op' = "None", verdict' = "Closed"
  PROVE  CloseReason
<1> USE DEF CloseReason
<1>1. CASE UNCHANGED waitVars
  BY <1>1 DEF waitVars
<1>2. ASSUME NEW err \in ReadErrors, ReadFails(err) PROVE CloseReason
  <2>1. verdict' = (IF closedBy(err) THEN "Closed"
                    ELSE IF op \in {"RlpxClose", "EthClose"} THEN "Open" ELSE "Error")
    BY <1>2 DEF ReadFails, Report
  <2>2. err # "Timeout"
    BY <2>1 DEF closedBy
  <2> QED
    BY <1>2, <2>2 DEF ReadFails, ReadErrors
<1>3. CASE ReadFrame
  BY <1>3 DEF ReadFrame, Report, Skip, waitVars
<1>4. CASE PongFails
  BY <1>4 DEF PongFails, WriteFails
<1>5. CASE LockPong \/ WritePong
  BY <1>5 DEF LockPong, WritePong
<1>6. ASSUME NEW w \in Waits, BeginWait(w) PROVE CloseReason
  BY <1>6 DEF BeginWait
<1>7. CASE Handshake
  BY <1>1, <1>7 DEF Handshake, WriteAuth, ReadAck, HandshakeFails, ClearDeadline
<1>8. CASE PeerCloses \/ DeadlinePasses \/ PeerCompletes \/ PeerDrains \/ Close
  BY <1>1, <1>8 DEF PeerCloses, DeadlinePasses, PeerCompletes, PeerDrains, Close
<1>9. ASSUME NEW code \in Codes, PeerSends(code) PROVE CloseReason
  BY <1>1, <1>9 DEF PeerSends
<1>10. CASE SenderBegins \/ SenderRefused \/ SenderStep \/ ReadHeader
  BY <1>1, <1>10 DEF SenderBegins, SenderRefused, SenderStep, ReadHeader
<1>11. CASE UNCHANGED vars
  BY <1>1, <1>11 DEF vars
<1> QED
  BY <1>2, <1>3, <1>4, <1>5, <1>6, <1>7, <1>8, <1>9, <1>10, <1>11 DEF Next, WaitStep

\* No wait reports a close for a deadline, an unanswered Ping or an unknown
\* message: only for the peer's Disconnect or end, our own Close, a frame that
\* cannot be read, or bytes that an earlier deadline cost (rlpx.WaitClose,
\* eth.WaitCloseReason).
THEOREM ClosedIsJustifiedCorrect == Spec => ClosedIsJustified
<1>1. [Next]_vars =>
        [(op # "None" /\ op' = "None" /\ verdict' = "Closed") => CloseReason]_vars
  BY ClosedStep
<1> QED
  BY <1>1, PTL DEF Spec, ClosedIsJustified
=============================================================================
