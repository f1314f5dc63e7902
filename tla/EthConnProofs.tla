--------------------------- MODULE EthConnProofs ---------------------------
(***************************************************************************)
(* Proofs about EthConn for every set of callers, every queue capacity,    *)
(* every socket buffer and any number of frames.                           *)
(***************************************************************************)
EXTENDS EthConn, SequenceTheorems, TLAPS

\* The initial connection is well typed.
LEMMA InitType == Init => TypeOK
  <1> SUFFICES ASSUME Init
               PROVE  TypeOK
    OBVIOUS
  <1>1. /\ inbound \in Seq(Frame) /\ msgs \in Seq(Frame)
        /\ log \in Seq(Frame) /\ taken \in Seq(Frame)
        /\ Len(msgs) <= QueueCap
    BY ConnAssumption DEF ConnAssumption, Init
  <1>2. /\ op \in [Clients -> ClientOps] /\ want \in [Clients -> SUBSET Codes]
        /\ timer \in [Clients -> Timers]
    BY DEF Init, ClientOps, Timers
  <1>3. sent \in 0..MaxFrames /\ outbound \in 0..SendBuf
    BY ConnAssumption DEF ConnAssumption, Init
  <1> QED
    BY <1>1, <1>2, <1>3 DEF Init, TypeOK, ReaderSteps, DiscReasons, ReadErrors,
       Outcomes

\* Every step of the peer, the reader and the callers keeps the types; the
\* queue bound is kept by the non-blocking send of queueMessage.
LEMMA NextType == TypeOK /\ [Next]_vars => TypeOK'
  <1> SUFFICES ASSUME TypeOK, [Next]_vars
               PROVE  TypeOK'
    OBVIOUS
  <1> USE ConnAssumption DEF ConnAssumption, TypeOK
  <1>1. ASSUME NEW code \in PeerCodes, PeerSend(code)
        PROVE  TypeOK'
    BY <1>1 DEF PeerSend, Frame, causeVars, clientVars, history
  <1>2. CASE PeerClose
    BY <1>2 DEF PeerClose, causeVars, clientVars, history
  <1>3. CASE PeerDrain
    BY <1>3 DEF PeerDrain, peerVars, causeVars, clientVars, history
  <1>4. CASE Cancel
    BY <1>4 DEF Cancel, peerVars, causeVars, clientVars, history
  <1>5. CASE readMessages
    <2>1. CASE ReadFailed
      BY <2>1 DEF ReadFailed, setReadError, ReadErrors, ReaderSteps, peerVars,
         clientVars, history
    <2>2. ASSUME NEW f \in Frame, ReadDisc(f)
          PROVE  TypeOK'
      BY <2>2 DEF ReadDisc, ReadFrame, setDisconnectReason, DiscReasons,
         ReaderSteps, clientVars
    <2>3. ASSUME NEW f \in Frame, ReadPing(f)
          PROVE  TypeOK'
      BY <2>3 DEF ReadPing, ReadFrame, ReaderSteps, clientVars, causeVars
    <2>4. ASSUME NEW f \in Frame, ReadPong(f)
          PROVE  TypeOK'
      BY <2>4 DEF ReadPong, ReadFrame, clientVars, causeVars
    <2>5. ASSUME NEW f \in Frame, ReadProtocol(f)
          PROVE  TypeOK'
      <3>1. CASE Len(msgs) < QueueCap
        <4>1. msgs' = Append(msgs, f) /\ UNCHANGED <<readErr, reader>>
          BY <2>5, <3>1 DEF ReadProtocol, queueMessage
        <4>2. msgs' \in Seq(Frame) /\ Len(msgs') <= QueueCap
          BY <4>1, <3>1
        <4> QED
          BY <2>5, <4>1, <4>2 DEF ReadProtocol, ReadFrame, clientVars
      <3>2. CASE Len(msgs) >= QueueCap
        BY <2>5, <3>2 DEF ReadProtocol, ReadFrame, queueMessage, setReadError,
           ReadErrors, ReaderSteps, clientVars
      <3> QED
        BY <3>1, <3>2
    <2>6. CASE LockPong
      BY <2>6 DEF LockPong, ReaderSteps, peerVars, causeVars, clientVars, history
    <2>7. CASE WritePong
      BY <2>7 DEF WritePong, WriteSucceeds, ReaderSteps, peerVars, causeVars,
         clientVars
    <2>8. CASE WritePongFailed
      BY <2>8 DEF WritePongFailed, setReadError, ReadErrors, ReaderSteps,
         peerVars, clientVars, history
    <2>9. CASE FailFast
      BY <2>9 DEF FailFast, ReaderSteps, peerVars, causeVars, clientVars, history
    <2>10. CASE CloseDead
      BY <2>10 DEF CloseDead, ReaderSteps, peerVars, causeVars, clientVars, history
    <2> QED
      BY <1>5, <2>1, <2>2, <2>3, <2>4, <2>5, <2>6, <2>7, <2>8, <2>9, <2>10
      DEF readMessages
  <1>6. ASSUME NEW c \in Clients, ClientCall(c)
        PROVE  TypeOK'
    <2> USE DEF connVars, peerVars, causeVars, ClientOps, Outcomes, Timers
    <2>1. ASSUME NEW newOp \in ClientOps, NEW codes \in SUBSET Codes,
                 Call(c, newOp, codes)
          PROVE  TypeOK'
      BY <2>1 DEF Call
    <2>2. CASE ReadMsg(c) \/ WaitDisconnect(c) \/ Send(c)
      BY <2>1, <2>2 DEF ReadMsg, WaitDisconnect, Send
    <2>3. ASSUME NEW code \in Codes, WaitForMsg(c, code)
          PROVE  TypeOK'
      BY <2>1, <2>3 DEF WaitForMsg
    <2>4. CASE SendSnap(c)
      BY <2>1, <2>4 DEF SendSnap, Return
    <2> QED
      BY <1>6, <2>2, <2>3, <2>4 DEF ClientCall
  <1>7. ASSUME NEW c \in Clients, ClientStep(c)
        PROVE  TypeOK'
    <2> USE DEF connVars, peerVars, causeVars, Return, ClientOps, Outcomes, Timers
    <2>1. CASE ReceiveMsg(c)
      <3>1. /\ msgs' \in Seq(Frame) /\ Len(msgs') <= QueueCap
            /\ taken' \in Seq(Frame)
        BY <2>1 DEF ReceiveMsg
      <3>2. /\ op' \in [Clients -> ClientOps]
            /\ want' \in [Clients -> SUBSET Codes]
            /\ timer' \in [Clients -> Timers]
            /\ outcome' \in Outcomes
        BY <2>1 DEF ReceiveMsg, clientVars
      <3> QED
        BY <2>1, <3>1, <3>2 DEF ReceiveMsg
    <2>2. CASE EndWait(c)
      BY <2>2 DEF EndWait, ReceiveDead, DisconnectSeen, WaitCancelled, WaitTimeout
    <2>3. CASE LockSend(c)
      BY <2>3 DEF LockSend
    <2>4. CASE WriteSend(c)
      BY <2>4 DEF WriteSend, WriteSucceeds
    <2>5. CASE WriteSendFailed(c)
      BY <2>5 DEF WriteSendFailed
    <2> QED
      BY <1>7, <2>1, <2>2, <2>3, <2>4, <2>5 DEF ClientStep
  <1>8. ASSUME NEW c \in Clients, TimerFires(c)
        PROVE  TypeOK'
    BY <1>8 DEF TimerFires, Timers, connVars, peerVars, causeVars
  <1>9. CASE Close
    BY <1>9 DEF Close, peerVars, causeVars, clientVars, history
  <1>10. CASE UNCHANGED vars
    BY <1>10 DEF vars
  <1> QED
    BY <1>1, <1>2, <1>3, <1>4, <1>5, <1>6, <1>7, <1>8, <1>9, <1>10 DEF Next

\* Type correctness of the connection, with the bound on the msgs channel.
THEOREM TypeCorrect == Spec => []TypeOK
  BY InitType, NextType, PTL DEF Spec
-----------------------------------------------------------------------------
\* What a caller takes from the msgs channel is the oldest message.
TakeOldest ==
  /\ msgs # << >>
  /\ msgs' = Tail(msgs)
  /\ taken' = Append(taken, Head(msgs))

\* Everything but the reader leaves the reader, the cause, the end and the
\* history of the wire alone, and changes msgs only by taking the oldest.
LEMMA OtherSteps ==
  [Next]_vars =>
    \/ readMessages
    \/ /\ UNCHANGED <<reader, readErr, discReason, dead, log, pings, pongs>>
       /\ TakeOldest \/ UNCHANGED <<msgs, taken>>
  <1> SUFFICES ASSUME [Next]_vars, ~readMessages
               PROVE  /\ UNCHANGED <<reader, readErr, discReason, dead, log, pings, pongs>>
                      /\ TakeOldest \/ UNCHANGED <<msgs, taken>>
    OBVIOUS
  <1> USE DEF causeVars, history, connVars
  <1>1. ASSUME NEW code \in PeerCodes, PeerSend(code)
        PROVE  UNCHANGED <<reader, readErr, discReason, dead, log, pings, pongs, msgs, taken>>
    BY <1>1 DEF PeerSend
  <1>2. CASE PeerClose \/ PeerDrain \/ Cancel \/ Close
    BY <1>2 DEF PeerClose, PeerDrain, Cancel, Close
  <1>3. ASSUME NEW c \in Clients, ClientCall(c)
        PROVE  UNCHANGED <<reader, readErr, discReason, dead, log, pings, pongs, msgs, taken>>
    BY <1>3 DEF ClientCall, ReadMsg, WaitForMsg, WaitDisconnect, Send, SendSnap, Call
  <1>4. ASSUME NEW c \in Clients, ClientStep(c)
        PROVE  /\ UNCHANGED <<reader, readErr, discReason, dead, log, pings, pongs>>
               /\ TakeOldest \/ UNCHANGED <<msgs, taken>>
    BY <1>4 DEF ClientStep, EndWait, ReceiveMsg, ReceiveDead, DisconnectSeen,
       WaitCancelled, WaitTimeout, LockSend, WriteSend, WriteSendFailed, TakeOldest
  <1>5. ASSUME NEW c \in Clients, TimerFires(c)
        PROVE  UNCHANGED <<reader, readErr, discReason, dead, log, pings, pongs, msgs, taken>>
    BY <1>5 DEF TimerFires
  <1>6. CASE UNCHANGED vars
    BY <1>6 DEF vars
  <1> QED
    BY <1>1, <1>2, <1>3, <1>4, <1>5, <1>6 DEF Next

\* The reader leaves its loop only with a cause set, on every path.
LEMMA NextReaderCause == TypeOK /\ ReaderCause /\ [Next]_vars => ReaderCause'
  <1> SUFFICES ASSUME TypeOK, ReaderCause, [Next]_vars
               PROVE  ReaderCause'
    OBVIOUS
  <1> USE DEF ReaderCause, readFailure, setReadError, setDisconnectReason,
              causeVars, ReaderSteps
  <1>0. reader \in ReaderSteps
    BY DEF TypeOK
  <1>1. CASE readMessages
    <2>1. CASE ReadFailed
      BY <2>1 DEF ReadFailed
    <2>2. ASSUME NEW f \in Frame,
                 ReadDisc(f) \/ ReadPing(f) \/ ReadPong(f)
          PROVE  ReaderCause'
      BY <2>2 DEF ReadFrame, ReadDisc, ReadPing, ReadPong
    <2>3. ASSUME NEW f \in Frame, ReadProtocol(f)
          PROVE  ReaderCause'
      BY <2>3 DEF ReadFrame, ReadProtocol, queueMessage
    <2>4. CASE LockPong \/ WritePong \/ WritePongFailed
      BY <2>4 DEF LockPong, WritePong, WritePongFailed
    <2>5. CASE FailFast \/ CloseDead
      BY <2>5 DEF FailFast, CloseDead
    <2> QED
      BY <1>1, <2>1, <2>2, <2>3, <2>4, <2>5 DEF readMessages
  <1>2. CASE UNCHANGED <<reader, readErr, discReason, dead>>
    BY <1>2
  <1> QED
    BY <1>1, <1>2, OtherSteps

\* Once c.dead is closed, readFailure has a cause to report.
THEOREM CauseKnownCorrect == Spec => [](ReaderCause /\ CauseKnown)
  <1>1. Init => ReaderCause
    BY DEF Init, ReaderCause
  <1>2. ReaderCause => CauseKnown
    BY DEF ReaderCause, CauseKnown
  <1> QED
    BY <1>1, <1>2, NextReaderCause, TypeCorrect, PTL DEF Spec

\* Taking the oldest message moves it from the front of the queue to the end
\* of what was taken.
LEMMA TakeConcat ==
  ASSUME NEW S, NEW a \in Seq(S), NEW b \in Seq(S), b # << >>
  PROVE  Append(a, Head(b)) \o Tail(b) = a \o b
  <1>1. b = <<Head(b)>> \o Tail(b) /\ Head(b) \in S /\ Tail(b) \in Seq(S)
    BY HeadTailProperties, AppendProperties
  <1>2. Append(a, Head(b)) = a \o <<Head(b)>>
    BY <1>1, AppendIsConcat
  <1> QED
    BY <1>1, <1>2, ConcatAssociative

\* Adding to the queue adds to the end of everything that was read.
LEMMA AppendConcat ==
  ASSUME NEW S, NEW a \in Seq(S), NEW b \in Seq(S), NEW f \in S
  PROVE  a \o Append(b, f) = Append(a \o b, f)
  BY AppendIsConcat, ConcatAssociative, ConcatProperties

\* No step of the reader or of a caller loses or reorders a message: only the
\* reader in its loop adds to the log, and there no queue overflow has happened.
LEMMA NextNoSilentLoss ==
  TypeOK /\ ReaderCause /\ NoSilentLoss /\ [Next]_vars => NoSilentLoss'
  <1> SUFFICES ASSUME TypeOK, ReaderCause, NoSilentLoss, [Next]_vars
               PROVE  NoSilentLoss'
    OBVIOUS
  <1>0. taken \in Seq(Frame) /\ msgs \in Seq(Frame) /\ Len(msgs) \in Nat
    BY DEF TypeOK
  <1>1. CASE readMessages
    <2>1. ASSUME NEW f \in Frame, ReadProtocol(f)
          PROVE  NoSilentLoss'
      <3>1. log = taken \o msgs /\ readErr = "None"
        BY <2>1 DEF ReadProtocol, ReadFrame, ReaderCause, NoSilentLoss
      <3>2. log' = Append(taken \o msgs, f) /\ taken' = taken
        BY <2>1, <3>1 DEF ReadProtocol, ReadFrame
      <3>3. CASE msgs' = Append(msgs, f)
        <4>1. taken \o Append(msgs, f) = Append(taken \o msgs, f)
          BY <1>0, AppendConcat
        <4> QED
          BY <3>2, <3>3, <4>1 DEF NoSilentLoss
      <3>4. CASE msgs' = msgs /\ readErr' = "QueueFull"
        BY <3>2, <3>4 DEF NoSilentLoss
      <3> QED
        BY <2>1, <3>1, <3>3, <3>4 DEF ReadProtocol, queueMessage, setReadError
    <2>2. CASE UNCHANGED <<log, taken, msgs>> /\ (readErr = "QueueFull" => readErr' = "QueueFull")
      BY <2>2 DEF NoSilentLoss
    <2>3. ASSUME NEW f \in Frame, ReadDisc(f) \/ ReadPing(f) \/ ReadPong(f)
          PROVE  NoSilentLoss'
      BY <2>2, <2>3 DEF ReadDisc, ReadPing, ReadPong, ReadFrame, causeVars
    <2>4. CASE ReadFailed \/ WritePongFailed
      BY <2>2, <2>4 DEF ReadFailed, WritePongFailed, setReadError, history
    <2>5. CASE LockPong \/ WritePong \/ FailFast \/ CloseDead
      BY <2>2, <2>5 DEF LockPong, WritePong, FailFast, CloseDead, history, causeVars
    <2> QED
      BY <1>1, <2>1, <2>3, <2>4, <2>5 DEF readMessages
  <1>2. CASE UNCHANGED <<readErr, log>> /\ (TakeOldest \/ UNCHANGED <<msgs, taken>>)
    <2>1. CASE TakeOldest
      <3>1. taken' \o msgs' = taken \o msgs
        BY <1>0, <2>1, TakeConcat DEF TakeOldest
      <3> QED
        BY <1>2, <3>1 DEF NoSilentLoss
    <2>2. CASE UNCHANGED <<msgs, taken>>
      BY <1>2, <2>2 DEF NoSilentLoss
    <2> QED
      BY <1>2, <2>1, <2>2
  <1> QED
    BY <1>1, <1>2, OtherSteps

\* Every protocol frame read is delivered or queued in order, or the
\* connection fails with errReceiveQueueFull: nothing is lost silently.
THEOREM NoSilentLossCorrect == Spec => []NoSilentLoss
  <1>1. Init => NoSilentLoss
    <2> SUFFICES ASSUME Init
                 PROVE  log = taken \o msgs
      BY DEF NoSilentLoss
    <2> QED
      BY ConcatEmptySeq, EmptySeq DEF Init
  <1> QED
    BY <1>1, NextNoSilentLoss, TypeCorrect, CauseKnownCorrect, PTL DEF Spec

\* A Ping is answered before the next frame is read, and only once.
THEOREM PongBeforeNextReadCorrect == Spec => []PongBeforeNextRead
  <1>1. Init => PongBeforeNextRead
    BY DEF Init, PongBeforeNextRead
  <1>2. TypeOK /\ PongBeforeNextRead /\ [Next]_vars => PongBeforeNextRead'
    <2> SUFFICES ASSUME TypeOK, PongBeforeNextRead, [Next]_vars
                 PROVE  PongBeforeNextRead'
      OBVIOUS
    <2> USE DEF PongBeforeNextRead
    <2>0. pings \in Nat /\ pongs \in Nat
      BY DEF TypeOK
    <2>1. CASE readMessages
      <3>1. ASSUME NEW f \in Frame,
                   ReadDisc(f) \/ ReadPing(f) \/ ReadPong(f)
            PROVE  PongBeforeNextRead'
        BY <2>0, <3>1 DEF ReadFrame, ReadDisc, ReadPing, ReadPong
      <3>2. ASSUME NEW f \in Frame, ReadProtocol(f)
            PROVE  PongBeforeNextRead'
        BY <2>0, <3>2 DEF ReadFrame, ReadProtocol, queueMessage
      <3>3. CASE ReadFailed \/ LockPong \/ WritePong \/ WritePongFailed
        BY <2>0, <3>3 DEF ReadFailed, LockPong, WritePong, WritePongFailed, history
      <3>4. CASE FailFast \/ CloseDead
        BY <3>4 DEF FailFast, CloseDead, history
      <3> QED
        BY <2>1, <3>1, <3>2, <3>3, <3>4 DEF readMessages
    <2>2. CASE UNCHANGED <<reader, pings, pongs>>
      BY <2>2
    <2> QED
      BY <2>1, <2>2, OtherSteps
  <1> QED
    BY <1>1, <1>2, TypeCorrect, PTL DEF Spec

\* Only the holder of writeMu is inside wire.Write.
THEOREM OneWriterCorrect == Spec => []OneWriter
  <1> USE ConnAssumption DEF ConnAssumption, OneWriter
  <1>1. Init => OneWriter
    BY DEF Init
  <1>2. TypeOK /\ OneWriter /\ [Next]_vars => OneWriter'
    <2> SUFFICES ASSUME TypeOK, OneWriter, [Next]_vars
                 PROVE  OneWriter'
      OBVIOUS
    <2>0. op \in [Clients -> ClientOps] /\ reader \in ReaderSteps
      BY DEF TypeOK
    <2>1. ASSUME NEW code \in PeerCodes, PeerSend(code)
          PROVE  OneWriter'
      BY <2>1 DEF PeerSend, clientVars
    <2>2. CASE PeerClose \/ PeerDrain \/ Cancel \/ Close
      BY <2>2 DEF PeerClose, PeerDrain, Cancel, Close, clientVars
    <2>3. CASE readMessages
      <3>1. ASSUME NEW f \in Frame,
                   ReadDisc(f) \/ ReadPing(f) \/ ReadPong(f) \/ ReadProtocol(f)
            PROVE  OneWriter'
        BY <3>1 DEF ReadFrame, ReadDisc, ReadPing, ReadPong, ReadProtocol,
           queueMessage, clientVars
      <3>2. CASE LockPong
        BY <3>2 DEF LockPong, clientVars
      <3>3. CASE WritePong \/ WritePongFailed
        BY <3>3 DEF WritePong, WritePongFailed, clientVars
      <3>4. CASE ReadFailed \/ FailFast \/ CloseDead
        BY <3>4 DEF ReadFailed, FailFast, CloseDead, clientVars
      <3> QED
        BY <2>3, <3>1, <3>2, <3>3, <3>4 DEF readMessages
    <2>4. ASSUME NEW c \in Clients, ClientCall(c)
          PROVE  OneWriter'
      BY <2>0, <2>4 DEF ClientCall, ReadMsg, WaitForMsg, WaitDisconnect, Send,
         SendSnap, Call, Return, connVars
    <2>5. ASSUME NEW c \in Clients, ClientStep(c)
          PROVE  OneWriter'
      <3> USE DEF Return, connVars
      <3>1. CASE ReceiveMsg(c)
        BY <2>0, <3>1 DEF ReceiveMsg, clientVars
      <3>2. CASE EndWait(c)
        BY <2>0, <3>2 DEF EndWait, ReceiveDead, DisconnectSeen, WaitCancelled,
           WaitTimeout, Waits
      <3>3. CASE LockSend(c)
        BY <2>0, <3>3 DEF LockSend
      <3>4. CASE WriteSend(c) \/ WriteSendFailed(c)
        BY <2>0, <3>4 DEF WriteSend, WriteSendFailed
      <3> QED
        BY <2>5, <3>1, <3>2, <3>3, <3>4 DEF ClientStep
    <2>6. ASSUME NEW c \in Clients, TimerFires(c)
          PROVE  OneWriter'
      BY <2>6 DEF TimerFires, connVars
    <2>7. CASE UNCHANGED vars
      BY <2>7 DEF vars
    <2> QED
      BY <2>1, <2>2, <2>3, <2>4, <2>5, <2>6, <2>7 DEF Next
  <1> QED
    BY <1>1, <1>2, TypeCorrect, PTL DEF Spec

\* Every step of the connection is a step of the bounded FIFO with one final
\* cause that MessageFeed describes, or leaves what its readers see unchanged.
THEOREM Refinement == Spec => ImplementsFeed
  <1> USE DEF Feed!feedVars
  <1>1. Init => Feed!FeedInit
    BY DEF Init, Feed!FeedInit, readFailure
  <1>2. TypeOK /\ ReaderCause /\ [Next]_vars => [Feed!FeedNext]_(Feed!feedVars)
    <2> SUFFICES ASSUME TypeOK, ReaderCause, [Next]_vars
                 PROVE  \/ Feed!FeedNext
                        \/ UNCHANGED <<msgs, readFailure, dead>>
      OBVIOUS
    <2> USE DEF readFailure, ReaderCause, setReadError, setDisconnectReason, causeVars
    <2>1. CASE readMessages
      <3>1. CASE ReadFailed \/ WritePongFailed
        BY <3>1 DEF ReadFailed, WritePongFailed, Feed!FeedNext, Feed!Fail
      <3>2. ASSUME NEW f \in Frame, ReadDisc(f)
            PROVE  Feed!FeedNext
        BY <3>2 DEF ReadDisc, ReadFrame, Feed!FeedNext, Feed!Fail
      <3>3. ASSUME NEW f \in Frame, ReadPing(f) \/ ReadPong(f)
            PROVE  UNCHANGED <<msgs, readFailure, dead>>
        BY <3>3 DEF ReadPing, ReadPong, ReadFrame
      <3>4. ASSUME NEW f \in Frame, ReadProtocol(f)
            PROVE  Feed!FeedNext
        <4>1. CASE Len(msgs) < QueueCap /\ msgs' = Append(msgs, f) /\ UNCHANGED readErr
          <5>1. Feed!Accept(f)
            BY <3>4, <4>1 DEF ReadProtocol, ReadFrame, Feed!Accept
          <5> QED
            BY <5>1 DEF Feed!FeedNext
        <4>2. CASE readErr' = "QueueFull" /\ UNCHANGED msgs
          BY <3>4, <4>2 DEF ReadProtocol, ReadFrame, Feed!FeedNext, Feed!Fail
        <4> QED
          BY <3>4, <4>1, <4>2 DEF ReadProtocol, ReadFrame, queueMessage
      <3>5. CASE LockPong \/ WritePong \/ FailFast
        BY <3>5 DEF LockPong, WritePong, FailFast
      <3>6. CASE CloseDead
        BY <3>6 DEF CloseDead, Feed!FeedNext, Feed!End
      <3> QED
        BY <2>1, <3>1, <3>2, <3>3, <3>4, <3>5, <3>6 DEF readMessages
    <2>2. CASE TakeOldest /\ UNCHANGED <<readErr, discReason, dead>>
      BY <2>2 DEF TakeOldest, Feed!FeedNext, Feed!Take
    <2>3. CASE UNCHANGED <<msgs, readErr, discReason, dead>>
      BY <2>3
    <2> QED
      BY <2>1, <2>2, <2>3, OtherSteps
  <1> QED
    BY <1>1, <1>2, TypeCorrect, CauseKnownCorrect, PTL
    DEF Spec, ImplementsFeed, Feed!FeedSpec
=============================================================================
