--------------------------- MODULE ReqRespProofs ---------------------------
(***************************************************************************)
(* Proofs about ReqResp for any calls, any answers of the peer, any number *)
(* of attempts and any ceilings.                                           *)
(***************************************************************************)
EXTENDS ReqResp, TLAPS

Outcomes == {"Ok", "Empty", "Error"}
Sending == {"Write", "CloseWrite", "Read"}
Exchanging == Sending \cup {"Open", "BeforeSend"}

\* After an exchange there is another one, a sleep before the next attempt, or
\* the end of the call; the last two close the session.
LEMMA OverCases ==
  ASSUME TypeOK
  PROVE  \A o \in Outcomes, r \in BOOLEAN : Over(o, r) =>
           /\ stream' \in {"None", "Closed"}
           /\ \/ /\ pc' = "Open" /\ phase # "Main"
                 /\ phase' = "V1" \/ (phase' = "Main" /\ warmedUp(o))
                 /\ host' = host /\ result' = result
              \/ /\ pc' = "Sleep" /\ phase = "Main" /\ phase' = "Main"
                 /\ ~sendAttempted /\ attempt < MaxAttempts
                 /\ closeSession /\ result' = result
              \/ /\ pc' = "Returned" /\ phase' = phase
                 /\ closeSession /\ result' \in Outcomes
  <1> SUFFICES ASSUME NEW o \in Outcomes, NEW r \in BOOLEAN, Over(o, r)
               PROVE  /\ stream' \in {"None", "Closed"}
                      /\ \/ /\ pc' = "Open" /\ phase # "Main"
                            /\ phase' = "V1" \/ (phase' = "Main" /\ warmedUp(o))
                            /\ host' = host /\ result' = result
                         \/ /\ pc' = "Sleep" /\ phase = "Main" /\ phase' = "Main"
                            /\ ~sendAttempted /\ attempt < MaxAttempts
                            /\ closeSession /\ result' = result
                         \/ /\ pc' = "Returned" /\ phase' = phase
                            /\ closeSession /\ result' \in Outcomes
    OBVIOUS
  <1>1. stream' \in {"None", "Closed"}
    BY DEF Over, TypeOK
  <1>2. phase = "Main" \/ phase = "V1" \/ phase = "V2"
    BY DEF TypeOK
  <1>3. CASE phase # "Main"
    <2>1. CASE warmedUp(o)
      BY <1>1, <1>3, <2>1 DEF Over
    <2>2. CASE ~warmedUp(o) /\ phase = "V2"
      BY <1>1, <1>3, <2>2 DEF Over
    <2>3. CASE ~warmedUp(o) /\ phase = "V1"
      BY <1>1, <1>3, <2>3 DEF Over, Return, Outcomes
    <2> QED
      BY <1>2, <1>3, <2>1, <2>2, <2>3
  <1>4. CASE phase = "Main"
    <2>1. CASE o # "Ok" /\ mayRetry(r)
      BY <1>1, <1>4, <2>1 DEF Over, mayRetry
    <2>2. CASE ~(o # "Ok" /\ mayRetry(r))
      BY <1>1, <1>4, <2>2 DEF Over, Return
    <2> QED
      BY <2>1, <2>2
  <1> QED
    BY <1>3, <1>4

\* What OverCases says of the types.
LEMMA OverType ==
  ASSUME TypeOK
  PROVE  \A o \in Outcomes, r \in BOOLEAN : Over(o, r) =>
           /\ stream' \in {"None", "Open", "Closed"}
           /\ pc' \in Steps
           /\ phase' \in {"V2", "V1", "Main"}
           /\ host' \in [Attempts -> {"None", "Open", "Closed"}]
           /\ result' \in {"None", "Ok", "Empty", "Error"}
           /\ pc' = "Sleep" => attempt < MaxAttempts
  BY OverCases DEF TypeOK, Steps, closeSession, Outcomes

\* TypeOK with what it needs to be inductive: a sleep is followed by an attempt.
TypeInv == TypeOK /\ (pc = "Sleep" => attempt < MaxAttempts)

\* Every step keeps the types.
LEMMA NextType == TypeInv /\ [Next]_vars => TypeInv'
  <1> SUFFICES ASSUME TypeInv, [Next]_vars
               PROVE  TypeInv'
    OBVIOUS
  <1> USE ReqRespAssumption DEF ReqRespAssumption, readerVars, TypeInv
  <1>1. CASE HostUp
    BY <1>1 DEF HostUp, TypeOK, Steps
  <1>2. CASE Connected
    BY <1>2 DEF Connected, TypeOK, Steps
  <1>3. CASE ConnectFails
    BY <1>3 DEF ConnectFails, SessionError, Return, closeSession, TypeOK, Steps
  <1>4. CASE SleepOver
    BY <1>4 DEF SleepOver, TypeOK, Steps, Attempts
  <1>5. CASE SleepCancelled
    BY <1>5 DEF SleepCancelled, Return, TypeOK, Steps
  <1>6. CASE StatusReady
    BY <1>6 DEF StatusReady, TypeOK, Steps
  <1>7. CASE StatusFails
    BY <1>7 DEF StatusFails, closeSession, Return, TypeOK, Steps
  <1>8. CASE OpenStream
    BY <1>8 DEF OpenStream, TypeOK, Steps
  <1>9. CASE BeforeSend
    BY <1>9 DEF BeforeSend, TypeOK, Steps
  <1>10. CASE CloseWrite
    BY <1>10 DEF CloseWrite, TypeOK, Steps
  <1>11. CASE SkipResponse
    BY <1>11, OverType DEF SkipResponse, TypeOK, Outcomes
  <1>12. CASE NextEOF
    BY <1>12, OverType DEF NextEOF, TypeOK, Outcomes
  <1>13. ASSUME NEW answer \in Responses, Write(answer)
         PROVE  TypeInv'
    BY <1>13 DEF Write, TypeOK, Steps
  <1>14. ASSUME NEW c \in {Left[i] : i \in DOMAIN Left}, NextChunk(c)
         PROVE  TypeInv'
    <2>1. c \in Chunk
      <3>1. response.chunks \in Seq(Chunk)
        <4>1. CASE response \in Responses
          BY <4>1
        <4>2. CASE response = NoResponse
          BY <4>2 DEF NoResponse
        <4> QED
          BY <4>1, <4>2 DEF TypeOK
      <3>2. Left \in Seq(Chunk)
        BY <3>1 DEF Left, TypeOK
      <3> QED
        BY <3>2
    <2>2. chunks' \in Seq(Chunk)
      BY <1>14, <2>1 DEF NextChunk, TypeOK
    <2>3. total' \in Nat
      BY <1>14, <2>1 DEF NextChunk, TypeOK, Chunk
    <2>4. warm' \subseteq Attempts
      BY <1>14 DEF NextChunk, TypeOK
    <2> QED
      BY <1>14, <2>2, <2>3, <2>4, OverType DEF NextChunk, TypeOK, Outcomes
  <1>15. ASSUME NEW r \in BOOLEAN, SessionFails(r)
         PROVE  TypeInv'
    BY <1>15 DEF SessionFails, SessionError, Return, TypeOK, Steps
  <1>16. ASSUME NEW r \in BOOLEAN, OpenStreamFails(r)
         PROVE  TypeInv'
    BY <1>16, OverType DEF OpenStreamFails, TypeOK, Outcomes
  <1>17. ASSUME NEW r \in BOOLEAN,
                BeforeSendFails(r) \/ CloseWriteFails(r) \/ NextFails(r)
         PROVE  TypeInv'
    BY <1>17, OverType DEF BeforeSendFails, CloseWriteFails, NextFails, TypeOK, Outcomes
  <1>18. ASSUME NEW r \in BOOLEAN, WriteFails(r)
         PROVE  TypeInv'
    BY <1>18, OverType DEF WriteFails, TypeOK, Outcomes
  <1>19. CASE Cancel \/ UNCHANGED vars
    BY <1>19 DEF Cancel, vars, TypeOK
  <1> QED
    BY <1>1, <1>2, <1>3, <1>4, <1>5, <1>6, <1>7, <1>8, <1>9, <1>10, <1>11, <1>12,
       <1>13, <1>14, <1>15, <1>16, <1>17, <1>18, <1>19 DEF Next, Step

\* The types of the call, its hosts, its stream and its reader, and the bound on
\* the attempts (Request, RequestChunks).
THEOREM TypeCorrect == Spec => []TypeOK
  <1>1. Init => TypeInv
    <2> SUFFICES ASSUME Init PROVE TypeInv
      OBVIOUS
    <2>1. chunks \in Seq(Chunk)
      BY DEF Init
    <2>2. 1 \in Attempts
      BY ReqRespAssumption DEF ReqRespAssumption, Attempts
    <2> QED
      BY <2>1, <2>2 DEF Init, TypeInv, TypeOK, Steps
  <1> QED
    BY <1>1, NextType, PTL DEF Spec, TypeInv
-----------------------------------------------------------------------------
(* What has been sent.                                                     *)

\* SentOnce is inductive with where the call can be once sendAttempted is set:
\* in the exchange of the request, or at its end.
SendInv ==
  /\ written \subseteq {attempt}
  /\ written # {} => sendAttempted
  /\ sendAttempted => phase = "Main" /\ pc \in Sending \cup {"Returned"}
  /\ (phase = "Main" /\ pc \in Sending) => sendAttempted
  /\ pc = "BeforeSend" => phase = "Main"

\* No step breaks what is known of the request that was sent.
LEMMA NextSend == TypeOK /\ SendInv /\ [Next]_vars => SendInv'
  <1> SUFFICES ASSUME TypeOK, SendInv, [Next]_vars
               PROVE  SendInv'
    OBVIOUS
  <1> USE DEF SendInv, Sending
  <1>1. CASE HostUp
    BY <1>1 DEF HostUp
  <1>2. CASE Connected
    BY <1>2 DEF Connected
  <1>3. CASE ConnectFails
    BY <1>3 DEF ConnectFails, SessionError, Return
  <1>4. CASE SleepOver
    BY <1>4 DEF SleepOver
  <1>5. CASE SleepCancelled
    BY <1>5 DEF SleepCancelled, Return
  <1>6. CASE StatusReady
    BY <1>6 DEF StatusReady
  <1>7. CASE StatusFails
    BY <1>7 DEF StatusFails, Return
  <1>8. CASE OpenStream
    BY <1>8 DEF OpenStream
  <1>9. CASE BeforeSend
    BY <1>9 DEF BeforeSend
  <1>10. CASE CloseWrite
    BY <1>10 DEF CloseWrite
  <1>11. CASE SkipResponse
    BY <1>11, OverCases DEF SkipResponse, Outcomes
  <1>12. CASE NextEOF
    BY <1>12, OverCases DEF NextEOF, Outcomes
  <1>13. ASSUME NEW answer \in Responses, Write(answer)
         PROVE  SendInv'
    BY <1>13 DEF Write
  <1>14. ASSUME NEW c \in {Left[i] : i \in DOMAIN Left}, NextChunk(c)
         PROVE  SendInv'
    BY <1>14, OverCases DEF NextChunk, Outcomes
  <1>15. ASSUME NEW r \in BOOLEAN, SessionFails(r)
         PROVE  SendInv'
    BY <1>15 DEF SessionFails, SessionError, Return
  <1>16. ASSUME NEW r \in BOOLEAN,
                OpenStreamFails(r) \/ BeforeSendFails(r) \/ CloseWriteFails(r)
                  \/ NextFails(r)
         PROVE  SendInv'
    BY <1>16, OverCases
    DEF OpenStreamFails, BeforeSendFails, CloseWriteFails, NextFails, Outcomes
  <1>17. ASSUME NEW r \in BOOLEAN, WriteFails(r)
         PROVE  SendInv'
    BY <1>17, OverCases DEF WriteFails, Outcomes
  <1>18. CASE Cancel \/ UNCHANGED vars
    BY <1>18 DEF Cancel, vars
  <1> QED
    BY <1>1, <1>2, <1>3, <1>4, <1>5, <1>6, <1>7, <1>8, <1>9, <1>10, <1>11, <1>12,
       <1>13, <1>14, <1>15, <1>16, <1>17, <1>18 DEF Next, Step

\* SendInv holds in every reachable state.
LEMMA SendCorrect == Spec => []SendInv
  <1>1. Init => SendInv
    BY DEF Init, SendInv, Sending
  <1> QED
    BY <1>1, NextSend, TypeCorrect, PTL DEF Spec

\* However the attempts fail, the request reaches the wire in one of them at
\* most (Request and RequestChunks, sendAttempted).
THEOREM SentOnceCorrect == Spec => []SentOnce
  <1>1. SendInv => SentOnce
    BY DEF SendInv, SentOnce
  <1> QED
    BY <1>1, SendCorrect, PTL
-----------------------------------------------------------------------------
(* Hosts and streams.                                                      *)

\* NothingLeft is inductive with where a host and a stream can be open.
HostInv ==
  /\ \A a \in Attempts :
       host[a] = "Open" => a = attempt /\ pc \notin {"Session", "Sleep", "Returned"}
  /\ stream = "Open" => pc \in Sending \cup {"BeforeSend"}

\* No step leaves a host or a stream behind.
LEMMA NextHost == TypeOK /\ HostInv /\ [Next]_vars => HostInv'
  <1> SUFFICES ASSUME TypeOK, HostInv, [Next]_vars
               PROVE  HostInv'
    OBVIOUS
  <1> USE DEF HostInv, Sending
  <1>0. ASSUME NEW o \in Outcomes, NEW r \in BOOLEAN, Over(o, r),
               pc \in Exchanging, attempt' = attempt
        PROVE  HostInv'
    BY <1>0, OverCases DEF closeSession, TypeOK, Exchanging
  <1>1. CASE HostUp
    BY <1>1 DEF HostUp, TypeOK
  <1>2. CASE Connected
    BY <1>2 DEF Connected
  <1>3. CASE ConnectFails
    BY <1>3 DEF ConnectFails, SessionError, Return, closeSession, TypeOK
  <1>4. CASE SleepOver
    BY <1>4 DEF SleepOver
  <1>5. CASE SleepCancelled
    BY <1>5 DEF SleepCancelled, Return
  <1>6. CASE StatusReady
    BY <1>6 DEF StatusReady
  <1>7. CASE StatusFails
    BY <1>7 DEF StatusFails, Return, closeSession, TypeOK
  <1>8. CASE OpenStream
    BY <1>8 DEF OpenStream
  <1>9. CASE BeforeSend
    BY <1>9 DEF BeforeSend
  <1>10. CASE CloseWrite
    BY <1>10 DEF CloseWrite
  <1>11. CASE SkipResponse
    BY <1>0, <1>11 DEF SkipResponse, Outcomes, Exchanging
  <1>12. CASE NextEOF
    BY <1>0, <1>12 DEF NextEOF, Outcomes, Exchanging
  <1>13. ASSUME NEW answer \in Responses, Write(answer)
         PROVE  HostInv'
    BY <1>13 DEF Write
  <1>14. ASSUME NEW c \in {Left[i] : i \in DOMAIN Left}, NextChunk(c)
         PROVE  HostInv'
    BY <1>0, <1>14 DEF NextChunk, Outcomes, Exchanging
  <1>15. ASSUME NEW r \in BOOLEAN, SessionFails(r)
         PROVE  HostInv'
    BY <1>15 DEF SessionFails, SessionError, Return
  <1>16. ASSUME NEW r \in BOOLEAN,
                OpenStreamFails(r) \/ BeforeSendFails(r) \/ WriteFails(r)
                  \/ CloseWriteFails(r) \/ NextFails(r)
         PROVE  HostInv'
    BY <1>0, <1>16
    DEF OpenStreamFails, BeforeSendFails, WriteFails, CloseWriteFails, NextFails,
        Outcomes, Exchanging
  <1>17. CASE Cancel \/ UNCHANGED vars
    BY <1>17 DEF Cancel, vars
  <1> QED
    BY <1>1, <1>2, <1>3, <1>4, <1>5, <1>6, <1>7, <1>8, <1>9, <1>10, <1>11, <1>12,
       <1>13, <1>14, <1>15, <1>16, <1>17 DEF Next, Step

\* A call that returned has closed its stream and every host it made, and no
\* host outlives its attempt (NewSessionWithIdentity, Session.Close).
THEOREM NothingLeftCorrect == Spec => []NothingLeft
  <1>1. Init => HostInv
    BY DEF Init, HostInv, Sending
  <1>2. HostInv => NothingLeft
    BY DEF HostInv, NothingLeft, Sending
  <1> QED
    BY <1>1, <1>2, NextHost, TypeCorrect, PTL DEF Spec
-----------------------------------------------------------------------------
(* What has been read.                                                     *)

\* WithinCeilings is inductive with the places where nothing has been read yet
\* and the limits NewResponseReader has accepted.
ReaderInv ==
  /\ pc \notin {"Open", "Read", "Returned"} => chunks = << >> /\ total = 0
  /\ (pc = "Read" /\ phase # "Main") => chunks = << >> /\ total = 0
  /\ pc = "Read" => ValidLimits
  /\ WithinCeilings

\* The limits are natural numbers.
LEMMA LimitsType ==
  ASSUME TypeOK
  PROVE  maxPayload \in Nat /\ maxTotal \in Nat /\ maxChunks \in Nat
  BY ReqRespAssumption DEF ReqRespAssumption, TypeOK, maxPayload, maxTotal, maxChunks

\* The lengths of chunks are natural numbers.
LEMMA ChunkLen ==
  ASSUME NEW s \in Seq(Chunk), NEW i \in 1..Len(s)
  PROVE  s[i].len \in Nat
  <1>1. s[i] \in Chunk
    OBVIOUS
  <1> QED
    BY <1>1 DEF Chunk

\* No step takes the reader over a ceiling.
LEMMA NextReader ==
  TypeOK /\ TypeOK' /\ SendInv /\ ReaderInv /\ [Next]_vars => ReaderInv'
  <1> SUFFICES ASSUME TypeOK, TypeOK', SendInv, ReaderInv, [Next]_vars
               PROVE  ReaderInv'
    OBVIOUS
  <1>0. ASSUME chunks' = << >>, total' = 0, pc' # "Read"
        PROVE  ReaderInv'
    <2>1. maxPayload' \in Nat /\ maxTotal' \in Nat /\ maxChunks' \in Nat
      BY ReqRespAssumption
      DEF ReqRespAssumption, TypeOK, maxPayload, maxTotal, maxChunks
    <2> QED
      BY <1>0, <2>1, ReqRespAssumption DEF ReqRespAssumption, ReaderInv, WithinCeilings
  <1>a. ASSUME UNCHANGED readerVars, pc \notin {"Open", "Read", "Returned"}, pc' # "Read"
        PROVE  ReaderInv'
    BY <1>0, <1>a DEF readerVars, ReaderInv
  <1>b. ASSUME pc = "Read", NEW o \in Outcomes, NEW r \in BOOLEAN, Over(o, r),
               call' = call, Len(chunks') <= maxChunks, total' <= maxTotal,
               \A i \in 1..Len(chunks') : chunks'[i].len <= maxPayload
        PROVE  ReaderInv'
    <2>1. pc' \in {"Open", "Returned"} /\ (pc' = "Returned" => phase' = phase)
      BY <1>b, OverCases DEF SendInv, Sending
    <2>2. CASE pc' = "Open"
      BY <2>2 DEF ReaderInv, WithinCeilings
    <2>3. CASE pc' = "Returned"
      <3>1. maxPayload' = maxPayload /\ maxTotal' = maxTotal /\ maxChunks' = maxChunks
        BY <1>b, <2>1, <2>3 DEF maxPayload, maxTotal, maxChunks
      <3>2. ValidLimits
        BY <1>b DEF ReaderInv
      <3>3. maxPayload \in Nat /\ maxTotal \in Nat /\ maxChunks \in Nat
        BY LimitsType
      <3>4. Len(chunks') \in Nat /\ total' \in Nat
        BY DEF TypeOK
      <3>5. \A i \in 1..Len(chunks') : chunks'[i].len \in Nat
        BY ChunkLen DEF TypeOK
      <3> QED
        BY <1>b, <2>3, <3>1, <3>2, <3>3, <3>4, <3>5, ReqRespAssumption
        DEF ReqRespAssumption, ReaderInv, WithinCeilings, ValidLimits
    <2> QED
      BY <2>1, <2>2, <2>3
  <1>1. CASE HostUp
    BY <1>a, <1>1 DEF HostUp
  <1>2. CASE Connected
    BY <1>a, <1>2 DEF Connected
  <1>3. CASE ConnectFails
    BY <1>a, <1>3 DEF ConnectFails, SessionError, Return
  <1>4. CASE SleepOver
    BY <1>a, <1>4 DEF SleepOver
  <1>5. CASE SleepCancelled
    BY <1>a, <1>5 DEF SleepCancelled, Return
  <1>6. CASE StatusReady
    BY <1>a, <1>6 DEF StatusReady
  <1>7. CASE StatusFails
    BY <1>a, <1>7 DEF StatusFails, Return
  <1>8. CASE OpenStream
    BY <1>0, <1>8 DEF OpenStream
  <1>9. CASE BeforeSend
    BY <1>a, <1>9 DEF BeforeSend
  <1>10. CASE CloseWrite
    <2>1. chunks' = << >> /\ total' = 0 /\ pc' = "Read"
      BY <1>10 DEF CloseWrite, ReaderInv, readerVars
    <2>2. /\ maxPayload' = maxPayload /\ maxTotal' = maxTotal /\ maxChunks' = maxChunks
      BY <1>10 DEF CloseWrite, maxPayload, maxTotal, maxChunks
    <2>3. ValidLimits'
      BY <1>10, <2>2 DEF CloseWrite, ValidLimits
    <2> QED
      BY <2>1, <2>2, <2>3, LimitsType, ReqRespAssumption
      DEF ReqRespAssumption, ReaderInv, WithinCeilings
  <1>11. CASE SkipResponse
    BY <1>a, <1>11, OverCases DEF SkipResponse, Outcomes
  <1>12. CASE NextEOF
    BY <1>b, <1>12 DEF NextEOF, Outcomes, ReaderInv, WithinCeilings, readerVars
  <1>13. ASSUME NEW answer \in Responses, Write(answer)
         PROVE  ReaderInv'
    BY <1>0, <1>13 DEF Write, ReaderInv
  <1>14. ASSUME NEW c \in {Left[i] : i \in DOMAIN Left}, NextChunk(c)
         PROVE  ReaderInv'
    <2>1. pc = "Read" /\ call' = call /\ chunks' = Append(chunks, c)
            /\ total' = total + c.len /\ fits(c) /\ Len(chunks) < maxChunks
      BY <1>14 DEF NextChunk
    <2>2. chunks \in Seq(Chunk) /\ total \in Nat /\ total' \in Nat
      BY DEF TypeOK
    <2>3. Len(chunks') = Len(chunks) + 1 /\ chunks'[Len(chunks')] = c
      BY <2>1, <2>2
    <2>4. c.len \in Nat
      BY <2>2, <2>3, ChunkLen DEF TypeOK
    <2>5. Len(chunks') <= maxChunks /\ total' <= maxTotal /\ c.len <= maxPayload
      BY <2>1, <2>2, <2>3, <2>4, LimitsType DEF fits
    <2>6. \A i \in 1..Len(chunks') : chunks'[i].len <= maxPayload
      BY <2>1, <2>2, <2>3, <2>5 DEF ReaderInv, WithinCeilings
    <2>7. CASE Over("Ok", FALSE)
      BY <1>b, <2>1, <2>5, <2>6, <2>7 DEF Outcomes
    <2>8. CASE readAll /\ UNCHANGED <<pc, phase>>
      <3>1. maxPayload' = maxPayload /\ maxTotal' = maxTotal /\ maxChunks' = maxChunks
        BY <2>1, <2>8 DEF maxPayload, maxTotal, maxChunks
      <3>2. ValidLimits /\ ValidLimits'
        BY <2>1, <3>1 DEF ReaderInv, ValidLimits
      <3>3. pc' = "Read" /\ phase' = "Main"
        BY <2>1, <2>8 DEF readAll
      <3>4. \A i \in 1..Len(chunks') : chunks'[i].len \in Nat
        BY ChunkLen DEF TypeOK
      <3> QED
        BY <2>2, <2>3, <2>5, <2>6, <3>1, <3>2, <3>3, <3>4, LimitsType, ReqRespAssumption
        DEF ReqRespAssumption, ReaderInv, WithinCeilings, ValidLimits
    <2> QED
      BY <1>14, <2>7, <2>8 DEF NextChunk
  <1>15. ASSUME NEW r \in BOOLEAN, SessionFails(r)
         PROVE  ReaderInv'
    BY <1>a, <1>15 DEF SessionFails, SessionError, Return
  <1>16. ASSUME NEW r \in BOOLEAN, OpenStreamFails(r)
         PROVE  ReaderInv'
    BY <1>0, <1>16, OverCases DEF OpenStreamFails, Outcomes
  <1>17. ASSUME NEW r \in BOOLEAN,
                BeforeSendFails(r) \/ WriteFails(r) \/ CloseWriteFails(r)
         PROVE  ReaderInv'
    BY <1>a, <1>17, OverCases
    DEF BeforeSendFails, WriteFails, CloseWriteFails, Outcomes
  <1>18. ASSUME NEW r \in BOOLEAN, NextFails(r)
         PROVE  ReaderInv'
    BY <1>b, <1>18 DEF NextFails, Outcomes, ReaderInv, WithinCeilings, readerVars
  <1>19. CASE Cancel \/ UNCHANGED vars
    BY <1>19 DEF Cancel, vars, readerVars, ReaderInv, WithinCeilings, ValidLimits,
             maxPayload, maxTotal, maxChunks
  <1> QED
    BY <1>1, <1>2, <1>3, <1>4, <1>5, <1>6, <1>7, <1>8, <1>9, <1>10, <1>11, <1>12,
       <1>13, <1>14, <1>15, <1>16, <1>17, <1>18, <1>19 DEF Next, Step

\* ReaderInv holds in every reachable state.
LEMMA ReaderCorrect == Spec => []ReaderInv
  <1>1. Init => ReaderInv
    BY DEF Init, ReaderInv, WithinCeilings
  <1> QED
    BY <1>1, NextReader, TypeCorrect, SendCorrect, PTL DEF Spec

\* Whatever the peer sends, what is kept of a response is within the caller's
\* ceilings and the hard ones (ResponseReader.Next).
THEOREM WithinCeilingsCorrect == Spec => []WithinCeilings
  BY ReaderCorrect, PTL DEF ReaderInv
-----------------------------------------------------------------------------
(* The Status exchange.                                                    *)

\* WarmBeforeRequest is inductive with the exchange of the request itself: it
\* begins only after a Status has been answered on the same session.
WarmInv ==
  call.handshake =>
    /\ written \subseteq warm
    /\ (phase = "Main" /\ pc \in Exchanging) => attempt \in warm

\* No step begins the request on a session that is not warm.
LEMMA NextWarm == TypeOK /\ ReaderInv /\ WarmInv /\ [Next]_vars => WarmInv'
  <1> SUFFICES ASSUME TypeOK, ReaderInv, WarmInv, [Next]_vars
               PROVE  WarmInv'
    OBVIOUS
  <1> USE DEF WarmInv, Exchanging, Sending
  <1>0. ASSUME NEW o \in {"Empty", "Error"}, NEW r \in BOOLEAN, Over(o, r),
               UNCHANGED <<call, attempt, warm>>, pc \in Exchanging,
               written' \subseteq written \cup {attempt},
               phase = "Main" \/ written' = written
        PROVE  WarmInv'
    BY <1>0, OverCases DEF Outcomes, warmedUp
  <1>1. CASE HostUp
    BY <1>1 DEF HostUp
  <1>2. CASE Connected
    BY <1>2 DEF Connected
  <1>3. CASE ConnectFails
    BY <1>3 DEF ConnectFails, SessionError, Return
  <1>4. CASE SleepOver
    BY <1>4 DEF SleepOver
  <1>5. CASE SleepCancelled
    BY <1>5 DEF SleepCancelled, Return
  <1>6. CASE StatusReady
    BY <1>6 DEF StatusReady
  <1>7. CASE StatusFails
    BY <1>7 DEF StatusFails, Return
  <1>8. CASE OpenStream
    BY <1>8 DEF OpenStream
  <1>9. CASE BeforeSend
    BY <1>9 DEF BeforeSend
  <1>10. CASE CloseWrite
    BY <1>10 DEF CloseWrite
  <1>11. CASE SkipResponse
    BY <1>11, OverCases DEF SkipResponse, Outcomes
  <1>12. CASE NextEOF
    <2>1. CASE phase # "Main"
      BY <1>0, <1>12, <2>1 DEF NextEOF, ReaderInv
    <2>2. CASE phase = "Main"
      BY <1>12, <2>2, OverCases DEF NextEOF, Outcomes
    <2> QED
      BY <2>1, <2>2
  <1>13. ASSUME NEW answer \in Responses, Write(answer)
         PROVE  WarmInv'
    BY <1>13 DEF Write
  <1>14. ASSUME NEW c \in {Left[i] : i \in DOMAIN Left}, NextChunk(c)
         PROVE  WarmInv'
    <2>1. call' = call /\ attempt' = attempt /\ written' = written /\ pc = "Read"
            /\ warm \subseteq warm'
      BY <1>14 DEF NextChunk
    <2>2. CASE phase = "Main"
      BY <1>14, <2>1, <2>2, OverCases DEF NextChunk, Outcomes
    <2>3. CASE phase # "Main"
      <3>1. chunks' = <<c>>
        BY <1>14, <2>1, <2>3 DEF NextChunk, ReaderInv
      <3>2. Over("Ok", FALSE)
        BY <1>14, <2>3 DEF NextChunk, readAll
      <3>3. phase' = "Main" /\ pc' \in Exchanging => warmedUp("Ok")
        BY <2>3, <3>2, OverCases DEF Outcomes
      <3>4. warmedUp("Ok") => attempt \in warm'
        BY <1>14, <2>3, <3>1 DEF warmedUp, NextChunk
      <3> QED
        BY <2>1, <3>3, <3>4
    <2> QED
      BY <2>2, <2>3
  <1>15. ASSUME NEW r \in BOOLEAN, SessionFails(r)
         PROVE  WarmInv'
    BY <1>15 DEF SessionFails, SessionError, Return
  <1>16. ASSUME NEW r \in BOOLEAN,
                OpenStreamFails(r) \/ BeforeSendFails(r) \/ WriteFails(r)
                  \/ CloseWriteFails(r) \/ NextFails(r)
         PROVE  WarmInv'
    BY <1>0, <1>16
    DEF OpenStreamFails, BeforeSendFails, WriteFails, CloseWriteFails, NextFails
  <1>17. CASE Cancel \/ UNCHANGED vars
    BY <1>17 DEF Cancel, vars
  <1> QED
    BY <1>1, <1>2, <1>3, <1>4, <1>5, <1>6, <1>7, <1>8, <1>9, <1>10, <1>11, <1>12,
       <1>13, <1>14, <1>15, <1>16, <1>17 DEF Next, Step

\* With Handshake no request goes out on a session whose peer has not answered a
\* Status with Success, also after a retry (Request, StatusWarmup).
THEOREM WarmBeforeRequestCorrect == Spec => []WarmBeforeRequest
  <1>1. Init => WarmInv
    BY DEF Init, WarmInv, Exchanging, Sending
  <1>2. WarmInv => WarmBeforeRequest
    BY DEF WarmInv, WarmBeforeRequest
  <1> QED
    BY <1>1, <1>2, NextWarm, TypeCorrect, ReaderCorrect, PTL DEF Spec
-----------------------------------------------------------------------------
(* What a complete answer holds.                                           *)

\* The chunks kept are the first ones of the answer; a call that is content has
\* returned, with all of them, with a failure at their end, or before a chunk
\* without data.
AnswerInv ==
  /\ Len(chunks) <= Len(response.chunks)
  /\ \A i \in 1..Len(chunks) : chunks[i] = response.chunks[i]
  /\ result = "Ok" => pc = "Returned"
  /\ (result = "Ok" /\ call.all /\ ~call.skip) =>
       \/ Len(chunks) = Len(response.chunks)
       \/ chunks # << >> /\ chunks[Len(chunks)].code = "Failure"
       \/ StopsAtNoData

\* Only an exchange of the request itself that went well is a success.
LEMMA OverResult ==
  ASSUME TypeOK, NEW o \in Outcomes, NEW r \in BOOLEAN, Over(o, r), result' = "Ok"
  PROVE  result = "Ok" \/ (phase = "Main" /\ o = "Ok" /\ pc' = "Returned")
  BY DEF Over, Return, TypeOK

LEMMA ResponseType ==
  ASSUME TypeOK
  PROVE  response.chunks \in Seq(Chunk) /\ chunks \in Seq(Chunk)
  <1>1. CASE response \in Responses
    BY <1>1, ReqRespAssumption DEF ReqRespAssumption, TypeOK
  <1>2. CASE response = NoResponse
    BY <1>2 DEF NoResponse, TypeOK
  <1> QED
    BY <1>1, <1>2 DEF TypeOK

\* The next chunk is the one that follows the chunks kept.
LEMMA NextLeft ==
  ASSUME NEW s \in Seq(Chunk), NEW n \in 0..Len(s), SubSeq(s, n + 1, Len(s)) # << >>
  PROVE  n < Len(s) /\ Head(SubSeq(s, n + 1, Len(s))) = s[n + 1]
  <1>1. n < Len(s)
    OBVIOUS
  <1>2. Len(SubSeq(s, n + 1, Len(s))) = Len(s) - n /\ SubSeq(s, n + 1, Len(s))[1] = s[n + 1]
    BY <1>1
  <1> QED
    BY <1>1, <1>2

\* Chunks that are not kept yet are left.
LEMMA NoneLeft ==
  ASSUME NEW s \in Seq(Chunk), NEW n \in Nat, n < Len(s)
  PROVE  SubSeq(s, n + 1, Len(s)) # << >>
  <1>1. Len(SubSeq(s, n + 1, Len(s))) = Len(s) - n
    OBVIOUS
  <1>2. SubSeq(s, n + 1, Len(s)) \in Seq(Chunk)
    OBVIOUS
  <1>3. \A x \in Seq(Chunk) : Len(x) > 0 => x # << >>
    OBVIOUS
  <1>4. Len(SubSeq(s, n + 1, Len(s))) > 0
    BY <1>1
  <1> QED
    BY <1>2, <1>3, <1>4, Zenon

\* No step keeps a chunk out of turn or takes a part for the whole.
LEMMA NextAnswer == TypeOK /\ ReaderInv /\ AnswerInv /\ [Next]_vars => AnswerInv'
  <1> SUFFICES ASSUME TypeOK, ReaderInv, AnswerInv, [Next]_vars
               PROVE  AnswerInv'
    OBVIOUS
  <1>t. response.chunks \in Seq(Chunk) /\ chunks \in Seq(Chunk)
    BY ResponseType
  <1>0. ASSUME NEW r \in BOOLEAN, NEW o \in {"Empty", "Error"}, Over(o, r), pc # "Returned",
               UNCHANGED <<chunks, response>> \/ (chunks' = << >> /\ response' = NoResponse)
        PROVE  AnswerInv'
    <2>1. result' # "Ok"
      BY <1>0, OverResult DEF AnswerInv, Outcomes
    <2> QED
      BY <1>0, <2>1 DEF AnswerInv, NoResponse
  <1>a. ASSUME UNCHANGED readerVars, result' # "Ok"
        PROVE  AnswerInv'
    BY <1>a DEF AnswerInv, readerVars
  <1>b. pc # "Returned" => result # "Ok"
    BY DEF AnswerInv
  <1>1. CASE HostUp
    BY <1>a, <1>b, <1>1 DEF HostUp
  <1>2. CASE Connected
    BY <1>a, <1>b, <1>2 DEF Connected
  <1>3. CASE ConnectFails
    BY <1>a, <1>b, <1>3 DEF ConnectFails, SessionError, Return
  <1>4. CASE SleepOver
    BY <1>a, <1>b, <1>4 DEF SleepOver
  <1>5. CASE SleepCancelled
    BY <1>a, <1>b, <1>5 DEF SleepCancelled, Return
  <1>6. CASE StatusReady
    BY <1>a, <1>b, <1>6 DEF StatusReady
  <1>7. CASE StatusFails
    BY <1>a, <1>b, <1>7 DEF StatusFails, Return
  <1>8. CASE OpenStream
    BY <1>b, <1>8 DEF OpenStream, AnswerInv, NoResponse
  <1>9. CASE BeforeSend
    BY <1>a, <1>b, <1>9 DEF BeforeSend
  <1>10. CASE CloseWrite
    BY <1>a, <1>b, <1>10 DEF CloseWrite
  <1>11. CASE SkipResponse
    <2>1. result' = "Ok" => pc' = "Returned"
      BY <1>b, <1>11, OverResult DEF SkipResponse, Outcomes
    <2>2. call.skip /\ UNCHANGED <<call, readerVars>>
      BY <1>11 DEF SkipResponse
    <2> QED
      BY <2>1, <2>2 DEF AnswerInv, readerVars
  <1>12. CASE NextEOF
    <2>1. UNCHANGED <<call, response, chunks>> /\ pc = "Read" /\ atEOF
      BY <1>12 DEF NextEOF, readerVars
    <2>2. Len(chunks) \in Nat /\ Len(response.chunks) \in Nat
            /\ Len(chunks) <= Len(response.chunks)
      BY <1>t DEF AnswerInv
    <2>3. Len(chunks) = Len(response.chunks) \/ StopsAtNoData
      <3>1. CASE Left = << >>
        <4>1. CASE Len(chunks) < Len(response.chunks)
          BY <1>t, <2>2, <3>1, <4>1, NoneLeft DEF Left
        <4> QED
          BY <2>2, <4>1
      <3>2. CASE Left # << >>
        <4>1. noData(Head(Left))
          BY <2>1, <3>2 DEF atEOF
        <4>2. Len(chunks) < Len(response.chunks)
                /\ Head(Left) = response.chunks[Len(chunks) + 1]
          BY <1>t, <2>2, <3>2, NextLeft DEF Left
        <4> QED
          BY <4>1, <4>2 DEF StopsAtNoData
      <3> QED
        BY <3>1, <3>2
    <2>4. StopsAtNoData' <=> StopsAtNoData
      BY <2>1 DEF StopsAtNoData, noData
    <2>5. result' = "Ok" => pc' = "Returned"
      BY <1>b, <1>12, <2>1, OverResult DEF NextEOF, Outcomes
    <2> QED
      BY <2>1, <2>3, <2>4, <2>5 DEF AnswerInv
  <1>13. ASSUME NEW answer \in Responses, Write(answer)
         PROVE  AnswerInv'
    <2>1. chunks' = << >> /\ response' = answer /\ result' # "Ok"
      BY <1>b, <1>13 DEF Write, ReaderInv
    <2>2. answer.chunks \in Seq(Chunk)
      BY ReqRespAssumption DEF ReqRespAssumption
    <2> QED
      BY <2>1, <2>2 DEF AnswerInv
  <1>14. ASSUME NEW c \in {Left[i] : i \in DOMAIN Left}, NextChunk(c)
         PROVE  AnswerInv'
    <2>1. pc = "Read" /\ chunks' = Append(chunks, c) /\ UNCHANGED <<call, response>>
      BY <1>14 DEF NextChunk
    <2>2. Len(chunks) < Len(response.chunks) /\ c = response.chunks[Len(chunks) + 1]
      BY <1>t, <1>14, NextLeft DEF NextChunk, Left, AnswerInv
    <2>3. c \in Chunk
      BY <1>t, <2>2
    <2>4. Len(chunks') = Len(chunks) + 1 /\ chunks'[Len(chunks')] = c
            /\ \A i \in 1..Len(chunks) : chunks'[i] = chunks[i]
      BY <1>t, <2>1, <2>3
    <2>5. Len(chunks') <= Len(response'.chunks)
            /\ \A i \in 1..Len(chunks') : chunks'[i] = response'.chunks[i]
      BY <1>t, <2>1, <2>2, <2>4 DEF AnswerInv
    <2>6. ASSUME result' = "Ok"
          PROVE  pc' = "Returned" /\ (call.all => c.code = "Failure")
      <3>1. Over("Ok", FALSE) /\ ~(readAll /\ c.code = "Success")
        BY <1>b, <1>14, <2>1, <2>6 DEF NextChunk
      <3>2. phase = "Main" /\ pc' = "Returned"
        BY <1>b, <2>1, <2>6, <3>1, OverResult DEF Outcomes
      <3> QED
        BY <2>3, <3>1, <3>2 DEF readAll, Chunk, Codes
    <2> QED
      BY <1>t, <2>1, <2>4, <2>5, <2>6 DEF AnswerInv
  <1>15. ASSUME NEW r \in BOOLEAN, SessionFails(r)
         PROVE  AnswerInv'
    BY <1>a, <1>b, <1>15 DEF SessionFails, SessionError, Return
  <1>16. ASSUME NEW r \in BOOLEAN,
                OpenStreamFails(r) \/ BeforeSendFails(r) \/ WriteFails(r)
                  \/ CloseWriteFails(r) \/ NextFails(r)
         PROVE  AnswerInv'
    BY <1>0, <1>16
    DEF OpenStreamFails, BeforeSendFails, WriteFails, CloseWriteFails, NextFails, readerVars
  <1>17. CASE Cancel \/ UNCHANGED vars
    BY <1>17 DEF Cancel, vars, readerVars, AnswerInv, StopsAtNoData, noData
  <1> QED
    BY <1>1, <1>2, <1>3, <1>4, <1>5, <1>6, <1>7, <1>8, <1>9, <1>10, <1>11, <1>12,
       <1>13, <1>14, <1>15, <1>16, <1>17 DEF Next, Step

\* What RequestChunks returns without an error is every chunk of the peer's, or
\* the chunks up to a failure or before one without data, in order: for any
\* answers and any ceilings, wherever the reading is cut off
\* (ResponseReader.Next).
THEOREM AllOrErrorCorrect == Spec => []AllOrError
  <1>1. Init => AnswerInv
    BY DEF Init, AnswerInv, NoResponse
  <1>2. TypeOK /\ AnswerInv => AllOrError
    <2> SUFFICES ASSUME TypeOK, AnswerInv
                 PROVE  AllOrError
      OBVIOUS
    <2>1. response.chunks \in Seq(Chunk) /\ chunks \in Seq(Chunk)
      BY ResponseType
    <2>2. chunks = SubSeq(response.chunks, 1, Len(chunks))
      BY <2>1 DEF AnswerInv
    <2> QED
      BY <2>2 DEF AnswerInv, AllOrError
  <1> QED
    BY <1>1, <1>2, NextAnswer, TypeCorrect, ReaderCorrect, PTL DEF Spec
=============================================================================
