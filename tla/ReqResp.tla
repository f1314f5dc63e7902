------------------------------ MODULE ReqResp ------------------------------
(***************************************************************************)
(* A consensus request (reqresp/request.go): Request and RequestChunks     *)
(* connect a libp2p host, complete a Status exchange if they are asked to, *)
(* send one request on a stream of its own and read the response chunks.   *)
(* An attempt that fails before the request goes out may be repeated.      *)
(*                                                                         *)
(* The Status exchange of StatusWarmup is made of the same exchanges as    *)
(* the request itself; phase says which one is under way.  What the peer   *)
(* answers is chosen when the request is written: the chunks it ends, good *)
(* or not, and what follows the last of them.  A timeout may end any step. *)
(***************************************************************************)
EXTENDS Naturals, Sequences

CONSTANTS Calls,        \* calls: their options, with 0 for a limit left out
          Responses,    \* what a peer may answer
          MaxAttempts,  \* consensusRequestAttempts (3 in the code)
          HardPayload,  \* MaxPayloadSize
          HardTotal,    \* MaxTotalResponseSize
          HardChunks    \* MaxResponseChunks

Codes == {"Success", "Failure"}

\* What the snappy blocks of a chunk yield: its payload, an error, or nothing
\* (padding, say) up to the limit on the compressed length.  A chunk of length
\* zero has no blocks.
Bodies == {"Data", "Corrupt", "NoData"}
Chunk == [code : Codes, len : Nat, body : Bodies]

\* What follows the last chunk: nothing, a chunk that breaks off where a read
\* finds no byte at all (before the context, in the length prefix, before the
\* first snappy block), or one that breaks off inside a field.
Tails == {"Nothing", "BreaksBetween", "BreaksInside"}

\* How the peer ends the stream.
Ends == {"Close", "Reset", "Silence"}

ASSUME ReqRespAssumption ==
  /\ MaxAttempts \in Nat \ {0}
  /\ HardPayload \in Nat \ {0} /\ HardTotal \in Nat \ {0} /\ HardChunks \in Nat \ {0}
  /\ Calls \subseteq [handshake : BOOLEAN, all : BOOLEAN, skip : BOOLEAN,
                      payload : Nat, total : Nat, chunks : Nat]
  /\ Responses \subseteq [chunks : Seq(Chunk), tail : Tails, end : Ends]
  /\ Responses # {}

Attempts == 1..MaxAttempts
NoResponse == [chunks |-> << >>, tail |-> "Nothing", end |-> "Silence"]

VARIABLES
  call,           \* the call being made
  ctxDone,        \* its context is done
  pc,             \* where the calling goroutine is
  attempt,        \* the attempt it is in
  phase,          \* the exchange under way: "V2", "V1" or "Main"
  host,           \* host[a]: the libp2p host of attempt a
  stream,         \* the stream of the exchange
  sendAttempted,  \* sendAttempted
  written,        \* history: attempts whose request reached the stream
  warm,           \* history: attempts whose peer answered a Status with Success
  response,       \* what the peer answers in this exchange
  chunks,         \* chunks decoded in this exchange
  total,          \* ResponseReader.total
  result          \* what the call returned

vars == <<call, ctxDone, pc, attempt, phase, host, stream, sendAttempted, written,
          warm, response, chunks, total, result>>
readerVars == <<response, chunks, total>>

Init ==
  /\ call \in Calls
  /\ ctxDone = FALSE
  /\ pc = "Session"
  /\ attempt = 1
  /\ phase = "Main"
  /\ host = [a \in Attempts |-> "None"]
  /\ stream = "None"
  /\ sendAttempted = FALSE
  /\ written = {}
  /\ warm = {}
  /\ response = NoResponse
  /\ chunks = << >>
  /\ total = 0
  /\ result = "None"

\* The limits of an exchange: StatusWarmup leaves them all to their defaults.
maxPayload == IF phase # "Main" \/ call.payload = 0 THEN HardPayload ELSE call.payload
maxTotal   == IF phase # "Main" \/ call.total = 0 THEN HardTotal ELSE call.total
maxChunks  == IF phase # "Main" \/ call.chunks = 0 THEN HardChunks ELSE call.chunks
readAll    == phase = "Main" /\ call.all

Cancel ==
  /\ ~ctxDone
  /\ ctxDone' = TRUE
  /\ UNCHANGED <<call, pc, attempt, phase, host, stream, sendAttempted, written, warm,
                 readerVars, result>>
-----------------------------------------------------------------------------
(* Attempts.                                                               *)

\* Mutant: only the kind of the error decides.
retryableAnyway(retryable) == attempt < MaxAttempts /\ retryable

\* Mutant: the last attempt is not told from the others.
retryableForever(retryable) == ~sendAttempted /\ retryable

\* retryableConsensusConnectError looks at the text of the error, here a choice.
mayRetry(retryable) == ~sendAttempted /\ attempt < MaxAttempts /\ retryable

Return(outcome) == pc' = "Returned" /\ result' = outcome

\* NewSession failed: nothing was sent, so sendAttempted plays no part.
SessionError(retryable) ==
  \/ attempt < MaxAttempts /\ retryable /\ pc' = "Sleep" /\ UNCHANGED result
  \/ ~(attempt < MaxAttempts /\ retryable) /\ Return("Error")

closeSession == host' = [host EXCEPT ![attempt] = "Closed"]

\* NewSessionWithIdentity fails before there is a host, or closes it again.
SessionFails(retryable) ==
  /\ pc = "Session"
  /\ SessionError(retryable)
  /\ UNCHANGED <<call, ctxDone, attempt, phase, host, stream, sendAttempted, written,
                 warm, readerVars>>

HostUp ==
  /\ pc = "Session"
  /\ host' = [host EXCEPT ![attempt] = "Open"]
  /\ pc' = "Connect"
  /\ UNCHANGED <<call, ctxDone, attempt, phase, stream, sendAttempted, written, warm,
                 readerVars, result>>

Connected ==
  /\ pc = "Connect"
  /\ pc' = IF call.handshake THEN "Warmup" ELSE "Open"
  /\ UNCHANGED <<call, ctxDone, attempt, phase, host, stream, sendAttempted, written,
                 warm, readerVars, result>>

\* Mutant: the host of a failed connection stays.
ConnectFailsOpen ==
  /\ pc = "Connect"
  /\ SessionError(TRUE)
  /\ UNCHANGED <<call, ctxDone, attempt, phase, host, stream, sendAttempted, written,
                 warm, readerVars>>

\* "connect consensus peer" is a retryable error.
ConnectFails ==
  /\ pc = "Connect"
  /\ closeSession
  /\ SessionError(TRUE)
  /\ UNCHANGED <<call, ctxDone, attempt, phase, stream, sendAttempted, written, warm,
                 readerVars>>

\* Mutant: the attempt is not counted.
SleepOverUncounted ==
  /\ pc = "Sleep"
  /\ pc' = "Session"
  /\ phase' = "Main"
  /\ UNCHANGED <<call, ctxDone, attempt, host, stream, sendAttempted, written, warm,
                 readerVars, result>>

\* consensusRetrySleep.
SleepOver ==
  /\ pc = "Sleep"
  /\ attempt' = attempt + 1
  /\ pc' = "Session"
  /\ phase' = "Main"
  /\ UNCHANGED <<call, ctxDone, host, stream, sendAttempted, written, warm, readerVars,
                 result>>

SleepCancelled ==
  /\ pc = "Sleep"
  /\ ctxDone
  /\ Return("Error")
  /\ UNCHANGED <<call, ctxDone, attempt, phase, host, stream, sendAttempted, written,
                 warm, readerVars>>
-----------------------------------------------------------------------------
(* One exchange: Session.request.                                          *)

\* BeaconStatus has the bodies for the two Status exchanges.
StatusReady ==
  /\ pc = "Warmup"
  /\ phase' = "V2"
  /\ pc' = "Open"
  /\ UNCHANGED <<call, ctxDone, attempt, host, stream, sendAttempted, written, warm,
                 readerVars, result>>

StatusFails ==
  /\ pc = "Warmup"
  /\ closeSession
  /\ Return("Error")
  /\ UNCHANGED <<call, ctxDone, attempt, phase, stream, sendAttempted, written, warm,
                 readerVars>>

\* Mutant: any answer will do.
warmedUpByAny(outcome) == outcome = "Ok"

\* StatusWarmup is content with a Success only.
warmedUp(outcome) == outcome = "Ok" /\ chunks'[1].code = "Success"

\* The exchange is over: what StatusWarmup, Request and RequestChunks do next.
Over(outcome, retryable) ==
  /\ stream' = IF stream = "Open" THEN "Closed" ELSE stream
  /\ \/ /\ phase # "Main" /\ warmedUp(outcome)
        /\ phase' = "Main" /\ pc' = "Open"
        /\ UNCHANGED <<host, result>>
     \/ /\ phase = "V2" /\ ~warmedUp(outcome)
        /\ phase' = "V1" /\ pc' = "Open"
        /\ UNCHANGED <<host, result>>
     \/ /\ phase = "V1" /\ ~warmedUp(outcome)
        /\ closeSession
        /\ Return("Error")
        /\ UNCHANGED phase
     \/ /\ phase = "Main" /\ outcome # "Ok" /\ mayRetry(retryable)
        /\ closeSession
        /\ pc' = "Sleep"
        /\ UNCHANGED <<phase, result>>
     \/ /\ phase = "Main" /\ ~(outcome # "Ok" /\ mayRetry(retryable))
        /\ closeSession
        /\ Return(outcome)
        /\ UNCHANGED phase

\* NewStream, with its deadline.
OpenStream ==
  /\ pc = "Open"
  /\ stream' = "Open"
  /\ pc' = IF phase = "Main" THEN "BeforeSend" ELSE "Write"
  /\ response' = NoResponse
  /\ chunks' = << >>
  /\ total' = 0
  /\ UNCHANGED <<call, ctxDone, attempt, phase, host, sendAttempted, written, warm,
                 result>>

OpenStreamFails(retryable) ==
  /\ pc = "Open"
  /\ response' = NoResponse
  /\ chunks' = << >>
  /\ total' = 0
  /\ Over("Error", retryable)
  /\ UNCHANGED <<call, ctxDone, attempt, sendAttempted, written, warm>>

\* The wrapped BeforeSend: the caller's hook, then the mark.
BeforeSend ==
  /\ pc = "BeforeSend"
  /\ sendAttempted' = TRUE
  /\ pc' = "Write"
  /\ UNCHANGED <<call, ctxDone, attempt, phase, host, stream, written, warm, readerVars,
                 result>>

BeforeSendFails(retryable) ==
  /\ pc = "BeforeSend"
  /\ Over("Error", retryable)
  /\ UNCHANGED <<call, ctxDone, attempt, sendAttempted, written, warm, readerVars>>

\* The body, or only the end of the write side, is on its way.
Write(answer) ==
  /\ pc = "Write"
  /\ written' = IF phase = "Main" THEN written \cup {attempt} ELSE written
  /\ response' = answer
  /\ pc' = "CloseWrite"
  /\ UNCHANGED <<call, ctxDone, attempt, phase, host, stream, sendAttempted, warm,
                 chunks, total, result>>

\* A write that fails may have sent a part of the body.
WriteFails(retryable) ==
  /\ pc = "Write"
  /\ written' = IF phase = "Main" THEN written \cup {attempt} ELSE written
  /\ Over("Error", retryable)
  /\ UNCHANGED <<call, ctxDone, attempt, sendAttempted, warm, readerVars>>

\* NewResponseReader refuses limits above the hard ones, after the request
\* has been sent.
ValidLimits ==
  /\ maxPayload <= HardPayload
  /\ maxTotal <= HardTotal
  /\ maxChunks <= HardChunks

CloseWrite ==
  /\ pc = "CloseWrite"
  /\ ~(phase = "Main" /\ call.skip)
  /\ ValidLimits
  /\ pc' = "Read"
  /\ UNCHANGED <<call, ctxDone, attempt, phase, host, stream, sendAttempted, written,
                 warm, readerVars, result>>

CloseWriteFails(retryable) ==
  /\ pc = "CloseWrite"
  /\ Over("Error", retryable)
  /\ UNCHANGED <<call, ctxDone, attempt, sendAttempted, written, warm, readerVars>>

SkipResponse ==
  /\ pc = "CloseWrite"
  /\ phase = "Main" /\ call.skip
  /\ Over("Ok", FALSE)
  /\ UNCHANGED <<call, ctxDone, attempt, sendAttempted, written, warm, readerVars>>

\* ResponseReader.Next.
Left == SubSeq(response.chunks, Len(chunks) + 1, Len(response.chunks))

\* Mutant: each chunk is compared with the whole allowance.
fitsAlone(c) == c.len <= maxPayload /\ c.len <= maxTotal

fits(c) == c.len <= maxPayload /\ c.len <= maxTotal - total

decodes(c) == c.len = 0 \/ c.body = "Data"
noData(c) == c.len > 0 /\ c.body = "NoData"

\* Mutant: the ceiling on chunks is taken for the end of the stream.
atEOFCeiling ==
  \/ Len(chunks) = maxChunks
  \/ Left = << >> /\ response.end = "Close" /\ response.tail = "Nothing"

\* errors.Is(err, io.EOF): the stream is closed at the end of a chunk or where
\* the next read finds no byte, or the LimitReader of a chunk is exhausted
\* before its first byte of payload, whatever follows it on the stream.  At the
\* ceiling Peek tells the first from the others.
atEOF ==
  \/ /\ Left = << >> /\ response.end = "Close"
     /\ \/ response.tail = "Nothing"
        \/ response.tail = "BreaksBetween" /\ Len(chunks) < maxChunks
  \/ /\ Left # << >> /\ Len(chunks) < maxChunks
     /\ noData(Head(Left)) /\ fits(Head(Left))

NextChunk(c) ==
  /\ pc = "Read"
  /\ Len(chunks) < maxChunks
  /\ Left # << >>
  /\ c = Head(Left)
  /\ decodes(c)
  /\ fits(c)
  /\ chunks' = Append(chunks, c)
  /\ total' = total + c.len
  /\ warm' = IF phase # "Main" /\ c.code = "Success" THEN warm \cup {attempt} ELSE warm
  /\ \/ /\ readAll /\ c.code = "Success"
        /\ UNCHANGED <<pc, phase, host, stream, result>>
     \/ /\ ~(readAll /\ c.code = "Success")
        /\ Over("Ok", FALSE)
  /\ UNCHANGED <<call, ctxDone, attempt, sendAttempted, written, response>>

NextEOF ==
  /\ pc = "Read"
  /\ atEOF
  /\ Over(IF chunks = << >> THEN "Empty" ELSE "Ok", FALSE)
  /\ UNCHANGED <<call, ctxDone, attempt, sendAttempted, written, warm, readerVars>>

\* The deadline, a reset, a chunk that breaks off or does not decode, a ceiling.
NextFails(retryable) ==
  /\ pc = "Read"
  /\ Over("Error", retryable)
  /\ UNCHANGED <<call, ctxDone, attempt, sendAttempted, written, warm, readerVars>>
-----------------------------------------------------------------------------
Step ==
  \/ HostUp \/ Connected \/ ConnectFails \/ SleepOver \/ SleepCancelled
  \/ StatusReady \/ StatusFails
  \/ OpenStream \/ BeforeSend \/ CloseWrite \/ SkipResponse \/ NextEOF
  \/ \E answer \in Responses : Write(answer)
  \/ \E c \in {Left[i] : i \in DOMAIN Left} : NextChunk(c)
  \/ \E retryable \in BOOLEAN :
       \/ SessionFails(retryable) \/ OpenStreamFails(retryable)
       \/ BeforeSendFails(retryable) \/ WriteFails(retryable)
       \/ CloseWriteFails(retryable) \/ NextFails(retryable)

Next == Step \/ Cancel

Spec == Init /\ [][Next]_vars

\* The calling goroutine runs, and every operation on the network is bounded
\* by a timeout: connecting, opening a stream, the stream's own deadline.
FairSpec == Spec /\ WF_vars(Step)
-----------------------------------------------------------------------------
(* Properties.                                                             *)

Steps == {"Session", "Connect", "Warmup", "Open", "BeforeSend", "Write",
          "CloseWrite", "Read", "Sleep", "Returned"}

\* Types of the call, its hosts, its stream and its reader.
TypeOK ==
  /\ call \in Calls
  /\ ctxDone \in BOOLEAN
  /\ pc \in Steps
  /\ attempt \in Attempts
  /\ phase \in {"V2", "V1", "Main"}
  /\ host \in [Attempts -> {"None", "Open", "Closed"}]
  /\ stream \in {"None", "Open", "Closed"}
  /\ sendAttempted \in BOOLEAN
  /\ written \subseteq Attempts
  /\ warm \subseteq Attempts
  /\ response \in Responses \cup {NoResponse}
  /\ chunks \in Seq(Chunk)
  /\ total \in Nat
  /\ result \in {"None", "Ok", "Empty", "Error"}

\* The peer sees the request on one stream at most, however the attempts fail:
\* a request may not be safe to repeat (Request, RequestChunks).
SentOnce == \A a, b \in written : a = b

\* A call that has returned leaves neither host nor stream behind, and no host
\* outlives its attempt.
NothingLeft ==
  /\ pc = "Returned" => stream # "Open" /\ \A a \in Attempts : host[a] # "Open"
  /\ \A a \in Attempts : a # attempt => host[a] # "Open"

\* With Handshake the request goes out only on a session whose peer has
\* answered a Status with Success.
WarmBeforeRequest == call.handshake => written \subseteq warm

\* What is kept of a response stays within the ceilings of its exchange and
\* below the hard ones, whatever the peer sends and the caller asks for.
WithinCeilings ==
  pc \in {"Read", "Returned"} =>
    /\ Len(chunks) <= maxChunks /\ Len(chunks) <= HardChunks
    /\ total <= maxTotal /\ total <= HardTotal
    /\ \A i \in 1..Len(chunks) :
         chunks[i].len <= maxPayload /\ chunks[i].len <= HardPayload

\* The chunk that follows the ones kept has no data in its blocks.
StopsAtNoData ==
  Len(chunks) < Len(response.chunks) /\ noData(response.chunks[Len(chunks) + 1])

\* A multi-chunk answer that is returned without an error holds every chunk of
\* the peer's up to the first that reports a failure, or else up to one whose
\* blocks hold no data, which Next takes for the end (see TruncatedIsAnError):
\* no ceiling, timeout or decoding error passes for the end of the response.
AllOrError ==
  (result = "Ok" /\ call.all /\ ~call.skip) =>
    /\ chunks = SubSeq(response.chunks, 1, Len(chunks))
    /\ \/ Len(chunks) = Len(response.chunks)
       \/ chunks # << >> /\ chunks[Len(chunks)].code = "Failure"
       \/ StopsAtNoData

\* Every call returns, whatever the peer does.
CallReturns == <>(pc = "Returned")

\* "Next returns the next response chunk or io.EOF after a clean stream end"
\* (reqresp/framing.go:133): a response that breaks off in the middle of a
\* chunk, or that goes on after a chunk without data, is not returned as a
\* complete one.
TruncatedIsAnError ==
  (result = "Ok" /\ call.all /\ ~call.skip
     /\ \A i \in 1..Len(chunks) : chunks[i].code = "Success")
  => Len(chunks) = Len(response.chunks) /\ response.tail = "Nothing"
=============================================================================
