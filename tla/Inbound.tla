------------------------------ MODULE Inbound ------------------------------
(***************************************************************************)
(* Requests that the peer opens on us (reqresp/inbound.go).  An Accept     *)
(* registers a stream handler for its protocol, waits for the first        *)
(* request, error or timeout, and removes the handler.  The host runs the  *)
(* handler in a goroutine per stream, and these goroutines go on after the *)
(* call has returned.  Several calls may be under way, of one protocol or  *)
(* of several.                                                             *)
(*                                                                         *)
(* Payloads are left out: of a request body we keep the length it claims   *)
(* and how much of it the peer has sent.                                   *)
(***************************************************************************)
EXTENDS Naturals, FiniteSets

CONSTANTS Accepts,     \* the calls of Accept
          AcceptSets,  \* what they ask for: functions from Accepts to Options
          MaxStreams,  \* bound: streams the peer opens
          Protocols,   \* the protocols they are about
          MaxPayload,  \* MaxPayloadSize, the hard ceiling
          NoCall       \* not a call

Options == [proto : Protocols, noBody : BOOLEAN]

ASSUME InboundAssumption ==
  /\ MaxPayload \in Nat \ {0} /\ MaxStreams \in Nat
  /\ NoCall \notin Accepts
  /\ AcceptSets \subseteq [Accepts -> Options]

Streams == 1..MaxStreams  \* in the order the peer opens them

VARIABLES
  handler,   \* handler[p]: the call whose handler the host runs for p
  accept,    \* accept[a]: protocol, options, where the call is, what it returned
  requests,  \* requests[a]: the channel of one InboundRequest, as a set
  errorsCh,  \* errorsCh[a]: the channel of one error is full
  waitDone,  \* waitDone[a]: waitCtx is done
  stream     \* stream[s]: see StreamRec

inboundVars == <<handler, accept, requests, errorsCh, waitDone, stream>>

AcceptRec == [pc : {"Idle", "Register", "Select", "Remove", "Returned"}, proto : Protocols,
              noBody : BOOLEAN, max : 0..MaxPayload,
              out : {"None", "Refused", "Request", "ReadError", "Timeout"}, got : 0..MaxStreams]

\* by: the call whose handler serves the stream; pc: its goroutine; len and sent:
\* the body; cut: the peer has ended the stream or its deadline has passed while
\* the body is read; end: how our side ended it.
StreamRec == [by : Accepts \cup {NoCall}, pc : {"None", "Read", "Post", "PostError", "Done"},
              len : 0..MaxPayload + 1, sent : {"Nothing", "Prefix", "Whole"},
              cut : BOOLEAN, end : {"Open", "Closed", "Reset"}]

\* The calls that may be made.
AcceptInits ==
  {[a \in Accepts |-> [pc |-> "Idle", proto |-> f[a].proto, noBody |-> f[a].noBody,
                       max |-> MaxPayload, out |-> "None", got |-> 0]] : f \in AcceptSets}

InboundInit(inits) ==
  /\ handler = [p \in Protocols |-> NoCall]
  /\ accept \in inits
  /\ requests = [a \in Accepts |-> {}]
  /\ errorsCh = [a \in Accepts |-> FALSE]
  /\ waitDone = [a \in Accepts |-> FALSE]
  /\ stream = [s \in Streams |-> [by |-> NoCall, pc |-> "None", len |-> 0, sent |-> "Nothing",
                                  cut |-> FALSE, end |-> "Open"]]
-----------------------------------------------------------------------------
(* Accept.                                                                 *)

\* The checks: no session, no protocol, or a limit above the hard ceiling.
AcceptRefused(a) ==
  /\ accept[a].pc = "Idle"
  /\ accept' = [accept EXCEPT ![a].pc = "Returned", ![a].out = "Refused"]
  /\ UNCHANGED <<handler, requests, errorsCh, waitDone, stream>>

\* From here on waitCtx runs; a limit of zero is the hard ceiling.
AcceptBegins(a) ==
  /\ accept[a].pc = "Idle"
  /\ \E max \in 1..MaxPayload :
       accept' = [accept EXCEPT ![a].pc = "Register", ![a].max = max]
  /\ UNCHANGED <<handler, requests, errorsCh, waitDone, stream>>

\* SetStreamHandler replaces the handler of any other call.
SetStreamHandler(a) ==
  /\ accept[a].pc = "Register"
  /\ handler' = [handler EXCEPT ![accept[a].proto] = a]
  /\ accept' = [accept EXCEPT ![a].pc = "Select"]
  /\ UNCHANGED <<requests, errorsCh, waitDone, stream>>

\* The select: of several ready cases any one is taken.
TakeRequest(a) ==
  /\ accept[a].pc = "Select"
  /\ \E s \in requests[a] :
       /\ accept' = [accept EXCEPT ![a].pc = "Remove", ![a].out = "Request", ![a].got = s]
       /\ requests' = [requests EXCEPT ![a] = @ \ {s}]
  /\ UNCHANGED <<handler, errorsCh, waitDone, stream>>

TakeError(a) ==
  /\ accept[a].pc = "Select" /\ errorsCh[a]
  /\ accept' = [accept EXCEPT ![a].pc = "Remove", ![a].out = "ReadError"]
  /\ errorsCh' = [errorsCh EXCEPT ![a] = FALSE]
  /\ UNCHANGED <<handler, requests, waitDone, stream>>

TakeDone(a) ==
  /\ accept[a].pc = "Select" /\ waitDone[a]
  /\ accept' = [accept EXCEPT ![a].pc = "Remove", ![a].out = "Timeout"]
  /\ UNCHANGED <<handler, requests, errorsCh, waitDone, stream>>

\* The deferred RemoveStreamHandler: whichever handler the protocol has.
RemoveStreamHandler(p) == handler' = [handler EXCEPT ![p] = NoCall]

AcceptReturns(a) ==
  /\ accept[a].pc = "Remove"
  /\ RemoveStreamHandler(accept[a].proto)
  /\ accept' = [accept EXCEPT ![a].pc = "Returned"]
  /\ UNCHANGED <<requests, errorsCh, waitDone, stream>>

\* The timer of waitCtx, or the end of the caller's context.
WaitEnds(a) ==
  /\ accept[a].pc \in {"Register", "Select"} /\ ~waitDone[a]
  /\ waitDone' = [waitDone EXCEPT ![a] = TRUE]
  /\ UNCHANGED <<handler, accept, requests, errorsCh, stream>>
-----------------------------------------------------------------------------
(* The stream handler.                                                     *)

\* The peer opens a stream; the goroutine sets the stream's deadline.
OpenStream(s, p) ==
  /\ \A r \in 1..s : stream[r].pc = "None" <=> r = s
  /\ handler[p] # NoCall
  /\ stream' = [stream EXCEPT ![s].by = handler[p],
                  ![s].pc = IF accept[handler[p]].noBody THEN "Post" ELSE "Read"]
  /\ UNCHANGED <<handler, accept, requests, errorsCh, waitDone>>

\* The length prefix, then the rest; what comes later is never read.
PeerSendsBody(s) ==
  /\ stream[s].pc = "Read" /\ ~stream[s].cut
  /\ \/ /\ stream[s].sent = "Nothing"
        /\ \E len \in 0..MaxPayload + 1 :
             stream' = [stream EXCEPT ![s].sent = "Prefix", ![s].len = len]
     \/ /\ stream[s].sent = "Prefix"
        /\ stream' = [stream EXCEPT ![s].sent = "Whole"]
  /\ UNCHANGED <<handler, accept, requests, errorsCh, waitDone>>

\* The peer ends the stream, or the stream's deadline passes.
BodyCut(s) ==
  /\ stream[s].pc = "Read" /\ ~stream[s].cut
  /\ stream' = [stream EXCEPT ![s].cut = TRUE]
  /\ UNCHANGED <<handler, accept, requests, errorsCh, waitDone>>

\* ReadSSZSnappy has what it needs: the prefix, and for a length within the
\* limit the whole body.
bodyRead(s, max) ==
  /\ stream[s].sent # "Nothing" /\ stream[s].len <= max
  /\ stream[s].len > 0 => stream[s].sent = "Whole"

\* A prefix above the limit fails at once; the end of the stream or its
\* deadline fails what is not there yet.
bodyFails(s, max) ==
  \/ stream[s].sent # "Nothing" /\ stream[s].len > max
  \/ ~bodyRead(s, max) /\ stream[s].cut

ReadSSZSnappy(s) ==
  LET read == [stream[s] EXCEPT !.sent = "Nothing", !.cut = FALSE] IN
  /\ stream[s].pc = "Read"
  /\ \/ bodyRead(s, accept[stream[s].by].max)
        /\ stream' = [stream EXCEPT ![s] = [read EXCEPT !.pc = "Post"]]
     \/ bodyFails(s, accept[stream[s].by].max)
        /\ stream' = [stream EXCEPT ![s] = [read EXCEPT !.pc = "PostError", !.end = "Reset"]]
  /\ UNCHANGED <<handler, accept, requests, errorsCh, waitDone>>

\* Only one error is kept; later ones are dropped.
PostError(s) ==
  /\ stream[s].pc = "PostError"
  /\ errorsCh' = [errorsCh EXCEPT ![stream[s].by] = TRUE]
  /\ stream' = [stream EXCEPT ![s].pc = "Done"]
  /\ UNCHANGED <<handler, accept, requests, waitDone>>

\* Mutant: a request that finds the channel full is left as it is.
PostRequestDropped(s) ==
  LET a == stream[s].by IN
  /\ stream[s].pc = "Post"
  /\ requests' = [requests EXCEPT ![a] = IF @ = {} THEN {s} ELSE @]
  /\ stream' = [stream EXCEPT ![s].pc = "Done"]
  /\ UNCHANGED <<handler, accept, errorsCh, waitDone>>

\* The channel holds one request; a request that finds it full is reset.
PostRequest(s) ==
  LET a == stream[s].by IN
  /\ stream[s].pc = "Post"
  /\ \/ requests[a] = {} /\ requests' = [requests EXCEPT ![a] = {s}]
        /\ stream' = [stream EXCEPT ![s].pc = "Done"]
     \/ requests[a] # {} /\ stream' = [stream EXCEPT ![s].pc = "Done", ![s].end = "Reset"]
        /\ UNCHANGED requests
  /\ UNCHANGED <<handler, accept, errorsCh, waitDone>>
-----------------------------------------------------------------------------
(* The request in the caller's hands.                                      *)

Held(s) == \E a \in Accepts : accept[a].pc = "Returned" /\ accept[a].got = s

\* A chunk, or raw bytes: a write that fails resets the stream, perhaps inside
\* a chunk.  It may always fail: the deadline set for the request is still on
\* the stream.  (What is written is left out.)
WriteResponse(s) ==
  /\ Held(s) /\ stream[s].end = "Open"
  /\ UNCHANGED stream \/ stream' = [stream EXCEPT ![s].end = "Reset"]
  /\ UNCHANGED <<handler, accept, requests, errorsCh, waitDone>>

CloseRequest(s) ==
  /\ Held(s) /\ stream[s].end = "Open"
  /\ \E how \in {"Closed", "Reset"} : stream' = [stream EXCEPT ![s].end = how]
  /\ UNCHANGED <<handler, accept, requests, errorsCh, waitDone>>
-----------------------------------------------------------------------------
AcceptStep(a) ==
  SetStreamHandler(a) \/ TakeRequest(a) \/ TakeError(a) \/ TakeDone(a) \/ AcceptReturns(a)

HandlerStep(s) == ReadSSZSnappy(s) \/ PostError(s) \/ PostRequest(s)

InboundNext ==
  \/ \E a \in Accepts : AcceptRefused(a) \/ AcceptBegins(a) \/ AcceptStep(a) \/ WaitEnds(a)
  \/ \E s \in Streams :
       \/ (\E p \in Protocols : OpenStream(s, p))
       \/ PeerSendsBody(s) \/ BodyCut(s)
       \/ HandlerStep(s) \/ WriteResponse(s) \/ CloseRequest(s)

InboundSpec == InboundInit(AcceptInits) /\ [][InboundNext]_inboundVars
-----------------------------------------------------------------------------
(* Properties.                                                             *)

\* Every variable has its type, and a channel holds at most one request.
InboundTypeOK ==
  /\ handler \in [Protocols -> Accepts \cup {NoCall}]
  /\ accept \in [Accepts -> AcceptRec]
  /\ requests \in [Accepts -> SUBSET Streams]
  /\ errorsCh \in [Accepts -> BOOLEAN]
  /\ waitDone \in [Accepts -> BOOLEAN]
  /\ stream \in [Streams -> StreamRec]

\* The streams nobody answers for: the handler's goroutine is over, the stream
\* is open, and no call has returned it.
Abandoned(a) ==
  {s \in Streams : /\ stream[s].by = a /\ stream[s].pc = "Done" /\ stream[s].end = "Open"
                   /\ accept[a].got # s}

\* However many streams arrive while calls of Accept register, replace each
\* other's handlers, select, time out and return: the request a call returns
\* came to its own handler, within its limit, and no goroutine will reset it
\* any more; at most one other stream per call is left open, the one in its
\* channel; and no handler outlives its call.
StreamsAccounted ==
  \A a \in Accepts :
    /\ \A s \in Streams : accept[a].got = s =>
         /\ stream[s].by = a /\ stream[s].pc = "Done" /\ s \notin requests[a]
         /\ accept[a].noBody \/ stream[s].len <= accept[a].max
         /\ accept[a].pc = "Remove" => stream[s].end = "Open"
    /\ Abandoned(a) \subseteq requests[a] /\ Cardinality(Abandoned(a)) <= 1
    /\ \A p \in Protocols : handler[p] = a => accept[a].pc \in {"Select", "Remove"}

\* What is under way waits for something that may still come: a body while the
\* stream has time, a request while the call has.
InboundAtRest ==
  /\ \A a \in Accepts : \/ accept[a].pc \in {"Idle", "Returned"}
                        \/ /\ accept[a].pc = "Select" /\ ~waitDone[a]
                           /\ requests[a] = {} /\ ~errorsCh[a]
  /\ \A s \in Streams : \/ stream[s].pc \in {"None", "Done"}
                        \/ stream[s].pc = "Read" /\ ~stream[s].cut
=============================================================================
