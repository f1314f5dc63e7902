--------------------------- MODULE ServicesProofs ---------------------------
(***************************************************************************)
(* Proofs about the components gathered in Services, for any calls,        *)
(* streams, networks, frames and graphs.                                   *)
(***************************************************************************)
EXTENDS Services, PublisherProofs, FiniteSetTheorems, NaturalsInduction, TLAPS

USE InboundAssumption DEF InboundAssumption
-----------------------------------------------------------------------------
(* Inbound requests.                                                       *)

\* The request of s is one that the call a may return.
Fits(s, a) == accept[a].noBody \/ stream[s].len <= accept[a].max

\* A handler is registered for its call's own protocol, while the call is
\* under way.
HandlerInv ==
  \A p \in Protocols : handler[p] # NoCall =>
    accept[handler[p]].proto = p /\ accept[handler[p]].pc \in {"Select", "Remove"}

\* A stream belongs to a call that has fixed its limit; it is open until it is
\* reset or handed on, and what is handed on fits.
StreamInv(s) ==
  /\ stream[s].pc = "None" => stream[s].by = NoCall
  /\ stream[s].pc # "None" =>
       stream[s].by \in Accepts /\ accept[stream[s].by].pc \notin {"Idle", "Register"}
  /\ stream[s].pc \in {"None", "Read", "Post"} => stream[s].end = "Open"
  /\ stream[s].pc = "PostError" => stream[s].end = "Reset"
  /\ stream[s].pc = "Post" => Fits(s, stream[s].by)

\* What is in the channel of a call, and what the call has taken from it.
ChannelInv(a) ==
  /\ \A s, r \in requests[a] : s = r
  /\ \A s \in requests[a] :
       stream[s].by = a /\ stream[s].pc = "Done" /\ stream[s].end = "Open" /\ Fits(s, a)
  /\ accept[a].pc \in {"Idle", "Register", "Select"} => accept[a].got = 0
  /\ \A s \in Streams : accept[a].got = s =>
       /\ stream[s].by = a /\ stream[s].pc = "Done" /\ s \notin requests[a] /\ Fits(s, a)
       /\ accept[a].pc = "Remove" => stream[s].end = "Open"
  /\ \A s \in Streams :
       (stream[s].by = a /\ stream[s].pc = "Done" /\ stream[s].end = "Open" /\ accept[a].got # s)
         => s \in requests[a]

InboundInv ==
  /\ InboundTypeOK /\ HandlerInv
  /\ \A s \in Streams : StreamInv(s)
  /\ \A a \in Accepts : ChannelInv(a)

LEMMA InboundInvInit == InboundInit(AcceptInits) => InboundInv
<1> SUFFICES ASSUME InboundInit(AcceptInits) PROVE InboundInv
  OBVIOUS
<1>1. accept \in [Accepts -> AcceptRec] /\ \A a \in Accepts : accept[a].pc = "Idle" /\ accept[a].got = 0
  <2>1. PICK f \in AcceptSets :
          accept = [a \in Accepts |-> [pc |-> "Idle", proto |-> f[a].proto, noBody |-> f[a].noBody,
                                       max |-> MaxPayload, out |-> "None", got |-> 0]]
    BY DEF InboundInit, AcceptInits
  <2>2. \A a \in Accepts : f[a].proto \in Protocols /\ f[a].noBody \in BOOLEAN
    BY DEF Options
  <2> QED
    BY <2>1, <2>2 DEF AcceptRec
<1>2. /\ stream \in [Streams -> StreamRec]
      /\ \A s \in Streams : stream[s].pc = "None" /\ stream[s].by = NoCall /\ stream[s].end = "Open"
  BY DEF InboundInit, StreamRec
<1>3. InboundTypeOK
  BY <1>1, <1>2 DEF InboundInit, InboundTypeOK
<1>4. HandlerInv
  BY DEF InboundInit, HandlerInv
<1>5. ASSUME NEW s \in Streams PROVE StreamInv(s)
  BY <1>2 DEF StreamInv
<1>6. ASSUME NEW a \in Accepts PROVE ChannelInv(a)
  <2>1. requests[a] = {} /\ accept[a].got = 0
    BY <1>1 DEF InboundInit
  <2> QED
    BY <1>2, <2>1 DEF ChannelInv, Streams
<1> QED
  BY <1>3, <1>4, <1>5, <1>6 DEF InboundInv

LEMMA AcceptUpdate ==
  ASSUME InboundTypeOK, NEW a \in Accepts, NEW r \in AcceptRec, accept' = [accept EXCEPT ![a] = r]
  PROVE  /\ accept' \in [Accepts -> AcceptRec] /\ accept'[a] = r
         /\ \A b \in Accepts \ {a} : accept'[b] = accept[b]
BY DEF InboundTypeOK

LEMMA StreamUpdate ==
  ASSUME InboundTypeOK, NEW s \in Streams, NEW r \in StreamRec, stream' = [stream EXCEPT ![s] = r]
  PROVE  /\ stream' \in [Streams -> StreamRec] /\ stream'[s] = r
         /\ \A t \in Streams \ {s} : stream'[t] = stream[t]
BY DEF InboundTypeOK

\* A step of a call that takes nothing from its channel.
LEMMA CallMoves ==
  ASSUME InboundInv, NEW a \in Accepts, NEW r \in AcceptRec, accept' = [accept EXCEPT ![a] = r],
         UNCHANGED <<requests, stream>>,
         errorsCh' \in [Accepts -> BOOLEAN], waitDone' = waitDone,
         handler' \in [Protocols -> Accepts \cup {NoCall}], HandlerInv',
         r.noBody = accept[a].noBody, r.got = accept[a].got,
         r.max = accept[a].max \/ accept[a].pc = "Idle",
         accept[a].pc \notin {"Idle", "Register"} => r.pc \notin {"Idle", "Register"},
         r.pc \in {"Idle", "Register", "Select"} => accept[a].pc \in {"Idle", "Register"},
         r.pc = "Remove" => accept[a].pc = "Select"
  PROVE  InboundInv'
<1>1. /\ accept' \in [Accepts -> AcceptRec] /\ accept'[a] = r
      /\ \A b \in Accepts \ {a} : accept'[b] = accept[b]
  BY AcceptUpdate DEF InboundInv
<1>2. InboundTypeOK'
  BY <1>1 DEF InboundInv, InboundTypeOK
<1>3. \A t \in Streams : stream[t].by = a => Fits(t, a)' = Fits(t, a)
  <2> SUFFICES ASSUME NEW t \in Streams, stream[t].by = a PROVE Fits(t, a)' = Fits(t, a)
    OBVIOUS
  <2>1. stream[t].pc # "None" /\ accept[a].pc # "Idle"
    BY DEF InboundInv, StreamInv
  <2> QED
    BY <1>1, <2>1 DEF Fits
<1>4. ASSUME NEW s \in Streams PROVE StreamInv(s)'
  <2>1. stream[s].by \in Accepts => Fits(s, stream[s].by)' = Fits(s, stream[s].by)
    BY <1>1, <1>3 DEF Fits
  <2> QED
    BY <1>1, <2>1 DEF InboundInv, StreamInv
<1>5. ASSUME NEW b \in Accepts \ {a} PROVE ChannelInv(b)'
  <2>1. \A s \in Streams : Fits(s, b)' = Fits(s, b)
    BY <1>1 DEF Fits
  <2>2. requests[b] \subseteq Streams
    BY DEF InboundInv, InboundTypeOK
  <2> QED
    BY <1>1, <2>1, <2>2 DEF InboundInv, ChannelInv
<1>6. ChannelInv(a)'
  <2>1. requests[a] \subseteq Streams
    BY DEF InboundInv, InboundTypeOK
  <2>2. accept'[a].got = accept[a].got /\ (accept[a].pc \in {"Idle", "Register", "Select"} => accept[a].got = 0)
    BY <1>1 DEF InboundInv, ChannelInv
  <2>3. \A s \in Streams : s # 0
    BY DEF Streams
  <2> QED
    BY <1>1, <1>3, <2>1, <2>2, <2>3 DEF InboundInv, ChannelInv
<1> QED
  BY <1>2, <1>4, <1>5, <1>6 DEF InboundInv

\* A stream whose goroutine is still running is in no channel and in no hands.
LEMMA NotDone ==
  ASSUME InboundInv, NEW s \in Streams, stream[s].pc # "Done"
  PROVE  \A a \in Accepts : s \notin requests[a] /\ accept[a].got # s
BY DEF InboundInv, ChannelInv

\* A step of a goroutine that hands nothing on.
LEMMA GoroutineMoves ==
  ASSUME InboundInv, NEW s \in Streams, NEW r \in StreamRec, stream[s].pc # "Done",
         stream' = [stream EXCEPT ![s] = r],
         UNCHANGED <<handler, accept, requests, waitDone>>, errorsCh' \in [Accepts -> BOOLEAN],
         r.pc # "None", r.by \in Accepts, accept[r.by].pc \notin {"Idle", "Register"},
         r.pc \in {"Read", "Post"} => r.end = "Open",
         r.pc \in {"PostError", "Done"} => r.end = "Reset",
         r.pc = "Post" => accept[r.by].noBody \/ r.len <= accept[r.by].max
  PROVE  InboundInv'
<1>1. /\ stream' \in [Streams -> StreamRec] /\ stream'[s] = r
      /\ \A t \in Streams \ {s} : stream'[t] = stream[t]
  BY StreamUpdate DEF InboundInv
<1>2. InboundTypeOK'
  BY <1>1 DEF InboundInv, InboundTypeOK
<1>3. HandlerInv'
  BY DEF InboundInv, HandlerInv
<1>4. \A t \in Streams \ {s}, a \in Accepts : Fits(t, a)' = Fits(t, a)
  BY <1>1 DEF Fits
<1>5. ASSUME NEW t \in Streams PROVE StreamInv(t)'
  <2>1. CASE t = s
    BY <1>1, <2>1 DEF StreamInv, Fits
  <2>2. CASE t # s
    BY <1>1, <1>4, <2>2 DEF InboundInv, StreamInv
  <2> QED
    BY <2>1, <2>2
<1>6. ASSUME NEW a \in Accepts PROVE ChannelInv(a)'
  <2>1. s \notin requests[a] /\ accept[a].got # s /\ requests[a] \subseteq Streams
    BY NotDone DEF InboundInv, InboundTypeOK
  <2>2. ~(stream'[s].pc = "Done" /\ stream'[s].end = "Open")
    BY <1>1
  <2> QED
    BY <1>1, <1>4, <2>1, <2>2 DEF InboundInv, ChannelInv
<1> QED
  BY <1>2, <1>3, <1>5, <1>6 DEF InboundInv

LEMMA AcceptStepsInv ==
  ASSUME InboundInv, NEW a \in Accepts,
         \/ AcceptRefused(a) \/ AcceptBegins(a) \/ SetStreamHandler(a)
         \/ TakeError(a) \/ TakeDone(a) \/ AcceptReturns(a)
  PROVE  InboundInv'
<1>0. /\ accept[a] \in AcceptRec /\ accept \in [Accepts -> AcceptRec]
      /\ handler \in [Protocols -> Accepts \cup {NoCall}]
      /\ errorsCh \in [Accepts -> BOOLEAN] /\ accept[a].proto \in Protocols
  BY DEF InboundInv, InboundTypeOK, AcceptRec
<1>1. CASE AcceptRefused(a)
  <2>1. PICK r \in AcceptRec : /\ r = [accept[a] EXCEPT !.pc = "Returned", !.out = "Refused"]
                               /\ accept' = [accept EXCEPT ![a] = r]
    <3>1. [accept[a] EXCEPT !.pc = "Returned", !.out = "Refused"] \in AcceptRec
      BY <1>0 DEF AcceptRec
    <3>2. accept' = [accept EXCEPT ![a] = [accept[a] EXCEPT !.pc = "Returned", !.out = "Refused"]]
      BY <1>0, <1>1 DEF AcceptRefused
    <3> QED
      BY <3>1, <3>2
  <2>2. /\ r.noBody = accept[a].noBody /\ r.got = accept[a].got /\ r.max = accept[a].max
        /\ r.pc = "Returned" /\ accept[a].pc = "Idle"
    BY <1>0, <1>1, <2>1 DEF AcceptRefused, AcceptRec
  <2>3. HandlerInv'
    BY <1>0, <1>1, <2>1, <2>2 DEF InboundInv, HandlerInv, AcceptRefused
  <2>4. /\ UNCHANGED <<requests, stream>> /\ waitDone' = waitDone
        /\ errorsCh' \in [Accepts -> BOOLEAN] /\ handler' \in [Protocols -> Accepts \cup {NoCall}]
    BY <1>1, Zenon DEF AcceptRefused, InboundInv, InboundTypeOK
  <2> QED
    BY <2>1, <2>2, <2>3, <2>4, CallMoves
<1>2. CASE AcceptBegins(a)
  <2>0. PICK max \in 1..MaxPayload : accept' = [accept EXCEPT ![a].pc = "Register", ![a].max = max]
    BY <1>2 DEF AcceptBegins
  <2>1. PICK r \in AcceptRec : /\ r = [accept[a] EXCEPT !.pc = "Register", !.max = max]
                               /\ accept' = [accept EXCEPT ![a] = r]
    <3>0. max \in 0..MaxPayload
      OBVIOUS
    <3>1. [accept[a] EXCEPT !.pc = "Register", !.max = max] \in AcceptRec
      BY <1>0, <3>0 DEF AcceptRec
    <3>2. accept' = [accept EXCEPT ![a] = [accept[a] EXCEPT !.pc = "Register", !.max = max]]
      BY <1>0, <2>0
    <3> QED
      BY <3>1, <3>2
  <2>2. /\ r.noBody = accept[a].noBody /\ r.got = accept[a].got
        /\ r.pc = "Register" /\ accept[a].pc = "Idle"
    BY <1>0, <1>2, <2>1 DEF AcceptBegins, AcceptRec
  <2>3. HandlerInv'
    <3>1. handler' = handler
      BY <1>2 DEF AcceptBegins
    <3> QED
      BY <1>0, <2>1, <2>2, <3>1 DEF InboundInv, HandlerInv
  <2> QED
    BY <1>0, <1>2, <2>1, <2>2, <2>3, CallMoves DEF AcceptBegins
<1>3. CASE SetStreamHandler(a)
  <2>1. PICK r \in AcceptRec : /\ r = [accept[a] EXCEPT !.pc = "Select"]
                               /\ accept' = [accept EXCEPT ![a] = r]
    BY <1>0, <1>3 DEF SetStreamHandler, AcceptRec
  <2>2. /\ r.noBody = accept[a].noBody /\ r.got = accept[a].got /\ r.max = accept[a].max
        /\ r.pc = "Select" /\ accept[a].pc = "Register" /\ r.proto = accept[a].proto
    BY <1>0, <1>3, <2>1 DEF SetStreamHandler, AcceptRec
  <2>3. HandlerInv'
    BY <1>0, <1>3, <2>1, <2>2 DEF InboundInv, HandlerInv, SetStreamHandler
  <2> QED
    BY <1>0, <1>3, <2>1, <2>2, <2>3, CallMoves DEF SetStreamHandler
<1>4. CASE TakeError(a) \/ TakeDone(a)
  <2>0. PICK out \in {"ReadError", "Timeout"} :
          accept' = [accept EXCEPT ![a].pc = "Remove", ![a].out = out]
    BY <1>4, Zenon DEF TakeError, TakeDone
  <2>1. PICK r \in AcceptRec : /\ r = [accept[a] EXCEPT !.pc = "Remove", !.out = out]
                               /\ accept' = [accept EXCEPT ![a] = r]
    <3>1. [accept[a] EXCEPT !.pc = "Remove", !.out = out] \in AcceptRec
      BY <1>0 DEF AcceptRec
    <3> QED
      BY <2>0, <3>1
  <2>2. /\ r.noBody = accept[a].noBody /\ r.got = accept[a].got /\ r.max = accept[a].max
        /\ r.pc = "Remove" /\ accept[a].pc = "Select" /\ r.proto = accept[a].proto
    BY <1>0, <1>4, <2>1 DEF TakeError, TakeDone, AcceptRec
  <2>3. HandlerInv'
    BY <1>0, <1>4, <2>1, <2>2 DEF InboundInv, HandlerInv, TakeError, TakeDone
  <2>4. errorsCh' \in [Accepts -> BOOLEAN]
    BY <1>0, <1>4, Zenon DEF TakeError, TakeDone
  <2>5. UNCHANGED <<handler, requests, waitDone, stream>>
    BY <1>4 DEF TakeError, TakeDone
  <2> QED
    BY <1>0, <2>1, <2>2, <2>3, <2>4, <2>5, CallMoves
<1>5. CASE AcceptReturns(a)
  <2>1. PICK r \in AcceptRec : /\ r = [accept[a] EXCEPT !.pc = "Returned"]
                               /\ accept' = [accept EXCEPT ![a] = r]
    BY <1>0, <1>5 DEF AcceptReturns, AcceptRec
  <2>2. /\ r.noBody = accept[a].noBody /\ r.got = accept[a].got /\ r.max = accept[a].max
        /\ r.pc = "Returned" /\ accept[a].pc = "Remove" /\ r.proto = accept[a].proto
    BY <1>0, <1>5, <2>1 DEF AcceptReturns, AcceptRec
  <2>3. HandlerInv'
    BY <1>0, <1>5, <2>1, <2>2 DEF InboundInv, HandlerInv, AcceptReturns, RemoveStreamHandler
  <2>4. handler' \in [Protocols -> Accepts \cup {NoCall}]
    BY <1>0, <1>5 DEF AcceptReturns, RemoveStreamHandler
  <2> QED
    BY <1>0, <1>5, <2>1, <2>2, <2>3, <2>4, CallMoves DEF AcceptReturns
<1> QED
  BY <1>1, <1>2, <1>3, <1>4, <1>5

LEMMA WaitEndsInv ==
  ASSUME InboundInv, NEW a \in Accepts, WaitEnds(a)
  PROVE  InboundInv'
<1>1. waitDone' \in [Accepts -> BOOLEAN]
  <2>1. waitDone' = [waitDone EXCEPT ![a] = TRUE] /\ waitDone \in [Accepts -> BOOLEAN]
    BY DEF WaitEnds, InboundInv, InboundTypeOK
  <2> QED
    BY <2>1, Zenon
<1>2. UNCHANGED <<handler, accept, requests, errorsCh, stream>>
  BY DEF WaitEnds
<1>3. InboundTypeOK' /\ HandlerInv'
  BY <1>1, <1>2 DEF InboundInv, InboundTypeOK, HandlerInv
<1>4. \A s \in Streams : StreamInv(s)'
  BY <1>2 DEF InboundInv, StreamInv, Fits
<1>5. \A b \in Accepts : ChannelInv(b)'
  BY <1>2 DEF InboundInv, ChannelInv, Fits
<1> QED
  BY <1>3, <1>4, <1>5 DEF InboundInv

\* The request leaves the channel for the caller's hands in one step.
LEMMA TakeRequestInv ==
  ASSUME InboundInv, NEW a \in Accepts, TakeRequest(a)
  PROVE  InboundInv'
<1>0. /\ accept[a] \in AcceptRec /\ accept \in [Accepts -> AcceptRec]
      /\ requests \in [Accepts -> SUBSET Streams] /\ accept[a].pc = "Select"
  BY DEF InboundInv, InboundTypeOK, TakeRequest
<1>1. PICK s \in requests[a] :
        /\ accept' = [accept EXCEPT ![a].pc = "Remove", ![a].out = "Request", ![a].got = s]
        /\ requests' = [requests EXCEPT ![a] = @ \ {s}]
  BY DEF TakeRequest
<1>2. s \in Streams /\ s \in 0..MaxStreams
  BY <1>0 DEF Streams
<1>3. PICK r \in AcceptRec : /\ r = [accept[a] EXCEPT !.pc = "Remove", !.out = "Request", !.got = s]
                             /\ accept' = [accept EXCEPT ![a] = r]
  <2>1. [accept[a] EXCEPT !.pc = "Remove", !.out = "Request", !.got = s] \in AcceptRec
    BY <1>0, <1>2 DEF AcceptRec
  <2>2. accept' = [accept EXCEPT ![a] = [accept[a] EXCEPT !.pc = "Remove", !.out = "Request", !.got = s]]
    BY <1>0, <1>1
  <2> QED
    BY <2>1, <2>2
<1>4. /\ r.noBody = accept[a].noBody /\ r.got = s /\ r.max = accept[a].max
      /\ r.pc = "Remove" /\ r.proto = accept[a].proto
  BY <1>0, <1>3 DEF AcceptRec
<1>5. /\ accept' \in [Accepts -> AcceptRec] /\ accept'[a] = r
      /\ \A b \in Accepts \ {a} : accept'[b] = accept[b]
  BY <1>3, AcceptUpdate DEF InboundInv
<1>6. /\ requests' \in [Accepts -> SUBSET Streams] /\ requests'[a] = {}
      /\ \A b \in Accepts \ {a} : requests'[b] = requests[b]
  BY <1>0, <1>1 DEF InboundInv, ChannelInv
<1>7. UNCHANGED <<handler, errorsCh, waitDone, stream>>
  BY DEF TakeRequest
<1>8. InboundTypeOK'
  BY <1>5, <1>6, <1>7 DEF InboundInv, InboundTypeOK
<1>9. HandlerInv'
  <2>1. handler \in [Protocols -> Accepts \cup {NoCall}]
    BY DEF InboundInv, InboundTypeOK
  <2> QED
    BY <1>4, <1>5, <1>7, <2>1 DEF InboundInv, HandlerInv
<1>10. \A t \in Streams, b \in Accepts : Fits(t, b)' = Fits(t, b)
  BY <1>4, <1>5, <1>7 DEF Fits
<1>11. ASSUME NEW t \in Streams PROVE StreamInv(t)'
  BY <1>4, <1>5, <1>7, <1>10 DEF InboundInv, StreamInv
<1>12. ASSUME NEW b \in Accepts \ {a} PROVE ChannelInv(b)'
  <2>1. requests[b] \subseteq Streams
    BY <1>0
  <2> QED
    BY <1>5, <1>6, <1>7, <1>10, <2>1 DEF InboundInv, ChannelInv
<1>13. ChannelInv(a)'
  <2>1. stream[s].by = a /\ stream[s].pc = "Done" /\ stream[s].end = "Open" /\ Fits(s, a)
    BY DEF InboundInv, ChannelInv
  <2>2. \A t \in requests[a] : t = s
    BY DEF InboundInv, ChannelInv
  <2>3. accept[a].got = 0 /\ \A t \in Streams : t # 0
    BY <1>0 DEF InboundInv, ChannelInv, Streams
  <2>4. \A t \in Streams :
          (stream[t].by = a /\ stream[t].pc = "Done" /\ stream[t].end = "Open") => t = s
    BY <2>2, <2>3 DEF InboundInv, ChannelInv
  <2>5. Fits(s, a)'
    BY <1>2, <1>10, <2>1
  <2> QED
    BY <1>2, <1>4, <1>5, <1>6, <1>7, <2>1, <2>4, <2>5 DEF ChannelInv
<1> QED
  BY <1>8, <1>9, <1>11, <1>12, <1>13 DEF InboundInv

LEMMA GoroutineStepsInv ==
  ASSUME InboundInv, NEW s \in Streams,
         \/ (\E p \in Protocols : OpenStream(s, p))
         \/ PeerSendsBody(s) \/ BodyCut(s) \/ ReadSSZSnappy(s) \/ PostError(s)
  PROVE  InboundInv'
<1>0. /\ stream[s] \in StreamRec /\ stream \in [Streams -> StreamRec] /\ accept \in [Accepts -> AcceptRec]
      /\ errorsCh \in [Accepts -> BOOLEAN] /\ StreamInv(s)
      /\ handler \in [Protocols -> Accepts \cup {NoCall}]
  BY DEF InboundInv, InboundTypeOK
<1>1. CASE \E p \in Protocols : OpenStream(s, p)
  <2>0. PICK p \in Protocols : OpenStream(s, p)
    BY <1>1
  <2>1. stream[s].pc = "None" /\ handler[p] \in Accepts /\ accept[handler[p]].pc \in {"Select", "Remove"}
    <3>1. s \in 1..s
      BY DEF Streams
    <3>2. stream[s].pc = "None" /\ handler[p] # NoCall
      BY <2>0, <3>1 DEF OpenStream
    <3> QED
      BY <1>0, <3>2 DEF InboundInv, HandlerInv
  <2>2. PICK n \in {"Post", "Read"} : /\ n = (IF accept[handler[p]].noBody THEN "Post" ELSE "Read")
                                      /\ stream' = [stream EXCEPT ![s].by = handler[p], ![s].pc = n]
    BY <2>0 DEF OpenStream
  <2>3. PICK r \in StreamRec : /\ r = [stream[s] EXCEPT !.by = handler[p], !.pc = n]
                               /\ stream' = [stream EXCEPT ![s] = r]
    <3>1. [stream[s] EXCEPT !.by = handler[p], !.pc = n] \in StreamRec
      BY <1>0, <2>1, <2>2 DEF StreamRec
    <3>2. stream' = [stream EXCEPT ![s] = [stream[s] EXCEPT !.by = handler[p], !.pc = n]]
      BY <1>0, <2>2
    <3> QED
      BY <3>1, <3>2
  <2>4. r.by = handler[p] /\ r.pc = n /\ r.end = "Open"
    BY <1>0, <2>1, <2>3 DEF StreamRec, StreamInv
  <2>5. UNCHANGED <<handler, accept, requests, errorsCh, waitDone>>
    BY <2>0 DEF OpenStream
  <2> QED
    <3>1. r.pc = "Post" => accept[r.by].noBody
      BY <2>2, <2>4
    <3>2. stream[s].pc # "Done" /\ r.pc \in {"Read", "Post"} /\ r.by \in Accepts
      BY <2>1, <2>2, <2>4
    <3>3. accept[r.by].pc \notin {"Idle", "Register"} /\ errorsCh' \in [Accepts -> BOOLEAN]
      BY <1>0, <2>1, <2>4, <2>5
    <3> QED
      BY <2>3, <2>4, <2>5, <3>1, <3>2, <3>3, GoroutineMoves
<1>2. CASE PeerSendsBody(s) \/ BodyCut(s)
  <2>1. stream[s].pc = "Read" /\ UNCHANGED <<handler, accept, requests, errorsCh, waitDone>>
    BY <1>2 DEF PeerSendsBody, BodyCut
  <2>2. PICK r \in StreamRec : /\ r.pc = stream[s].pc /\ r.by = stream[s].by /\ r.end = stream[s].end
                              /\ stream' = [stream EXCEPT ![s] = r]
    <3>1. CASE BodyCut(s)
      <4>1. [stream[s] EXCEPT !.cut = TRUE] \in StreamRec
        BY <1>0, Zenon DEF StreamRec
      <4>2. stream' = [stream EXCEPT ![s] = [stream[s] EXCEPT !.cut = TRUE]]
        BY <1>0, <3>1 DEF BodyCut
      <4>3. PICK r \in StreamRec : r = [stream[s] EXCEPT !.cut = TRUE]
        BY <4>1
      <4> QED
        BY <1>0, <4>2, <4>3 DEF StreamRec
    <3>2. CASE PeerSendsBody(s) /\ stream[s].sent = "Nothing"
      <4>1. PICK len \in 0..MaxPayload + 1 : stream' = [stream EXCEPT ![s].sent = "Prefix", ![s].len = len]
        BY <3>2 DEF PeerSendsBody
      <4>2. PICK r \in StreamRec : r = [stream[s] EXCEPT !.sent = "Prefix", !.len = len]
        BY <1>0 DEF StreamRec
      <4>3. stream' = [stream EXCEPT ![s] = [stream[s] EXCEPT !.sent = "Prefix", !.len = len]]
        BY <1>0, <4>1
      <4> QED
        BY <1>0, <4>2, <4>3 DEF StreamRec
    <3>3. CASE PeerSendsBody(s) /\ stream[s].sent # "Nothing"
      <4>1. stream' = [stream EXCEPT ![s].sent = "Whole"]
        BY <3>3 DEF PeerSendsBody
      <4>2. PICK r \in StreamRec : r = [stream[s] EXCEPT !.sent = "Whole"]
        BY <1>0 DEF StreamRec
      <4>3. stream' = [stream EXCEPT ![s] = [stream[s] EXCEPT !.sent = "Whole"]]
        BY <1>0, <4>1
      <4> QED
        BY <1>0, <4>2, <4>3 DEF StreamRec
    <3> QED
      BY <1>2, <3>1, <3>2, <3>3
  <2> QED
    BY <1>0, <2>1, <2>2, GoroutineMoves DEF StreamInv
<1>3. CASE ReadSSZSnappy(s)
  <2>1. stream[s].pc = "Read" /\ UNCHANGED <<handler, accept, requests, errorsCh, waitDone>>
    BY <1>3 DEF ReadSSZSnappy
  <2>2. PICK q \in StreamRec : q = [stream[s] EXCEPT !.sent = "Nothing", !.cut = FALSE]
    <3>1. [stream[s] EXCEPT !.sent = "Nothing", !.cut = FALSE] \in StreamRec
      BY <1>0, Zenon DEF StreamRec
    <3> QED
      BY <3>1
  <2>3. q.by = stream[s].by /\ q.end = stream[s].end /\ q.len = stream[s].len
    BY <1>0, <2>2 DEF StreamRec
  <2>4. CASE /\ bodyRead(s, accept[stream[s].by].max)
             /\ stream' = [stream EXCEPT ![s] = [q EXCEPT !.pc = "Post"]]
    <3>1. PICK r \in StreamRec : r = [q EXCEPT !.pc = "Post"]
      BY <2>2 DEF StreamRec
    <3>2. r.pc = "Post" /\ r.by = stream[s].by /\ r.end = stream[s].end /\ r.len = stream[s].len
      BY <2>3, <3>1 DEF StreamRec
    <3> QED
      BY <1>0, <2>1, <2>4, <3>1, <3>2, GoroutineMoves DEF StreamInv, bodyRead
  <2>5. CASE stream' = [stream EXCEPT ![s] = [q EXCEPT !.pc = "PostError", !.end = "Reset"]]
    <3>1. PICK r \in StreamRec : r = [q EXCEPT !.pc = "PostError", !.end = "Reset"]
      BY <2>2 DEF StreamRec
    <3>2. r.pc = "PostError" /\ r.by = stream[s].by /\ r.end = "Reset"
      BY <2>3, <3>1 DEF StreamRec
    <3> QED
      BY <1>0, <2>1, <2>5, <3>1, <3>2, GoroutineMoves DEF StreamInv
  <2> QED
    BY <1>3, <2>2, <2>4, <2>5 DEF ReadSSZSnappy
<1>4. CASE PostError(s)
  <2>1. stream[s].pc = "PostError" /\ UNCHANGED <<handler, accept, requests, waitDone>>
    BY <1>4 DEF PostError
  <2>2. errorsCh' \in [Accepts -> BOOLEAN]
    <3>1. errorsCh' = [errorsCh EXCEPT ![stream[s].by] = TRUE]
      BY <1>4 DEF PostError
    <3> QED
      BY <1>0, <3>1, Zenon
  <2>3. PICK r \in StreamRec : r = [stream[s] EXCEPT !.pc = "Done"] /\ stream' = [stream EXCEPT ![s] = r]
    BY <1>0, <1>4 DEF PostError, StreamRec
  <2>4. r.pc = "Done" /\ r.by = stream[s].by /\ r.end = stream[s].end
    BY <1>0, <2>3 DEF StreamRec
  <2> QED
    BY <1>0, <2>1, <2>2, <2>3, <2>4, GoroutineMoves DEF StreamInv
<1> QED
  BY <1>1, <1>2, <1>3, <1>4

LEMMA PostRequestInv ==
  ASSUME InboundInv, NEW s \in Streams, PostRequest(s)
  PROVE  InboundInv'
<1>0. /\ stream[s] \in StreamRec /\ stream \in [Streams -> StreamRec]
      /\ requests \in [Accepts -> SUBSET Streams] /\ errorsCh \in [Accepts -> BOOLEAN]
      /\ StreamInv(s) /\ stream[s].pc = "Post"
  BY DEF InboundInv, InboundTypeOK, PostRequest
<1>1. PICK a \in Accepts : a = stream[s].by /\ accept[a].pc \notin {"Idle", "Register"} /\ Fits(s, a)
  BY <1>0 DEF StreamInv
<1>2. UNCHANGED <<handler, accept, errorsCh, waitDone>>
  BY DEF PostRequest
<1>3. CASE requests[a] # {}
  <2>1. stream' = [stream EXCEPT ![s].pc = "Done", ![s].end = "Reset"] /\ requests' = requests
    BY <1>1, <1>3 DEF PostRequest
  <2>2. PICK r \in StreamRec : r = [stream[s] EXCEPT !.pc = "Done", !.end = "Reset"]
    BY <1>0 DEF StreamRec
  <2>3. stream' = [stream EXCEPT ![s] = [stream[s] EXCEPT !.pc = "Done", !.end = "Reset"]]
    BY <1>0, <2>1
  <2>4. r.pc = "Done" /\ r.by = stream[s].by /\ r.end = "Reset"
    BY <1>0, <2>2 DEF StreamRec
  <2> QED
    BY <1>0, <1>1, <1>2, <2>1, <2>2, <2>3, <2>4, GoroutineMoves
<1>4. CASE requests[a] = {}
  <2>1. stream' = [stream EXCEPT ![s].pc = "Done"] /\ requests' = [requests EXCEPT ![a] = {s}]
    BY <1>1, <1>4 DEF PostRequest
  <2>2. PICK r \in StreamRec : r = [stream[s] EXCEPT !.pc = "Done"] /\ stream' = [stream EXCEPT ![s] = r]
    BY <1>0, <2>1 DEF StreamRec
  <2>3. r.pc = "Done" /\ r.by = a /\ r.end = "Open" /\ r.len = stream[s].len
    BY <1>0, <1>1, <2>2 DEF StreamRec, StreamInv
  <2>4. /\ stream' \in [Streams -> StreamRec] /\ stream'[s] = r
        /\ \A t \in Streams \ {s} : stream'[t] = stream[t]
    BY <2>2, StreamUpdate DEF InboundInv
  <2>5. /\ requests' \in [Accepts -> SUBSET Streams] /\ requests'[a] = {s}
        /\ \A b \in Accepts \ {a} : requests'[b] = requests[b]
    BY <1>0, <2>1
  <2>6. InboundTypeOK' /\ HandlerInv'
    BY <1>2, <2>4, <2>5 DEF InboundInv, InboundTypeOK, HandlerInv
  <2>7. \A t \in Streams, b \in Accepts : Fits(t, b)' = Fits(t, b)
    BY <1>2, <2>3, <2>4 DEF Fits
  <2>8. ASSUME NEW t \in Streams PROVE StreamInv(t)'
    <3>1. CASE t = s
      BY <1>1, <1>2, <2>3, <2>4, <3>1 DEF StreamInv
    <3>2. CASE t # s
      BY <1>2, <2>4, <2>7, <3>2 DEF InboundInv, StreamInv
    <3> QED
      BY <3>1, <3>2
  <2>9. ASSUME NEW b \in Accepts PROVE ChannelInv(b)'
    <3>1. s \notin requests[b] /\ accept[b].got # s /\ requests[b] \subseteq Streams
      BY <1>0, NotDone
    <3>2. CASE b = a
      <4>1. \A t \in Streams : (stream'[t].by = b /\ stream'[t].pc = "Done" /\ stream'[t].end = "Open"
                                  /\ accept'[b].got # t) => t = s
        BY <1>2, <1>4, <2>4, <3>2 DEF InboundInv, ChannelInv
      <4>2. \A t \in Streams : accept[b].got = t =>
              /\ stream'[t].by = b /\ stream'[t].pc = "Done" /\ t \notin requests'[b] /\ Fits(t, b)'
              /\ accept[b].pc = "Remove" => stream'[t].end = "Open"
        BY <2>4, <2>5, <2>7, <3>1, <3>2 DEF InboundInv, ChannelInv
      <4>3. Fits(s, b)'
        BY <1>1, <2>7, <3>2
      <4>4. accept[b].pc \in {"Idle", "Register", "Select"} => accept[b].got = 0
        BY DEF InboundInv, ChannelInv
      <4> QED
        BY <1>2, <2>3, <2>4, <2>5, <3>2, <4>1, <4>2, <4>3, <4>4 DEF ChannelInv
    <3>3. CASE b # a
      BY <1>2, <2>3, <2>4, <2>5, <2>7, <3>1, <3>3 DEF InboundInv, ChannelInv
    <3> QED
      BY <3>2, <3>3
  <2> QED
    BY <2>6, <2>8, <2>9 DEF InboundInv
<1> QED
  BY <1>3, <1>4

\* The owner of a request writes to its stream or ends it: no goroutine and no
\* channel has the stream any more.
LEMMA OwnerStepsInv ==
  ASSUME InboundInv, NEW s \in Streams, WriteResponse(s) \/ CloseRequest(s)
  PROVE  InboundInv'
<1>0. /\ stream[s] \in StreamRec /\ stream \in [Streams -> StreamRec] /\ Streams = Streams'
      /\ UNCHANGED <<handler, accept, requests, errorsCh, waitDone>>
  BY DEF InboundInv, InboundTypeOK, WriteResponse, CloseRequest, Streams
<1>1. PICK a \in Accepts : accept[a].pc = "Returned" /\ accept[a].got = s
  BY DEF WriteResponse, CloseRequest, Held
<1>2. /\ stream[s].by = a /\ stream[s].pc = "Done" /\ s \notin requests[a]
  BY <1>1 DEF InboundInv, ChannelInv
<1>3. CASE stream' = stream
  <2>1. InboundTypeOK' /\ HandlerInv'
    BY <1>0, <1>3 DEF InboundInv, InboundTypeOK, HandlerInv
  <2>2. \A t \in Streams : StreamInv(t)'
    BY <1>0, <1>3 DEF InboundInv, StreamInv, Fits
  <2>3. \A b \in Accepts : ChannelInv(b)'
    BY <1>0, <1>3 DEF InboundInv, ChannelInv, Fits
  <2> QED
    BY <2>1, <2>2, <2>3 DEF InboundInv
<1>4. ASSUME NEW how \in {"Closed", "Reset"}, stream' = [stream EXCEPT ![s].end = how]
      PROVE  InboundInv'
  <2>1. PICK r \in StreamRec : r = [stream[s] EXCEPT !.end = how] /\ stream' = [stream EXCEPT ![s] = r]
    BY <1>0, <1>4 DEF StreamRec
  <2>2. r.pc = "Done" /\ r.by = a /\ r.end = how /\ r.len = stream[s].len
    BY <1>0, <1>2, <2>1 DEF StreamRec
  <2>3. /\ stream' \in [Streams -> StreamRec] /\ stream'[s] = r
        /\ \A t \in Streams \ {s} : stream'[t] = stream[t]
    BY <2>1, StreamUpdate DEF InboundInv
  <2>4. InboundTypeOK' /\ HandlerInv'
    BY <1>0, <2>3 DEF InboundInv, InboundTypeOK, HandlerInv
  <2>5. \A t \in Streams, b \in Accepts : Fits(t, b)' = Fits(t, b)
    BY <1>0, <2>2, <2>3 DEF Fits
  <2>6. \A t \in Streams : stream'[t].by = stream[t].by /\ stream'[t].pc = stream[t].pc
    BY <1>2, <2>2, <2>3
  <2>7. ASSUME NEW t \in Streams PROVE StreamInv(t)'
    BY <1>0, <1>2, <2>3, <2>5, <2>6 DEF InboundInv, StreamInv
  <2>8. ASSUME NEW b \in Accepts PROVE ChannelInv(b)'
    <3>1. s \notin requests[b] /\ (accept[b].got = s => accept[b].pc = "Returned")
      BY <1>1, <1>2 DEF InboundInv, ChannelInv
    <3>2. requests[b] \subseteq Streams
      BY DEF InboundInv, InboundTypeOK
    <3> QED
      BY <1>0, <2>2, <2>3, <2>5, <2>6, <3>1, <3>2 DEF InboundInv, ChannelInv
  <2> QED
    BY <2>4, <2>7, <2>8 DEF InboundInv
<1> QED
  BY <1>3, <1>4 DEF WriteResponse, CloseRequest

LEMMA InboundInvStep == InboundInv /\ [InboundNext]_inboundVars => InboundInv'
<1> SUFFICES ASSUME InboundInv, [InboundNext]_inboundVars PROVE InboundInv'
  OBVIOUS
<1>1. ASSUME NEW a \in Accepts, AcceptRefused(a) \/ AcceptBegins(a) \/ AcceptStep(a) \/ WaitEnds(a)
      PROVE  InboundInv'
  BY <1>1, AcceptStepsInv, WaitEndsInv, TakeRequestInv DEF AcceptStep
<1>2. ASSUME NEW s \in Streams, NEW p \in Protocols, OpenStream(s, p) PROVE InboundInv'
  BY <1>2, GoroutineStepsInv
<1>3. ASSUME NEW s \in Streams,
             PeerSendsBody(s) \/ BodyCut(s) \/ HandlerStep(s) \/ WriteResponse(s) \/ CloseRequest(s)
      PROVE  InboundInv'
  BY <1>3, GoroutineStepsInv, PostRequestInv, OwnerStepsInv DEF HandlerStep
<1>4. CASE UNCHANGED inboundVars
  <2>1. UNCHANGED <<handler, accept, requests, errorsCh, waitDone, stream>>
    BY <1>4 DEF inboundVars
  <2>2. InboundTypeOK' /\ HandlerInv'
    BY <2>1 DEF InboundInv, InboundTypeOK, HandlerInv
  <2>3. \A t \in Streams : StreamInv(t)'
    BY <2>1 DEF InboundInv, StreamInv, Fits
  <2>4. \A b \in Accepts : ChannelInv(b)'
    BY <2>1 DEF InboundInv, ChannelInv, Fits
  <2> QED
    BY <2>2, <2>3, <2>4 DEF InboundInv
<1> QED
  BY <1>1, <1>2, <1>3, <1>4 DEF InboundNext

LEMMA InboundInvImplies == InboundInv => StreamsAccounted
<1> SUFFICES ASSUME InboundInv PROVE StreamsAccounted
  OBVIOUS
<1> SUFFICES ASSUME NEW a \in Accepts
             PROVE  /\ \A s \in Streams : accept[a].got = s =>
                         /\ stream[s].by = a /\ stream[s].pc = "Done" /\ s \notin requests[a]
                         /\ accept[a].noBody \/ stream[s].len <= accept[a].max
                         /\ accept[a].pc = "Remove" => stream[s].end = "Open"
                    /\ Abandoned(a) \subseteq requests[a] /\ Cardinality(Abandoned(a)) <= 1
                    /\ \A p \in Protocols : handler[p] = a => accept[a].pc \in {"Select", "Remove"}
  BY DEF StreamsAccounted
<1>1. \A s \in Streams : accept[a].got = s =>
        /\ stream[s].by = a /\ stream[s].pc = "Done" /\ s \notin requests[a]
        /\ accept[a].noBody \/ stream[s].len <= accept[a].max
        /\ accept[a].pc = "Remove" => stream[s].end = "Open"
  BY DEF InboundInv, ChannelInv, Fits
<1>2. Abandoned(a) \subseteq requests[a]
  BY DEF InboundInv, ChannelInv, Abandoned
<1>3. Cardinality(Abandoned(a)) <= 1
  <2>1. \A s, r \in Abandoned(a) : s = r
    BY <1>2 DEF InboundInv, ChannelInv
  <2>2. CASE Abandoned(a) = {}
    BY <2>2, FS_EmptySet
  <2>3. CASE Abandoned(a) # {}
    <3>1. PICK s \in Abandoned(a) : TRUE
      BY <2>3
    <3>2. Abandoned(a) = {s}
      BY <2>1, <3>1
    <3>3. Cardinality({s}) = 1
      BY FS_Singleton
    <3> QED
      BY <3>2, <3>3
  <2> QED
    BY <2>2, <2>3
<1>4. \A p \in Protocols : handler[p] = a => accept[a].pc \in {"Select", "Remove"}
  BY DEF InboundInv, HandlerInv
<1> QED
  BY <1>1, <1>2, <1>3, <1>4

\* Every variable of the inbound requests has its type, whatever the streams do.
THEOREM InboundTypeCorrect == InboundSpec => []InboundTypeOK
<1>1. InboundInv => InboundTypeOK
  BY DEF InboundInv
<1> QED
  BY <1>1, InboundInvInit, InboundInvStep, PTL DEF InboundSpec

\* For any calls of Accept, any protocols and any number of streams: the
\* request a call returns came to its own handler, within its limit; at most
\* one other stream per call is left open; and no handler outlives its call.
THEOREM StreamsAccountedCorrect == InboundSpec => []StreamsAccounted
BY InboundInvInit, InboundInvStep, InboundInvImplies, PTL DEF InboundSpec

HIDE InboundAssumption DEF InboundAssumption
-----------------------------------------------------------------------------
(* The beacon Status.                                                      *)

\* The network is one of the networks, and the spec tells of it.
SpecInv ==
  /\ network \in Networks
  /\ spec.hasFulu \/ network.fulu = NeverEpoch
  /\ spec.slots \in {0, SlotsPerEpoch}
  /\ spec.schedule \in Seq(network.blobs)
  /\ \A e \in network.blobs : \E k \in 1..Len(spec.schedule) : spec.schedule[k] = e

\* best is the newest of the entries in force that the loop has been through.
LoopInv(epoch) ==
  /\ \A e \in best : e \in network.blobs /\ e.epoch <= epoch
  /\ \A e, f \in best : e = f
  /\ \A k \in 1..turn - 1 : spec.schedule[k].epoch <= epoch =>
       \E e \in best : spec.schedule[k].epoch <= e.epoch

BeaconInv ==
  /\ SpecInv
  /\ head \in 0..MaxSlot /\ read.slot \in 0..MaxSlot /\ read = [version |-> read.version, slot |-> read.slot]
  /\ bpc \in 1..6 /\ turn \in 1..Len(spec.schedule) + 1
  /\ bpc < 6 => turn = 1 /\ best = {}
  /\ LoopInv(epochOf(read.slot))
  /\ bpc = 6 /\ status = "None" =>
       spec.slots = SlotsPerEpoch /\ epochOf(read.slot) >= network.fulu
  /\ status = "Ok" =>
       \/ bpc = 5 /\ digest = base(read.version)
       \/ /\ bpc = 6 /\ epochOf(read.slot) < network.fulu
          /\ digest = base(read.version)
       \/ /\ bpc = 6 /\ epochOf(read.slot) >= network.fulu /\ turn = Len(spec.schedule) + 1
          /\ digest = maskedBy(read.version, IF best = {} THEN network.electra ELSE CHOOSE e \in best : TRUE)

LEMMA BeaconInvInit == BeaconInit(BeaconInits) => BeaconInv
<1> SUFFICES ASSUME BeaconInit(BeaconInits) PROVE BeaconInv
  OBVIOUS
<1> USE BeaconAssumption DEF BeaconAssumption
<1>1. PICK net \in Networks : network = net /\ spec \in Specs(net)
  <2>1. PICK i \in BeaconInits : network = i.network /\ spec = i.spec
    BY DEF BeaconInit
  <2> QED
    BY <2>1 DEF BeaconInits
<1>2. PICK h \in {TRUE, net.fulu # NeverEpoch}, n \in {0, SlotsPerEpoch}, q \in Orders(net) :
        spec = [hasFulu |-> h, slots |-> n, schedule |-> q]
  BY <1>1 DEF Specs
<1>3. spec.hasFulu = h /\ spec.slots = n /\ spec.schedule = q
  BY <1>1, <1>2
<1>4. spec.hasFulu \/ network.fulu = NeverEpoch
  <2>1. h = TRUE \/ h = (net.fulu # NeverEpoch)
    BY <1>2, Zenon
  <2> QED
    BY <1>1, <1>3, <2>1, Zenon
<1>5. Cardinality(net.blobs) \in Nat
  BY FS_CardinalityType
<1>6. q \in Seq(net.blobs) /\ Len(q) = Cardinality(net.blobs)
  <2> HIDE BeaconAssumption DEF BeaconAssumption
  <2>1. PICK c \in Nat : c = Cardinality(net.blobs)
    BY <1>5
  <2>2. q \in [1..c -> net.blobs]
    BY <2>1 DEF Orders
  <2>3. q \in Seq(net.blobs) /\ Len(q) = c
    BY <2>2
  <2> QED
    BY <2>1, <2>3
<1>7. \A e \in net.blobs : \E k \in 1..Len(q) : q[k] = e
  BY <1>2, <1>6 DEF Orders, Range
<1>8. SpecInv
  BY <1>1, <1>2, <1>3, <1>4, <1>6, <1>7 DEF SpecInv
<1>9. head = 0 /\ read.slot = 0 /\ read.version = 0 /\ bpc = 1 /\ turn = 1 /\ best = {} /\ status = "None"
  BY DEF BeaconInit
<1>10. LoopInv(epochOf(read.slot))
  BY <1>9 DEF LoopInv
<1>11. Len(spec.schedule) \in Nat
  BY <1>3, <1>6
<1>12. read = [version |-> read.version, slot |-> read.slot]
  BY <1>9 DEF BeaconInit
<1> QED
  BY <1>8, <1>9, <1>10, <1>11, <1>12 DEF BeaconInv

LEMMA EpochNat == \A slot \in 0..MaxSlot : epochOf(slot) \in Nat
BY BeaconAssumption DEF BeaconAssumption, epochOf

LEMMA ScheduleEntry ==
  ASSUME SpecInv
  PROVE  /\ Len(spec.schedule) \in Nat
         /\ \A k \in 1..Len(spec.schedule) : spec.schedule[k] \in network.blobs
         /\ \A e \in network.blobs : e.epoch \in Nat
<1>1. spec.schedule \in Seq(network.blobs) /\ network \in Networks
  BY DEF SpecInv
<1>2. \A q \in Seq(network.blobs) : Len(q) \in Nat /\ \A k \in 1..Len(q) : q[k] \in network.blobs
  OBVIOUS
<1>3. \A e \in network.blobs : e \in Entry
  BY <1>1, BeaconAssumption DEF BeaconAssumption
<1> QED
  BY <1>1, <1>2, <1>3 DEF Entry

\* The loop of blobParameters keeps the newest entry in force.
LEMMA TurnKeepsNewest ==
  ASSUME SpecInv, turn \in 1..Len(spec.schedule), NEW epoch \in Nat, LoopInv(epoch),
         best' = newerEntry(best, spec.schedule[turn], epoch), turn' = turn + 1,
         UNCHANGED <<network, spec>>
  PROVE  LoopInv(epoch)'
<1> DEFINE entry == spec.schedule[turn]
<1>1. entry \in network.blobs
  BY ScheduleEntry
<1>2. entry.epoch \in Nat /\ \A e \in best : e.epoch \in Nat
  BY <1>1, ScheduleEntry DEF LoopInv
<1>3. \A k \in 1..turn' - 1 : k \in 1..turn - 1 \/ k = turn
  OBVIOUS
<1>4. CASE entry.epoch <= epoch /\ \A o \in best : entry.epoch > o.epoch
  <2>1. best' = {entry}
    BY <1>4 DEF newerEntry
  <2>2. \A k \in 1..turn - 1 : spec.schedule[k].epoch <= epoch => spec.schedule[k].epoch <= entry.epoch
    <3>1. \A k \in 1..turn - 1 : spec.schedule[k].epoch \in Nat
      BY ScheduleEntry
    <3> QED
      BY <1>2, <1>4, <3>1 DEF LoopInv
  <2> QED
    BY <1>1, <1>2, <1>3, <1>4, <2>1, <2>2 DEF LoopInv
<1>5. CASE ~(entry.epoch <= epoch /\ \A o \in best : entry.epoch > o.epoch)
  <2>1. best' = best
    BY <1>5 DEF newerEntry
  <2>2. entry.epoch <= epoch => \E e \in best : entry.epoch <= e.epoch
    BY <1>2, <1>5
  <2> QED
    BY <1>3, <2>1, <2>2 DEF LoopInv
<1> QED
  BY <1>4, <1>5

LEMMA BeaconInvStep == BeaconInv /\ [BeaconNext]_beaconVars => BeaconInv'
<1> SUFFICES ASSUME BeaconInv, [BeaconNext]_beaconVars PROVE BeaconInv'
  OBVIOUS
<1> USE BeaconAssumption DEF BeaconAssumption
<1>0. /\ Steps[1] = "fork" /\ Steps[2] = "genesis" /\ Steps[3] = "headers" /\ Steps[4] = "finality"
      /\ Steps[5] = "config" /\ Steps[6] = "blobs"
  BY DEF Steps
<1>1. /\ bpc \in 1..6
      /\ Steps[bpc] = "fork" => bpc = 1
      /\ Steps[bpc] \in {"genesis", "finality"} => bpc \in {2, 4}
      /\ Steps[bpc] = "headers" => bpc = 3
      /\ Steps[bpc] = "config" => bpc = 5
      /\ Steps[bpc] = "blobs" => bpc = 6
  <2>1. bpc \in {1, 2, 3, 4, 5, 6}
    BY DEF BeaconInv
  <2> QED
    BY <1>0, <2>1
<1>2. \A slot \in 0..MaxSlot : epochOf(slot) \in Nat
  BY EpochNat
<1>3. Len(spec.schedule) \in Nat
  BY DEF BeaconInv, SpecInv
<1>4. ASSUME UNCHANGED <<network, spec>> PROVE SpecInv'
  BY <1>4 DEF BeaconInv, SpecInv
<1>5. CASE HeadAdvances
  <2>1. UNCHANGED <<network, spec, bpc, read, turn, best, digest, status>> /\ head' \in 0..MaxSlot
    BY <1>5 DEF HeadAdvances, BeaconInv
  <2> QED
    BY <1>4, <2>1 DEF BeaconInv, LoopInv, epochOf
<1>6. CASE RequestFails
  <2>1. UNCHANGED <<network, spec, head, bpc, read, turn, best, digest>> /\ status' = "Error"
    BY <1>6 DEF RequestFails
  <2> QED
    BY <1>4, <2>1 DEF BeaconInv, LoopInv, epochOf
<1>7. CASE ReadFork \/ ReadHead
  <2>1. /\ UNCHANGED <<network, spec, head, turn, best, digest, status>> /\ status = "None"
        /\ bpc' \in 1..5 /\ turn = 1 /\ best = {}
    BY <1>1, <1>7 DEF ReadFork, ReadHead, BeaconInv
  <2>2. read'.slot \in 0..MaxSlot /\ read' = [version |-> read'.version, slot |-> read'.slot]
    BY <1>7 DEF ReadFork, ReadHead, BeaconInv
  <2>3. LoopInv(epochOf(read.slot))'
    BY <2>1 DEF LoopInv
  <2> QED
    BY <1>3, <1>4, <2>1, <2>2, <2>3 DEF BeaconInv
<1>8. CASE ReadOther
  <2>1. UNCHANGED <<network, spec, head, read, turn, best, digest, status>> /\ status = "None"
    BY <1>8 DEF ReadOther
  <2>2. bpc < 5 /\ bpc' \in 1..5
    BY <1>1, <1>8 DEF ReadOther
  <2>3. LoopInv(epochOf(read.slot))'
    BY <2>1 DEF BeaconInv, LoopInv, epochOf
  <2> QED
    BY <1>4, <2>1, <2>2, <2>3 DEF BeaconInv
<1>9. CASE ConfigFails
  <2>1. /\ UNCHANGED <<network, spec, head, bpc, read, turn, best>> /\ bpc = 5
        /\ digest' = base(read.version) /\ status' = "Ok"
    BY <1>1, <1>9 DEF ConfigFails
  <2>2. LoopInv(epochOf(read.slot))'
    BY <2>1 DEF BeaconInv, LoopInv, epochOf
  <2>3. digest' = base(read.version)'
    BY <2>1 DEF base
  <2> QED
    BY <1>4, <2>1, <2>2, <2>3 DEF BeaconInv
<1>10. CASE ReadConfig
  <2>1. /\ UNCHANGED <<network, spec, head, read, turn, best>> /\ bpc = 5 /\ bpc' = 6
    BY <1>1, <1>10 DEF ReadConfig
  <2>2. LoopInv(epochOf(read.slot))'
    BY <2>1 DEF BeaconInv, LoopInv, epochOf
  <2>3. epochOf(read.slot)' = epochOf(read.slot)
    BY <2>1 DEF epochOf
  <2>4. spec.slots # 0 => spec.slots = SlotsPerEpoch /\ specEpoch = epochOf(read.slot)
    BY DEF BeaconInv, SpecInv, specEpoch, epochOf
  <2>5. CASE ~spec.hasFulu \/ (spec.slots # 0 /\ specEpoch < network.fulu)
    <3>1. epochOf(read.slot) < network.fulu
      BY <2>4, <2>5 DEF BeaconInv, SpecInv, epochOf
    <3>2. status' = "Ok" /\ digest' = base(read.version)'
      <4>1. ~(spec.hasFulu /\ spec.slots = 0) /\ ~(spec.hasFulu /\ spec.slots # 0 /\ specEpoch >= network.fulu)
        BY <1>2, <2>4, <2>5 DEF BeaconInv, SpecInv
      <4> QED
        BY <1>10, <2>1, <4>1 DEF ReadConfig, base
    <3> QED
      BY <1>4, <2>1, <2>2, <2>3, <3>1, <3>2 DEF BeaconInv
  <2>6. CASE spec.hasFulu /\ spec.slots = 0
    <3>1. status' = "Error"
      BY <1>10, <2>6 DEF ReadConfig
    <3> QED
      BY <1>4, <2>1, <2>2, <3>1 DEF BeaconInv
  <2>7. CASE spec.hasFulu /\ spec.slots # 0 /\ specEpoch >= network.fulu
    <3>0. ~(specEpoch < network.fulu)
      BY <1>2, <2>4, <2>7 DEF BeaconInv, SpecInv
    <3>1. status' = "None"
      BY <1>10, <2>7, <3>0 DEF ReadConfig
    <3> QED
      BY <1>4, <2>1, <2>2, <2>3, <2>4, <2>7, <3>1 DEF BeaconInv
  <2> QED
    BY <1>10, <2>5, <2>6, <2>7 DEF ReadConfig
<1>11. CASE BlobsTurn
  <2>1. /\ UNCHANGED <<network, spec, head, bpc, read, digest, status>> /\ bpc = 6 /\ status = "None"
        /\ turn \in 1..Len(spec.schedule) /\ turn' = turn + 1
    BY <1>1, <1>3, <1>11 DEF BlobsTurn, BeaconInv
  <2>2. best' = newerEntry(best, spec.schedule[turn], epochOf(read.slot))
    BY <1>11, <2>1 DEF BlobsTurn, BeaconInv, specEpoch, epochOf
  <2>3. PICK epoch \in Nat : epoch = epochOf(read.slot)
    BY <1>2 DEF BeaconInv
  <2>4. LoopInv(epoch)'
    BY <2>1, <2>2, <2>3, TurnKeepsNewest DEF BeaconInv
  <2>5. epoch = epochOf(read.slot)'
    BY <2>1, <2>3 DEF epochOf
  <2>6. LoopInv(epochOf(read.slot))'
    BY <2>4, <2>5 DEF LoopInv
  <2> QED
    BY <1>4, <2>1, <2>3, <2>5, <2>6 DEF BeaconInv
<1>12. CASE BlobsReturn
  <2>1. /\ UNCHANGED <<network, spec, head, bpc, read, turn, best>> /\ bpc = 6 /\ status = "None"
        /\ turn = Len(spec.schedule) + 1 /\ status' = "Ok"
    BY <1>1, <1>3, <1>12 DEF BlobsReturn, BeaconInv
  <2>2. digest' = maskedBy(read.version, IF best = {} THEN network.electra ELSE CHOOSE e \in best : TRUE)'
    BY <1>12, <2>1 DEF BlobsReturn, maskedBy
  <2>3. LoopInv(epochOf(read.slot))' /\ epochOf(read.slot)' = epochOf(read.slot)
    BY <2>1 DEF BeaconInv, LoopInv, epochOf
  <2> QED
    BY <1>4, <2>1, <2>2, <2>3 DEF BeaconInv
<1>13. CASE UNCHANGED beaconVars
  <2>1. UNCHANGED <<network, spec, head, bpc, read, turn, best, digest, status>>
    BY <1>13 DEF beaconVars
  <2> QED
    BY <1>4, <2>1 DEF BeaconInv, LoopInv, epochOf, base, maskedBy
<1> QED
  BY <1>5, <1>6, <1>7, <1>8, <1>9, <1>10, <1>11, <1>12, <1>13 DEF BeaconNext, BeaconStep

LEMMA BeaconInvImplies == BeaconInv => DigestAtHead
<1> SUFFICES ASSUME BeaconInv, status = "Ok", read.version = VersionAt(epochOf(read.slot))
             PROVE  \/ digest = networkDigest(epochOf(read.slot))
                    \/ Steps[bpc] = "config" /\ epochOf(read.slot) >= network.fulu
  BY DEF DigestAtHead
<1> USE BeaconAssumption DEF BeaconAssumption
<1>1. PICK epoch \in Nat : epoch = epochOf(read.slot)
  BY EpochNat DEF BeaconInv
<1>2. network.fulu \in Nat /\ Steps[5] = "config"
  BY DEF BeaconInv, SpecInv, Steps
<1>3. CASE epoch < network.fulu
  <2>1. networkDigest(epoch) = base(VersionAt(epoch))
    BY <1>3 DEF networkDigest
  <2>2. digest = base(read.version)
    BY <1>1, <1>2, <1>3 DEF BeaconInv
  <2> QED
    BY <1>1, <2>1, <2>2
<1>4. CASE epoch >= network.fulu /\ bpc = 5
  BY <1>1, <1>2, <1>4
<1>5. CASE epoch >= network.fulu /\ bpc # 5
  <2> DEFINE inForce == {e \in network.blobs : e.epoch <= epoch}
             newest == {e \in inForce : \A o \in inForce : o.epoch <= e.epoch}
  <2>1. /\ turn = Len(spec.schedule) + 1
        /\ digest = maskedBy(read.version, IF best = {} THEN network.electra ELSE CHOOSE e \in best : TRUE)
    BY <1>1, <1>2, <1>5 DEF BeaconInv
  <2>2. LoopInv(epoch) /\ SpecInv /\ network.blobs \subseteq Entry
    BY <1>1 DEF BeaconInv, SpecInv
  <2>3. \A o \in inForce : \E e \in best : o.epoch <= e.epoch
    <3> SUFFICES ASSUME NEW o \in inForce PROVE \E e \in best : o.epoch <= e.epoch
      OBVIOUS
    <3>1. PICK k \in 1..Len(spec.schedule) : spec.schedule[k] = o
      BY <2>2 DEF SpecInv
    <3>2. k \in 1..turn - 1
      BY <2>1, <2>2, ScheduleEntry
    <3> QED
      BY <2>2, <3>1, <3>2 DEF LoopInv
  <2>4. \A o \in network.blobs : o.epoch \in Nat
    BY <2>2 DEF Entry
  <2>5. \A e \in best : e \in newest
    BY <2>2, <2>3 DEF LoopInv
  <2>6. \A e \in newest : e \in best
    <3> SUFFICES ASSUME NEW e \in newest PROVE e \in best
      OBVIOUS
    <3>1. PICK b \in best : e.epoch <= b.epoch
      BY <2>3
    <3>2. b \in newest /\ b.epoch <= e.epoch
      BY <2>5
    <3>3. e.epoch = b.epoch
      BY <2>4, <3>1, <3>2
    <3> QED
      BY <2>2, <3>2, <3>3 DEF SpecInv
  <2>7. newest = best
    BY <2>5, <2>6
  <2>8. networkDigest(epoch) = maskedBy(VersionAt(epoch),
          IF newest = {} THEN network.electra ELSE CHOOSE e \in newest : TRUE)
    BY <1>2, <1>5 DEF networkDigest
  <2> HIDE DEF newest
  <2> QED
    BY <1>1, <2>1, <2>7, <2>8
<1> QED
  BY <1>1, <1>2, <1>3, <1>4, <1>5

\* For any network with one blob-parameter entry per epoch, in whatever order
\* its schedule lists them and wherever the head moves between the requests:
\* the digest is the one the network uses at the head that Status reports.
THEOREM DigestAtHeadCorrect == BeaconSpec => []DigestAtHead
BY BeaconInvInit, BeaconInvStep, BeaconInvImplies, PTL DEF BeaconSpec
-----------------------------------------------------------------------------
(* The walk over a DNS tree.                                               *)

Kids(n) == entries[n].children
name(i) == stack[i].name
next(i) == stack[i].next

Leaf(n) == ValidateDNSBranch(entries[n]) /\ Kids(n) = << >>

\* Some path within the depth limit comes to n.
Near(n) == \E d \in 0..maxDepth : \E p \in Paths(d) : p[d] = n

\* The walk of n is over, without an error.
Settled(n) == n \in visited \/ (Leaf(n) /\ Near(n))

DnsTypeOK ==
  /\ entries \in [Names -> EntryKinds] /\ maxDepth \in Depths
  /\ enter \in Names \cup {0}
  /\ stack \in Seq([name : Names, next : Nat])
  /\ visited \subseteq Names
  /\ verdict \in {"None", "Ok", "Depth", "Cycle", "Missing", "Invalid"}

\* The names of the calls under way are a path from the root without a
\* repetition, none of them settled, while the children that each call has been
\* through are.
StackInv ==
  /\ visiting = {name(i) : i \in 1..Len(stack)}
  /\ Len(stack) <= maxDepth + 1
  /\ stack # << >> => name(1) = Root
  /\ \A i, j \in 1..Len(stack) : name(i) = name(j) => i = j
  /\ \A i \in 1..Len(stack) :
       /\ ValidateDNSBranch(entries[name(i)]) /\ name(i) \notin visited
       /\ next(i) \in 2..Len(Kids(name(i))) + 1
       /\ \A k \in 1..next(i) - 2 : Settled(Kids(name(i))[k])
       /\ i < Len(stack) => Kids(name(i))[next(i) - 1] = name(i + 1)

\* The name whose walk is next or, between calls, the one whose walk is over.
Current == IF stack = << >> THEN Root ELSE Kids(name(Len(stack)))[next(Len(stack)) - 1]

EnterInv == IF enter = 0 THEN Settled(Current) ELSE enter = Current

\* What lies below a name already found good is good, and free of cycles: every
\* set of such names has one without a child in the set.
VisitedInv ==
  /\ \A n \in visited :
       ValidateDNSBranch(entries[n]) /\ Near(n) /\ \A c \in Children(n) : Settled(c)
  /\ \A S \in SUBSET visited : S # {} => \E n \in S : Children(n) \cap S = {}

DnsInv ==
  /\ DnsTypeOK /\ StackInv /\ EnterInv /\ VisitedInv
  /\ verdict = "Ok" => Settled(Root)
  /\ verdict \notin {"None", "Ok"} => WalkVerdict

\* The graph and the limit do not change while it is walked.
LEMMA FixedGraph ==
  ASSUME UNCHANGED <<entries, maxDepth>>
  PROVE  \A n : /\ Kids(n)' = Kids(n) /\ Children(n)' = Children(n)
                /\ Leaf(n)' = Leaf(n) /\ Near(n)' = Near(n)
                /\ ValidateDNSBranch(entries[n])' = ValidateDNSBranch(entries[n])
<1>1. \A n : /\ Kids(n)' = Kids(n) /\ Children(n)' = Children(n) /\ Leaf(n)' = Leaf(n)
             /\ ValidateDNSBranch(entries[n])' = ValidateDNSBranch(entries[n])
  BY DEF Kids, Children, Leaf, ValidateDNSBranch
<1>2. \A d : Paths(d)' = Paths(d)
  BY <1>1 DEF Paths
<1>3. \A n : Near(n)' = Near(n)
  BY <1>2 DEF Near
<1> QED
  BY <1>1, <1>3

LEMMA KidsType ==
  ASSUME DnsTypeOK, NEW n \in Names
  PROVE  /\ Kids(n) \in Seq(Names) /\ Len(Kids(n)) \in Nat
         /\ \A k \in 1..Len(Kids(n)) : Kids(n)[k] \in Names
         /\ Children(n) \subseteq Names
         /\ ValidateDNSBranch(entries[n]) => \A k \in 1..Len(Kids(n)) : Kids(n)[k] \in Children(n)
         /\ \A c \in Children(n) : \E k \in 1..Len(Kids(n)) : c = Kids(n)[k]
<1>1. Kids(n) \in Seq(Names)
  BY DnsWalkAssumption DEF DnsTypeOK, Kids, DnsWalkAssumption
<1>2. /\ Len(Kids(n)) \in Nat /\ DOMAIN Kids(n) = 1..Len(Kids(n))
      /\ \A k \in 1..Len(Kids(n)) : Kids(n)[k] \in Names
  BY <1>1
<1>3. Children(n) = IF ValidateDNSBranch(entries[n]) THEN {Kids(n)[i] : i \in DOMAIN Kids(n)} ELSE {}
  BY DEF Children, Kids
<1> QED
  BY <1>1, <1>2, <1>3

LEMMA StackType ==
  ASSUME DnsTypeOK
  PROVE  /\ Len(stack) \in Nat /\ maxDepth \in Nat /\ Root \in Names /\ 0 \notin Names
         /\ stack # << >> <=> Len(stack) > 0
         /\ \A i \in 1..Len(stack) : name(i) \in Names /\ next(i) \in Nat
<1>1. stack \in Seq([name : Names, next : Nat])
  BY DEF DnsTypeOK
<1>2. Len(stack) \in Nat /\ \A i \in 1..Len(stack) : stack[i] \in [name : Names, next : Nat]
  <2>1. ASSUME NEW R, NEW q \in Seq(R) PROVE Len(q) \in Nat /\ \A i \in 1..Len(q) : q[i] \in R
    OBVIOUS
  <2> QED
    BY <1>1, <2>1, Zenon
<1>3. \A i \in 1..Len(stack) : name(i) \in Names /\ next(i) \in Nat
  BY <1>2 DEF name, next
<1>4. stack # << >> <=> Len(stack) > 0
  BY <1>1
<1>5. Root \in Names /\ 0 \notin Names
  BY DnsWalkAssumption DEF DnsWalkAssumption, Names, Root
<1>6. maxDepth \in Nat
  BY DnsWalkAssumption DEF DnsWalkAssumption, DnsTypeOK
<1> QED
  BY <1>2, <1>3, <1>4, <1>5, <1>6

\* The calls under way are on a path, one step short of the current name.
LEMMA StackPath ==
  ASSUME DnsTypeOK, StackInv, NEW i \in 1..Len(stack)
  PROVE  [k \in 0..i - 1 |-> name(k + 1)] \in Paths(i - 1)
<1> DEFINE p == [k \in 0..i - 1 |-> name(k + 1)]
<1>1. Len(stack) \in Nat /\ stack # << >> /\ name(1) = Root
  BY StackType DEF StackInv
<1>2. p \in [0..i - 1 -> Names] /\ p[0] = Root
  BY <1>1, StackType
<1>3. ASSUME NEW k \in 1..i - 1 PROVE p[k] \in Children(p[k - 1])
  <2>1. k \in 1..Len(stack) /\ k < Len(stack) /\ p[k - 1] = name(k) /\ p[k] = name(k + 1)
    BY <1>1
  <2>2. /\ ValidateDNSBranch(entries[name(k)]) /\ Kids(name(k))[next(k) - 1] = name(k + 1)
        /\ next(k) \in 2..Len(Kids(name(k))) + 1
    BY <2>1 DEF StackInv
  <2>3. name(k) \in Names
    BY <2>1, StackType
  <2>4. Len(Kids(name(k))) \in Nat /\ \A j \in 1..Len(Kids(name(k))) : Kids(name(k))[j] \in Children(name(k))
    BY <2>2, <2>3, KidsType
  <2>5. next(k) - 1 \in 1..Len(Kids(name(k)))
    BY <2>2, <2>4
  <2> HIDE DEF p
  <2> QED
    BY <2>1, <2>2, <2>4, <2>5
<1> HIDE DEF p
<1>4. p \in Paths(i - 1)
  BY <1>2, <1>3 DEF Paths
<1> QED
  BY <1>4 DEF p

LEMMA CurrentPath ==
  ASSUME DnsTypeOK, StackInv
  PROVE  /\ Current \in Names
         /\ \E p \in Paths(Len(stack)) :
              p[Len(stack)] = Current /\ \A i \in 1..Len(stack) : p[i - 1] = name(i)
<1>1. PICK n \in Nat : n = Len(stack)
  BY StackType
<1>2. CASE stack = << >>
  <2>1. n = 0 /\ Current = Root
    BY <1>1, <1>2 DEF Current
  <2>2. [k \in 0..0 |-> Root] \in Paths(0)
    BY StackType DEF Paths
  <2>3. \A i \in 1..0 : FALSE
    OBVIOUS
  <2> QED
    BY <1>1, <2>1, <2>2, <2>3, StackType
<1>3. CASE stack # << >>
  <2>1. n > 0 /\ n \in 1..Len(stack) /\ n - 1 \in Nat
    BY <1>1, <1>3, StackType
  <2>2. PICK q \in Paths(n - 1) : q = [k \in 0..n - 1 |-> name(k + 1)]
    BY <2>1, StackPath
  <2>3. /\ ValidateDNSBranch(entries[name(n)]) /\ next(n) \in 2..Len(Kids(name(n))) + 1
        /\ name(n) \in Names /\ Current = Kids(name(n))[next(n) - 1]
    BY <1>1, <1>3, <2>1, StackType DEF StackInv, Current
  <2>4. Current \in Children(name(n)) /\ Current \in Names
    BY <2>3, KidsType
  <2>5. PICK p \in [0..n -> Names] : p = [k \in 0..n |-> IF k = n THEN Current ELSE q[k]]
    <3>1. \A k \in 0..n : k # n => k \in 0..n - 1 /\ q[k] \in Names
      BY <2>1 DEF Paths
    <3> QED
      BY <2>4, <3>1
  <2>6. p[0] = Root /\ p[n] = Current /\ \A k \in 0..n - 1 : p[k] = q[k]
    BY <2>1, <2>5 DEF Paths
  <2>7. q[n - 1] = name(n)
    BY <2>1, <2>2
  <2>8. ASSUME NEW i \in 1..n PROVE p[i] \in Children(p[i - 1])
    <3>1. CASE i = n
      BY <2>1, <2>4, <2>6, <2>7, <3>1
    <3>2. CASE i # n
      BY <2>1, <2>6, <3>2 DEF Paths
    <3> QED
      BY <3>1, <3>2
  <2>9. p \in Paths(n)
    BY <2>6, <2>8 DEF Paths
  <2>10. \A i \in 1..n : p[i - 1] = name(i)
    BY <2>1, <2>2, <2>6
  <2> QED
    BY <1>1, <2>4, <2>6, <2>9, <2>10
<1> QED
  BY <1>2, <1>3

\* Distinct names: at most NameCount calls are under way.
LEMMA StackBound ==
  ASSUME DnsTypeOK, StackInv
  PROVE  Len(stack) <= NameCount
<1> SUFFICES ASSUME Len(stack) > NameCount PROVE FALSE
  BY StackType, DnsWalkAssumption DEF DnsWalkAssumption
<1> DEFINE f == [i \in 1..Len(stack) |-> name(i)]
<1>1. Len(stack) \in Nat /\ NameCount \in Nat /\ f \in [1..Len(stack) -> Names]
  BY StackType, DnsWalkAssumption DEF DnsWalkAssumption
<1>2. /\ IsFiniteSet(1..Len(stack)) /\ Cardinality(1..Len(stack)) = Len(stack)
      /\ IsFiniteSet(Names) /\ Cardinality(Names) = NameCount
  <2>1. \A m \in Nat : IsFiniteSet(1..m) /\ Cardinality(1..m) = m
    BY FS_Interval
  <2> QED
    BY <1>1, <2>1 DEF Names
<1> HIDE DEF f
<1>3. \E i, j \in 1..Len(stack) : i # j /\ f[i] = f[j]
  BY <1>1, <1>2, FS_PigeonHole
<1> QED
  BY <1>3 DEF f, StackInv

LEMMA DnsInvInit == DnsInit(Graphs) => DnsInv
<1> SUFFICES ASSUME DnsInit(Graphs) PROVE DnsInv
  OBVIOUS
<1>1. PICK g \in Graphs : entries = g.entries /\ maxDepth = g.depth
  BY DEF DnsInit
<1>2. entries \in [Names -> EntryKinds] /\ maxDepth \in Depths
  BY <1>1 DEF Graphs
<1>3. /\ enter = Root /\ stack = << >> /\ visiting = {} /\ visited = {} /\ verdict = "None"
      /\ Len(stack) = 0 /\ stack \in Seq([name : Names, next : Nat]) /\ Root \in Names /\ Root # 0
  BY DnsWalkAssumption DEF DnsInit, DnsWalkAssumption, Names, Root
<1>4. DnsTypeOK
  BY <1>2, <1>3 DEF DnsTypeOK
<1>5. StackInv
  <2>1. maxDepth \in Nat /\ \A i \in 1..Len(stack) : FALSE
    BY <1>3, <1>4, StackType
  <2> QED
    BY <1>3, <2>1 DEF StackInv
<1>6. EnterInv
  BY <1>3 DEF EnterInv, Current
<1>7. VisitedInv
  BY <1>3 DEF VisitedInv
<1> QED
  BY <1>3, <1>4, <1>5, <1>6, <1>7 DEF DnsInv

\* A name within the limit, on the path, is near.
LEMMA CurrentNear ==
  ASSUME DnsTypeOK, StackInv, Len(stack) <= maxDepth
  PROVE  Near(Current)
<1>1. PICK p \in Paths(Len(stack)) : p[Len(stack)] = Current
  BY CurrentPath
<1>2. Len(stack) \in 0..maxDepth
  BY StackType
<1> QED
  BY <1>1, <1>2 DEF Near

LEMMA TopNear ==
  ASSUME DnsTypeOK, StackInv, stack # << >>
  PROVE  Near(name(Len(stack)))
<1>1. PICK n \in Nat : n = Len(stack)
  BY StackType
<1>2. n \in 1..Len(stack) /\ n - 1 \in 0..maxDepth
  BY <1>1, StackType DEF StackInv
<1>3. PICK q \in Paths(n - 1) : q = [k \in 0..n - 1 |-> name(k + 1)]
  BY <1>2, StackPath
<1>4. q[n - 1] = name(n)
  BY <1>2, <1>3
<1> QED
  BY <1>1, <1>2, <1>3, <1>4 DEF Near

\* What walk returns at once.
LEMMA Refusals ==
  ASSUME DnsTypeOK, StackInv, EnterInv, enter # 0
  PROVE  /\ enter = Current /\ enter \in Names
         /\ refusal(enter, Len(stack)) \in {"None", "Depth", "Cycle", "Missing", "Invalid"}
         /\ refusal(enter, Len(stack)) = "None" =>
              /\ Len(stack) <= maxDepth /\ enter \notin visiting
              /\ enter \notin visited => ValidateDNSBranch(entries[enter])
         /\ refusal(enter, Len(stack)) = "Depth" => Len(stack) = maxDepth + 1
         /\ refusal(enter, Len(stack)) = "Cycle" => enter \in visiting
         /\ refusal(enter, Len(stack)) = "Missing" => entries[enter].kind = "Missing"
         /\ refusal(enter, Len(stack)) = "Invalid" => ~ValidateDNSBranch(entries[enter])
<1>1. enter = Current /\ enter \in Names
  BY StackType DEF EnterInv, DnsTypeOK
<1>2. Len(stack) \in Nat /\ maxDepth \in Nat /\ Len(stack) <= maxDepth + 1
  BY StackType DEF StackInv
<1> QED
  BY <1>1, <1>2 DEF refusal

\* An error names a path, a cycle or an entry that exists.
LEMMA FailInv ==
  ASSUME DnsInv, WalkFails
  PROVE  DnsInv'
<1>1. /\ DnsTypeOK /\ StackInv /\ EnterInv /\ VisitedInv
      /\ UNCHANGED <<entries, maxDepth, enter, stack, visiting, visited>> /\ enter # 0
      /\ verdict' = refusal(enter, Len(stack)) /\ refusal(enter, Len(stack)) # "None"
  BY DEF DnsInv, WalkFails
<1>2. PICK d \in Nat : d = Len(stack)
  BY <1>1, StackType
<1>3. PICK p \in Paths(d) : p[d] = enter /\ \A i \in 1..d : p[i - 1] = name(i)
  BY <1>1, <1>2, CurrentPath, Refusals
<1>4. d \in 0..NameCount
  BY <1>1, <1>2, StackBound, DnsWalkAssumption DEF DnsWalkAssumption
<1>5. /\ enter \in Names
      /\ verdict' = "Depth" => d = maxDepth + 1
      /\ verdict' = "Cycle" => enter \in visiting
      /\ verdict' = "Missing" => entries[enter].kind = "Missing"
      /\ verdict' = "Invalid" => ~ValidateDNSBranch(entries[enter])
      /\ verdict' \in {"Depth", "Cycle", "Missing", "Invalid"}
  BY <1>1, <1>2, Refusals
<1>6. verdict' = "Depth" => Paths(maxDepth + 1) # {}
  BY <1>3, <1>5
<1>7. verdict' = "Cycle" => ~IsInjective(p)
  <2> SUFFICES ASSUME verdict' = "Cycle" PROVE ~IsInjective(p)
    OBVIOUS
  <2>1. PICK i \in 1..d : name(i) = enter
    BY <1>1, <1>2, <1>5 DEF StackInv
  <2>2. p[i - 1] = p[d] /\ i - 1 # d /\ i - 1 \in 0..d /\ d \in 0..d /\ DOMAIN p = 0..d
    BY <1>3, <2>1 DEF Paths
  <2> QED
    BY <2>2 DEF IsInjective
<1>8. /\ \A e : Paths(e)' = Paths(e)
      /\ ValidateDNSBranch(entries[enter])' = ValidateDNSBranch(entries[enter])
  <2>1. \A n : Children(n)' = Children(n)
    BY <1>1, FixedGraph
  <2> QED
    BY <1>1, <2>1 DEF Paths, ValidateDNSBranch
<1>9. WalkVerdict'
  <2>1. CASE verdict' = "Depth"
    BY <1>1, <1>6, <1>8, <2>1 DEF WalkVerdict
  <2>2. CASE verdict' = "Cycle"
    BY <1>3, <1>4, <1>7, <1>8, <2>2 DEF WalkVerdict
  <2>3. CASE verdict' = "Missing"
    <3>1. /\ enter \in Names /\ entries'[enter].kind = "Missing"
          /\ \E e \in 0..NameCount : \E q \in Paths(e)' : q[e] = enter
      BY <1>1, <1>3, <1>4, <1>5, <1>8, <2>3
    <3> QED
      BY <2>3, <3>1 DEF WalkVerdict
  <2>4. CASE verdict' = "Invalid"
    <3>1. /\ enter \in Names /\ ~ValidateDNSBranch(entries[enter])'
          /\ \E e \in 0..NameCount : \E q \in Paths(e)' : q[e] = enter
      BY <1>1, <1>3, <1>4, <1>5, <1>8, <2>4
    <3>2. ~ValidateDNSBranch(entries'[enter])
      BY <1>1, <3>1
    <3> QED
      BY <2>4, <3>1, <3>2 DEF WalkVerdict
  <2> QED
    BY <1>5, <2>1, <2>2, <2>3, <2>4
<1>10. DnsTypeOK'
  BY <1>1, <1>5 DEF DnsTypeOK
<1>11. \A n : Settled(n)' = Settled(n)
  BY <1>1, FixedGraph DEF Settled
<1>12. StackInv' /\ EnterInv' /\ VisitedInv'
  BY <1>1, <1>11, FixedGraph DEF StackInv, EnterInv, VisitedInv, Current, name, next
<1> QED
  BY <1>5, <1>9, <1>10, <1>12 DEF DnsInv

LEMMA FixedStack ==
  ASSUME UNCHANGED <<entries, maxDepth, stack, visiting, visited>>, StackInv, VisitedInv
  PROVE  StackInv' /\ VisitedInv'
<1>1. \A n : Settled(n)' = Settled(n)
  BY FixedGraph DEF Settled
<1>2. \A i : name(i)' = name(i) /\ next(i)' = next(i)
  BY DEF name, next
<1>3. StackInv'
  <2>1. visiting' = {name(i)' : i \in 1..Len(stack')}
    BY DEF StackInv, name
  <2>2. ASSUME NEW i \in 1..Len(stack')
        PROVE  /\ ValidateDNSBranch(entries[name(i)])' /\ name(i)' \notin visited'
               /\ next(i)' \in 2..Len(Kids(name(i))') + 1
               /\ \A k \in 1..next(i)' - 2 : Settled(Kids(name(i))[k])'
               /\ i < Len(stack') => Kids(name(i))'[next(i)' - 1] = name(i + 1)'
    <3>1. i \in 1..Len(stack)
      OBVIOUS
    <3>2. /\ ValidateDNSBranch(entries[name(i)]) /\ name(i) \notin visited
          /\ next(i) \in 2..Len(Kids(name(i))) + 1
          /\ \A k \in 1..next(i) - 2 : Settled(Kids(name(i))[k])
          /\ i < Len(stack) => Kids(name(i))[next(i) - 1] = name(i + 1)
      BY <3>1 DEF StackInv
    <3> QED
      BY <1>1, <1>2, <3>2, FixedGraph DEF name, next
  <2>3. /\ Len(stack') <= maxDepth' + 1 /\ (stack' # <<>> => name(1)' = Root)
        /\ \A i, j \in 1..Len(stack') : name(i)' = name(j)' => i = j
    BY <1>2 DEF StackInv, Root
  <2> QED
    BY <2>1, <2>2, <2>3 DEF StackInv
<1>4. VisitedInv'
  <2>1. \A n \in visited' :
          /\ ValidateDNSBranch(entries[n])' /\ Near(n)'
          /\ \A c \in Children(n)' : Settled(c)'
    BY <1>1, FixedGraph DEF VisitedInv
  <2>2. \A S \in SUBSET visited' : S # {} => \E n \in S : Children(n)' \cap S = {}
    BY FixedGraph DEF VisitedInv
  <2> QED
    BY <2>1, <2>2 DEF VisitedInv
<1> QED
  BY <1>3, <1>4

LEMMA ReturnInv ==
  ASSUME DnsInv, WalkReturns
  PROVE  DnsInv'
<1>1. /\ DnsTypeOK /\ StackInv /\ EnterInv /\ VisitedInv /\ verdict = "None"
      /\ UNCHANGED <<entries, maxDepth, stack, visiting, visited, verdict>> /\ enter # 0 /\ enter' = 0
      /\ refusal(enter, Len(stack)) = "None" /\ (enter \in visited \/ Kids(enter) = << >>)
  BY DEF DnsInv, WalkReturns, Kids
<1>2. /\ enter = Current /\ Len(stack) <= maxDepth
      /\ enter \notin visited => ValidateDNSBranch(entries[enter])
  BY <1>1, Refusals
<1>3. Settled(Current)
  BY <1>1, <1>2, CurrentNear DEF Settled, Leaf
<1>4. \A n : Settled(n)' = Settled(n)
  BY <1>1, FixedGraph DEF Settled
<1>5. DnsTypeOK'
  BY <1>1 DEF DnsTypeOK
<1>6. StackInv' /\ VisitedInv'
  BY <1>1, FixedStack
<1>7. Current' = Current
  BY <1>1, FixedGraph DEF Current, name, next
<1>8. EnterInv'
  BY <1>1, <1>3, <1>4, <1>7 DEF EnterInv
<1> QED
  BY <1>1, <1>5, <1>6, <1>8 DEF DnsInv

LEMMA EndInv ==
  ASSUME DnsInv, WalkEnds
  PROVE  DnsInv'
<1>1. /\ DnsTypeOK /\ StackInv /\ EnterInv /\ VisitedInv
      /\ UNCHANGED <<entries, maxDepth, enter, stack, visiting, visited>>
      /\ enter = 0 /\ stack = << >> /\ verdict' = "Ok"
  BY DEF DnsInv, WalkEnds
<1>2. Settled(Root)
  BY <1>1 DEF EnterInv, Current
<1>3. \A n : Settled(n)' = Settled(n)
  BY <1>1, FixedGraph DEF Settled
<1>4. DnsTypeOK'
  BY <1>1 DEF DnsTypeOK
<1>5. StackInv' /\ EnterInv' /\ VisitedInv'
  BY <1>1, <1>3, FixedGraph DEF StackInv, EnterInv, VisitedInv, Current, name, next
<1> QED
  BY <1>1, <1>2, <1>3, <1>4, <1>5 DEF DnsInv

LEMMA DescendInv ==
  ASSUME DnsInv, WalkDescends
  PROVE  DnsInv'
<1>1. /\ DnsTypeOK /\ StackInv /\ EnterInv /\ VisitedInv /\ verdict = "None"
      /\ UNCHANGED <<entries, maxDepth, visited, verdict>> /\ enter # 0
      /\ refusal(enter, Len(stack)) = "None" /\ enter \notin visited /\ Kids(enter) # << >>
      /\ visiting' = visiting \cup {enter} /\ enter' = Kids(enter)[1]
      /\ stack' = Append(stack, [name |-> enter, next |-> 2])
  BY DEF DnsInv, WalkDescends, Kids
<1>2. /\ enter = Current /\ enter \in Names /\ Len(stack) <= maxDepth /\ enter \notin visiting
      /\ ValidateDNSBranch(entries[enter])
  BY <1>1, Refusals
<1>3. PICK n \in Nat : n = Len(stack)
  BY <1>1, StackType
<1>4. /\ stack' \in Seq([name : Names, next : Nat]) /\ Len(stack') = n + 1
      /\ stack'[n + 1] = [name |-> enter, next |-> 2] /\ \A i \in 1..n : stack'[i] = stack[i]
  <2>1. [name |-> enter, next |-> 2] \in [name : Names, next : Nat]
    BY <1>2
  <2>2. PICK R : R = [name : Names, next : Nat]
    OBVIOUS
  <2>3. stack \in Seq(R)
    BY <1>1, <2>2 DEF DnsTypeOK
  <2>4. PICK r \in R : r = [name |-> enter, next |-> 2]
    BY <2>1, <2>2
  <2>5. stack' = Append(stack, r)
    BY <1>1, <2>4
  <2>6. /\ stack' \in Seq(R) /\ Len(stack') = n + 1
        /\ stack'[n + 1] = r /\ \A i \in 1..n : stack'[i] = stack[i]
    BY <1>3, <2>3, <2>5
  <2> QED
    BY <2>2, <2>4, <2>6
<1>5. /\ name(n + 1)' = enter /\ next(n + 1)' = 2
      /\ \A i \in 1..n : name(i)' = name(i) /\ next(i)' = next(i)
  BY <1>4 DEF name, next
<1>6. /\ Len(Kids(enter)) \in Nat /\ Len(Kids(enter)) > 0 /\ Kids(enter)[1] \in Names
  <2>1. /\ Kids(enter) \in Seq(Names) /\ \A k \in 1..Len(Kids(enter)) : Kids(enter)[k] \in Names
    BY <1>1, <1>2, KidsType
  <2>2. Len(Kids(enter)) \in Nat /\ Len(Kids(enter)) > 0
    BY <1>1, <2>1
  <2> QED
    BY <2>1, <2>2
<1>7. DnsTypeOK'
  BY <1>1, <1>4, <1>6 DEF DnsTypeOK
<1>8. \A m : Settled(m)' = Settled(m)
  BY <1>1, FixedGraph DEF Settled
<1>9. VisitedInv'
  BY <1>1, <1>8, FixedGraph DEF VisitedInv
<1>10. \A i \in 1..Len(stack') : i \in 1..n \/ i = n + 1
  BY <1>4
<1>11. n > 0 => enter = Kids(name(n))[next(n) - 1]
  BY <1>1, <1>2, <1>3, StackType DEF Current
<1>12. stack # << >> <=> n > 0
  BY <1>1, <1>3, StackType
<1>13. StackInv'
  <2>1. visiting' = {name(i)' : i \in 1..Len(stack')}
    BY <1>1, <1>3, <1>4, <1>5, <1>10 DEF StackInv
  <2>2. Len(stack') <= maxDepth' + 1
    BY <1>1, <1>2, <1>3, <1>4, StackType
  <2>3. name(1)' = Root
    <3>1. CASE n = 0
      BY <1>2, <1>5, <1>12, <3>1 DEF Current
    <3>2. CASE n > 0
      BY <1>1, <1>5, <1>12, <3>2 DEF StackInv
    <3> QED
      BY <3>1, <3>2
  <2>4. ASSUME NEW i \in 1..Len(stack'), NEW j \in 1..Len(stack'), name(i)' = name(j)' PROVE i = j
    <3>1. \A k \in 1..n : name(k) # enter
      BY <1>1, <1>2, <1>3 DEF StackInv
    <3>2. \A k, l \in 1..n : name(k) = name(l) => k = l
      BY <1>1, <1>3 DEF StackInv
    <3>3. (i \in 1..n \/ i = n + 1) /\ (j \in 1..n \/ j = n + 1)
      BY <1>10
    <3> QED
      BY <1>5, <2>4, <3>1, <3>2, <3>3
  <2>5. ASSUME NEW i \in 1..Len(stack')
        PROVE  /\ ValidateDNSBranch(entries[name(i)])' /\ name(i)' \notin visited'
               /\ next(i)' \in 2..Len(Kids(name(i))') + 1
               /\ \A k \in 1..next(i)' - 2 : Settled(Kids(name(i))[k])'
               /\ i < Len(stack') => Kids(name(i))'[next(i)' - 1] = name(i + 1)'
    <3>0. \A m : Kids(m)' = Kids(m) /\ ValidateDNSBranch(entries[m])' = ValidateDNSBranch(entries[m])
      BY <1>1, FixedGraph
    <3>1. CASE i = n + 1
      <4>1. /\ ValidateDNSBranch(entries[name(i)])' /\ name(i)' \notin visited'
            /\ Kids(name(i))' = Kids(enter)
        BY <1>1, <1>2, <1>5, <3>1 DEF Kids, ValidateDNSBranch
      <4>2. next(i)' = 2 /\ next(i)' \in 2..Len(Kids(name(i))') + 1 /\ ~(i < Len(stack'))
        BY <1>4, <1>5, <1>6, <3>1, <4>1
      <4>3. \A k \in 1..next(i)' - 2 : FALSE
        BY <4>2
      <4> QED
        BY <4>1, <4>2, <4>3
    <3>2. CASE i \in 1..n
      <4>1. /\ ValidateDNSBranch(entries[name(i)]) /\ name(i) \notin visited
            /\ next(i) \in 2..Len(Kids(name(i))) + 1
            /\ \A k \in 1..next(i) - 2 : Settled(Kids(name(i))[k])
            /\ i < n => Kids(name(i))[next(i) - 1] = name(i + 1)
        BY <1>1, <1>3, <3>2 DEF StackInv
      <4>2. Kids(name(i))' = Kids(name(i)) /\ ValidateDNSBranch(entries[name(i)])' = ValidateDNSBranch(entries[name(i)])
        BY <1>1, <1>5, <3>2 DEF Kids, ValidateDNSBranch
      <4>3. \A k \in 1..next(i)' - 2 : Settled(Kids(name(i))[k])'
        <5> SUFFICES ASSUME NEW k \in 1..next(i)' - 2 PROVE Settled(Kids(name(i))[k])'
          OBVIOUS
        <5>1. PICK c : c = Kids(name(i))[k] /\ Settled(c)
          BY <1>5, <3>2, <4>1
        <5>2. Kids(name(i))[k]' = c /\ Settled(c)'
          BY <1>8, <4>2, <5>1
        <5> QED
          BY <5>2 DEF Settled, Leaf, Near, Kids
      <4>4. i < Len(stack') => Kids(name(i))'[next(i)' - 1] = name(i + 1)'
        <5>1. CASE i = n
          BY <1>4, <1>5, <1>11, <3>2, <4>2, <5>1
        <5>2. CASE i < n
          <6>1. i + 1 \in 1..n
            BY <3>2, <5>2
          <6> QED
            BY <1>5, <3>2, <4>1, <4>2, <5>2, <6>1
        <5> QED
          BY <3>2, <5>1, <5>2
      <4> QED
        BY <1>1, <1>5, <3>2, <4>1, <4>2, <4>3, <4>4
    <3> QED
      BY <1>10, <3>1, <3>2
  <2> QED
    BY <2>1, <2>2, <2>3, <2>4, <2>5 DEF StackInv
<1>14. EnterInv'
  <2>1. stack' # << >> /\ Kids(name(n + 1))' = Kids(enter) /\ next(n + 1)' - 1 = 1
    BY <1>1, <1>4, <1>5 DEF Kids
  <2>2. Current' = Kids(enter)[1]
    BY <1>4, <2>1 DEF Current
  <2>3. enter' # 0
    BY <1>1, <1>6, StackType
  <2> QED
    BY <1>1, <2>2, <2>3 DEF EnterInv
<1> QED
  BY <1>1, <1>7, <1>9, <1>13, <1>14 DEF DnsInv

LEMMA NextChildInv ==
  ASSUME DnsInv, NextChild
  PROVE  DnsInv'
<1>1. PICK n \in Nat : n = Len(stack)
  BY StackType DEF DnsInv
<1>2. /\ DnsTypeOK /\ StackInv /\ EnterInv /\ VisitedInv /\ verdict = "None"
      /\ UNCHANGED <<entries, maxDepth, visiting, visited, verdict>> /\ enter = 0 /\ stack # << >>
      /\ next(n) <= Len(Kids(name(n))) /\ enter' = Kids(name(n))[next(n)]
      /\ stack' = [stack EXCEPT ![n].next = @ + 1]
  BY <1>1 DEF DnsInv, NextChild, Kids, name, next
<1>3. n > 0 /\ n \in 1..n /\ name(n) \in Names /\ next(n) \in Nat /\ next(n) + 1 \in Nat
  BY <1>1, <1>2, StackType
<1>4. /\ stack' \in Seq([name : Names, next : Nat]) /\ Len(stack') = n
      /\ stack'[n] = [name |-> name(n), next |-> next(n) + 1]
      /\ \A i \in 1..n - 1 : stack'[i] = stack[i]
  <2>1. PICK R : R = [name : Names, next : Nat]
    OBVIOUS
  <2>2. stack \in Seq(R) /\ stack[n] \in R
    <3>1. stack \in Seq(R)
      BY <1>2, <2>1 DEF DnsTypeOK
    <3> QED
      BY <1>1, <1>3, <3>1
  <2>3. PICK r \in R : r = [name |-> name(n), next |-> next(n) + 1]
    BY <1>3, <2>1
  <2>4. r = [stack[n] EXCEPT !.next = @ + 1]
    BY <2>1, <2>2, <2>3 DEF name, next
  <2>5. stack' = [stack EXCEPT ![n] = r]
    BY <1>2, <2>4
  <2>6. /\ stack' \in Seq(R) /\ Len(stack') = n
        /\ stack'[n] = r /\ \A i \in 1..n - 1 : stack'[i] = stack[i]
    BY <1>1, <1>3, <2>2, <2>5
  <2> QED
    BY <2>1, <2>3, <2>6
<1>5. /\ \A i \in 1..n : name(i)' = name(i)
      /\ next(n)' = next(n) + 1 /\ \A i \in 1..n - 1 : next(i)' = next(i)
  <2>1. \A i \in 1..n : i = n \/ i \in 1..n - 1
    OBVIOUS
  <2>2. \A i \in 1..n - 1 : name(i)' = name(i) /\ next(i)' = next(i)
    BY <1>4 DEF name, next
  <2>3. name(n)' = name(n) /\ next(n)' = next(n) + 1
    BY <1>3, <1>4 DEF name, next
  <2> QED
    BY <2>1, <2>2, <2>3
<1>6. /\ next(n) \in 2..Len(Kids(name(n))) + 1
      /\ \A k \in 1..next(n) - 2 : Settled(Kids(name(n))[k])
      /\ Settled(Kids(name(n))[next(n) - 1])
  BY <1>1, <1>2, <1>3 DEF StackInv, EnterInv, Current
<1>7. /\ Len(Kids(name(n))) \in Nat /\ Kids(name(n))[next(n)] \in Names
      /\ next(n) \in 1..Len(Kids(name(n)))
  <2>1. /\ Len(Kids(name(n))) \in Nat /\ \A k \in 1..Len(Kids(name(n))) : Kids(name(n))[k] \in Names
    BY <1>2, <1>3, KidsType
  <2>2. next(n) \in 1..Len(Kids(name(n)))
    BY <1>2, <1>6, <2>1
  <2> QED
    BY <2>1, <2>2
<1>8. DnsTypeOK'
  BY <1>2, <1>4, <1>7 DEF DnsTypeOK
<1>9. \A m : Settled(m)' = Settled(m)
  BY <1>2, FixedGraph DEF Settled
<1>10. VisitedInv'
  BY <1>2, <1>9, FixedGraph DEF VisitedInv
<1>11. \A i \in 1..n : Kids(name(i))' = Kids(name(i)) /\ ValidateDNSBranch(entries[name(i)])' = ValidateDNSBranch(entries[name(i)])
  BY <1>2, <1>5 DEF Kids, ValidateDNSBranch
<1>12. StackInv'
  <2>1. visiting' = {name(i)' : i \in 1..Len(stack')}
    BY <1>1, <1>2, <1>4, <1>5 DEF StackInv
  <2>2. Len(stack') <= maxDepth' + 1 /\ name(1)' = Root
    <3>1. 1 \in 1..n /\ name(1) = Root /\ Len(stack) <= maxDepth + 1
      BY <1>2, <1>3 DEF StackInv
    <3> QED
      BY <1>1, <1>2, <1>4, <1>5, <3>1
  <2>3. \A i, j \in 1..Len(stack') : name(i)' = name(j)' => i = j
    BY <1>1, <1>2, <1>4, <1>5 DEF StackInv
  <2>4. ASSUME NEW i \in 1..Len(stack')
        PROVE  /\ ValidateDNSBranch(entries[name(i)])' /\ name(i)' \notin visited'
               /\ next(i)' \in 2..Len(Kids(name(i))') + 1
               /\ \A k \in 1..next(i)' - 2 : Settled(Kids(name(i))[k])'
               /\ i < Len(stack') => Kids(name(i))'[next(i)' - 1] = name(i + 1)'
    <3>1. /\ ValidateDNSBranch(entries[name(i)]) /\ name(i) \notin visited
          /\ next(i) \in 2..Len(Kids(name(i))) + 1
          /\ \A k \in 1..next(i) - 2 : Settled(Kids(name(i))[k])
          /\ i < n => Kids(name(i))[next(i) - 1] = name(i + 1)
      BY <1>1, <1>2, <1>4 DEF StackInv
    <3>2. next(i)' \in 2..Len(Kids(name(i))) + 1 /\ \A k \in 1..next(i)' - 2 : Settled(Kids(name(i))[k])
      <4>1. CASE i = n
        <5>1. \A k \in 1..next(n) - 1 : k \in 1..next(n) - 2 \/ k = next(n) - 1
          BY <1>3
        <5>2. next(n)' - 2 = next(n) - 1
          BY <1>3, <1>5
        <5> QED
          BY <1>5, <1>6, <1>7, <4>1, <5>1, <5>2
      <4>2. CASE i # n
        <5>1. i \in 1..n - 1
          BY <1>4, <4>2
        <5> QED
          BY <1>5, <3>1, <5>1
      <4> QED
        BY <4>1, <4>2
    <3>3. \A k \in 1..next(i)' - 2 : Settled(Kids(name(i))[k])'
      <4> SUFFICES ASSUME NEW k \in 1..next(i)' - 2 PROVE Settled(Kids(name(i))[k])'
        OBVIOUS
      <4>1. PICK c : c = Kids(name(i))[k] /\ Settled(c)
        BY <3>2
      <4>2. Kids(name(i))[k]' = c /\ Settled(c)'
        BY <1>4, <1>9, <1>11, <4>1
      <4> QED
        BY <4>2 DEF Settled, Leaf, Near, Kids
    <3>4. i < n => Kids(name(i))'[next(i)' - 1] = name(i + 1)'
      <4> SUFFICES ASSUME i < n PROVE Kids(name(i))'[next(i)' - 1] = name(i + 1)'
        OBVIOUS
      <4>1. i \in 1..n - 1 /\ i + 1 \in 1..n /\ i \in 1..n
        BY <1>4
      <4> QED
        BY <1>5, <1>11, <3>1, <4>1
    <3> QED
      BY <1>2, <1>4, <1>5, <1>11, <3>1, <3>2, <3>3, <3>4
  <2> QED
    BY <2>1, <2>2, <2>3, <2>4 DEF StackInv
<1>13. EnterInv'
  <2>1. stack' # << >> /\ Kids(name(n))' = Kids(name(n)) /\ next(n)' - 1 = next(n)
    BY <1>3, <1>4, <1>5, <1>11
  <2>2. Current' = Kids(name(n))[next(n)]
    BY <1>4, <2>1 DEF Current
  <2>3. enter' # 0
    BY <1>2, <1>7, StackType
  <2> QED
    BY <1>2, <2>2, <2>3 DEF EnterInv
<1> QED
  BY <1>2, <1>8, <1>10, <1>12, <1>13 DEF DnsInv

\* A name is marked as visited once all its children are settled; it is no
\* child of any name visited before, nor of its own.
LEMMA DoneInv ==
  ASSUME DnsInv, ChildrenDone
  PROVE  DnsInv'
<1>1. PICK n \in Nat : n = Len(stack)
  BY StackType DEF DnsInv
<1>2. PICK t : t = name(n)
  OBVIOUS
<1>3. /\ DnsTypeOK /\ StackInv /\ EnterInv /\ VisitedInv /\ verdict = "None"
      /\ UNCHANGED <<entries, maxDepth, enter, verdict>> /\ enter = 0 /\ stack # << >>
      /\ next(n) > Len(Kids(t)) /\ visited' = visited \cup {t} /\ visiting' = visiting \ {t}
      /\ stack' = SubSeq(stack, 1, n - 1)
  BY <1>1, <1>2 DEF DnsInv, ChildrenDone, Kids, name, next, Front, forget
<1>4. n > 0 /\ n \in 1..n /\ t \in Names /\ next(n) \in Nat
  BY <1>1, <1>2, <1>3, StackType
<1>5. /\ stack' \in Seq([name : Names, next : Nat]) /\ Len(stack') = n - 1
      /\ \A i \in 1..n - 1 : stack'[i] = stack[i]
  <2>1. PICK R : R = [name : Names, next : Nat]
    OBVIOUS
  <2>2. stack \in Seq(R)
    BY <1>3, <2>1 DEF DnsTypeOK
  <2>3. stack' \in Seq(R) /\ Len(stack') = n - 1 /\ \A i \in 1..n - 1 : stack'[i] = stack[i]
    BY <1>1, <1>3, <1>4, <2>2
  <2> QED
    BY <2>1, <2>3
<1>6. \A i \in 1..n - 1 : i \in 1..n /\ name(i)' = name(i) /\ next(i)' = next(i)
  BY <1>4, <1>5 DEF name, next
<1>7. /\ ValidateDNSBranch(entries[t]) /\ t \notin visited /\ Near(t) /\ ~Leaf(t)
      /\ \A c \in Children(t) : Settled(c)
  <2>1. /\ next(n) \in 2..Len(Kids(t)) + 1 /\ ValidateDNSBranch(entries[t]) /\ t \notin visited
        /\ \A k \in 1..next(n) - 2 : Settled(Kids(t)[k])
        /\ Settled(Kids(t)[next(n) - 1])
    BY <1>1, <1>2, <1>3, <1>4 DEF StackInv, EnterInv, Current
  <2>2. Len(Kids(t)) \in Nat /\ \A c \in Children(t) : \E k \in 1..Len(Kids(t)) : c = Kids(t)[k]
    BY <1>3, <1>4, KidsType
  <2>3. next(n) = Len(Kids(t)) + 1 /\ Len(Kids(t)) > 0
    BY <1>3, <1>4, <2>1, <2>2
  <2>4. \A k \in 1..Len(Kids(t)) : k \in 1..next(n) - 2 \/ k = next(n) - 1
    BY <2>2, <2>3
  <2>5. ~Leaf(t)
    BY <2>3 DEF Leaf
  <2>6. Near(t)
    BY <1>1, <1>2, <1>3, TopNear
  <2> QED
    BY <2>1, <2>2, <2>4, <2>5, <2>6
<1>8. ~Settled(t)
  BY <1>7 DEF Settled
<1>9. \A m : /\ Kids(m)' = Kids(m) /\ Children(m)' = Children(m) /\ Near(m)' = Near(m)
             /\ ValidateDNSBranch(entries[m])' = ValidateDNSBranch(entries[m])
             /\ Settled(m) => Settled(m)'
  BY <1>3, FixedGraph DEF Settled
<1>10. DnsTypeOK'
  BY <1>3, <1>4, <1>5 DEF DnsTypeOK
<1>11. VisitedInv'
  <2>1. ASSUME NEW m \in visited'
        PROVE  ValidateDNSBranch(entries[m])' /\ Near(m)' /\ \A c \in Children(m)' : Settled(c)'
    <3>1. ValidateDNSBranch(entries[m]) /\ Near(m) /\ \A c \in Children(m) : Settled(c)
      BY <1>3, <1>7 DEF VisitedInv
    <3> QED
      BY <1>9, <3>1
  <2>2. ASSUME NEW S \in SUBSET visited', S # {} PROVE \E m \in S : Children(m) \cap S = {}
    <3>1. \A m \in visited' : t \notin Children(m)
      BY <1>3, <1>7, <1>8 DEF VisitedInv
    <3>2. CASE S \ {t} = {}
      <4>1. S = {t}
        BY <2>2, <3>2
      <4> QED
        BY <1>3, <3>1, <4>1
    <3>3. CASE S \ {t} # {}
      <4>1. S \ {t} \in SUBSET visited
        BY <1>3
      <4>2. PICK m \in S \ {t} : Children(m) \cap (S \ {t}) = {}
        BY <1>3, <3>3, <4>1 DEF VisitedInv
      <4>3. t \notin Children(m)
        BY <3>1
      <4> QED
        BY <4>2, <4>3
    <3> QED
      BY <3>2, <3>3
  <2>3. \A S \in SUBSET visited' : S # {} => \E m \in S : Children(m)' \cap S = {}
    BY <1>9, <2>2
  <2> QED
    BY <2>1, <2>3 DEF VisitedInv
<1>12. \A i \in 1..n - 1 : name(i) # t
  <2> SUFFICES ASSUME NEW i \in 1..n - 1, name(i) = t PROVE FALSE
    OBVIOUS
  <2>1. i \in 1..Len(stack) /\ n \in 1..Len(stack)
    BY <1>1, <1>4
  <2>2. i = n
    BY <1>2, <1>3, <2>1 DEF StackInv
  <2> QED
    BY <2>2
<1>13. StackInv'
  <2>1. visiting' = {name(i)' : i \in 1..Len(stack')}
    <3>1. visiting = {name(i) : i \in 1..n}
      BY <1>1, <1>3 DEF StackInv
    <3>2. \A i \in 1..n : i = n \/ i \in 1..n - 1
      OBVIOUS
    <3> QED
      BY <1>2, <1>3, <1>5, <1>6, <1>12, <3>1, <3>2
  <2>2. Len(stack') <= maxDepth' + 1
    BY <1>1, <1>3, <1>4, <1>5, StackType DEF StackInv
  <2>3. stack' # << >> => name(1)' = Root
    <3> SUFFICES ASSUME stack' # << >> PROVE name(1)' = Root
      OBVIOUS
    <3>1. n - 1 > 0
      BY <1>4, <1>5, <1>10, StackType
    <3> QED
      BY <1>3, <1>6, <3>1 DEF StackInv
  <2>4. \A i, j \in 1..Len(stack') : name(i)' = name(j)' => i = j
    BY <1>1, <1>3, <1>5, <1>6 DEF StackInv
  <2>5. ASSUME NEW i \in 1..Len(stack')
        PROVE  /\ ValidateDNSBranch(entries[name(i)])' /\ name(i)' \notin visited'
               /\ next(i)' \in 2..Len(Kids(name(i))') + 1
               /\ \A k \in 1..next(i)' - 2 : Settled(Kids(name(i))[k])'
               /\ i < Len(stack') => Kids(name(i))'[next(i)' - 1] = name(i + 1)'
    <3>1. /\ ValidateDNSBranch(entries[name(i)]) /\ name(i) \notin visited
          /\ next(i) \in 2..Len(Kids(name(i))) + 1
          /\ \A k \in 1..next(i) - 2 : Settled(Kids(name(i))[k])
          /\ i < n => Kids(name(i))[next(i) - 1] = name(i + 1)
      BY <1>1, <1>3, <1>5, <1>6 DEF StackInv
    <3>2. Kids(name(i))' = Kids(name(i)) /\ ValidateDNSBranch(entries[name(i)])' = ValidateDNSBranch(entries[name(i)])
      BY <1>3, <1>5, <1>6 DEF Kids, ValidateDNSBranch
    <3>3. \A k \in 1..next(i)' - 2 : Settled(Kids(name(i))[k])'
      <4> SUFFICES ASSUME NEW k \in 1..next(i)' - 2 PROVE Settled(Kids(name(i))[k])'
        OBVIOUS
      <4>1. PICK c : c = Kids(name(i))[k] /\ Settled(c)
        BY <1>5, <1>6, <3>1
      <4>2. Kids(name(i))[k]' = c /\ Settled(c)'
        BY <1>9, <3>2, <4>1
      <4> QED
        BY <4>2 DEF Settled, Leaf, Near, Kids
    <3>4. i < Len(stack') => Kids(name(i))'[next(i)' - 1] = name(i + 1)'
      <4> SUFFICES ASSUME i < Len(stack') PROVE Kids(name(i))'[next(i)' - 1] = name(i + 1)'
        OBVIOUS
      <4>1. i < n /\ i + 1 \in 1..n - 1 /\ i \in 1..n - 1
        BY <1>4, <1>5
      <4> QED
        BY <1>6, <3>1, <3>2, <4>1
    <3>5. name(i)' \notin visited'
      BY <1>3, <1>5, <1>6, <1>12, <3>1
    <3> QED
      BY <1>5, <1>6, <3>1, <3>2, <3>3, <3>4, <3>5
  <2> QED
    BY <2>1, <2>2, <2>3, <2>4, <2>5 DEF StackInv
<1>14. EnterInv'
  <2>1. Current' = t
    <3>1. CASE n = 1
      <4>1. stack' = << >>
        BY <1>5, <1>10, <3>1, StackType
      <4> QED
        BY <1>2, <1>3, <3>1, <4>1 DEF Current, StackInv
    <3>2. CASE n # 1
      <4>1. n - 1 \in 1..n - 1 /\ n - 1 \in 1..Len(stack) /\ n - 1 < Len(stack) /\ (n - 1) + 1 = n /\ Len(stack') # 0
        BY <1>1, <1>4, <1>5, <3>2
      <4>2. Kids(name(n - 1))[next(n - 1) - 1] = t
        BY <1>2, <1>3, <4>1 DEF StackInv
      <4>3. stack' # << >> /\ Kids(name(n - 1))' = Kids(name(n - 1)) /\ next(n - 1)' = next(n - 1)
        BY <1>3, <1>6, <4>1 DEF Kids
      <4> QED
        BY <1>5, <4>2, <4>3 DEF Current
    <3> QED
      BY <3>1, <3>2
  <2>2. Settled(t)'
    BY <1>3 DEF Settled
  <2> QED
    BY <1>3, <2>1, <2>2 DEF EnterInv, Settled, Leaf, Near, Kids
<1> QED
  BY <1>3, <1>10, <1>11, <1>13, <1>14 DEF DnsInv

LEMMA DnsInvStep == DnsInv /\ [DnsNext]_dnsVars => DnsInv'
<1> SUFFICES ASSUME DnsInv, [DnsNext]_dnsVars PROVE DnsInv'
  OBVIOUS
<1>1. CASE DnsNext
  BY <1>1, FailInv, ReturnInv, DescendInv, NextChildInv, DoneInv, EndInv DEF DnsNext
<1>2. CASE UNCHANGED dnsVars
  <2>1. UNCHANGED <<entries, maxDepth, enter, stack, visiting, visited, verdict>>
    BY <1>2 DEF dnsVars
  <2>2. \A n : Settled(n)' = Settled(n)
    BY <2>1, FixedGraph DEF Settled
  <2>3. DnsTypeOK' /\ StackInv' /\ EnterInv' /\ VisitedInv'
    <3>1. DnsTypeOK /\ StackInv /\ EnterInv /\ VisitedInv
      BY DEF DnsInv
    <3>2. DnsTypeOK'
      BY <2>1, <3>1 DEF DnsTypeOK
    <3>3. StackInv'
      BY <2>1, <2>2, <3>1, FixedGraph DEF StackInv, name, next
    <3>4. EnterInv'
      BY <2>1, <2>2, <3>1, FixedGraph DEF EnterInv, Current, name, next
    <3>5. VisitedInv'
      BY <2>1, <2>2, <3>1, FixedGraph DEF VisitedInv
    <3> QED
      BY <3>2, <3>3, <3>4, <3>5
  <2>4. WalkVerdict => WalkVerdict'
    <3>1. \A n : Children(n)' = Children(n)
      BY <2>1, FixedGraph
    <3>2. \A d : Paths(d)' = Paths(d)
      BY <3>1 DEF Paths
    <3> QED
      BY <2>1, <3>2 DEF WalkVerdict, ValidateDNSBranch
  <2> QED
    BY <2>1, <2>2, <2>3, <2>4 DEF DnsInv
<1> QED
  BY <1>1, <1>2

\* A set of naturals that is not empty has a least member.
LEMMA LeastNatural ==
  ASSUME NEW T, T \subseteq Nat, T # {}
  PROVE  \E x \in T : \A y \in T : x <= y
<1>1. PICK x \in T : \A y \in T : ~(<<y, x>> \in OpToRel(<, Nat))
  BY NatLessThanWellFounded, WFMin
<1>2. ASSUME NEW y \in T PROVE x <= y
  <2>1. x \in Nat /\ y \in Nat
    OBVIOUS
  <2>2. ~(y < x)
    BY <1>1, <2>1 DEF OpToRel
  <2> QED
    BY <2>1, <2>2
<1> QED
  BY <1>2

\* When the root is settled, so is every name on a path from it.
LEMMA AllSettled ==
  ASSUME DnsInv, Settled(Root), NEW d \in Nat, NEW p \in Paths(d), NEW i \in 0..d
  PROVE  Settled(p[i])
<1> DEFINE T == {k \in 0..d : ~Settled(p[k])}
<1> SUFFICES ASSUME T # {} PROVE FALSE
  OBVIOUS
<1>0. T \subseteq Nat
  OBVIOUS
<1> HIDE DEF T
<1>1. PICK k \in T : \A j \in T : k <= j
  BY <1>0, LeastNatural
<1> USE DEF T
<1>2. p \in [0..d -> Names] /\ p[0] = Root /\ \A j \in 1..d : p[j] \in Children(p[j - 1])
  BY DEF Paths
<1>3. k \in 0..d /\ k # 0
  BY <1>1, <1>2
<1>4. k - 1 \in 0..d /\ k \in 1..d /\ Settled(p[k - 1])
  BY <1>1, <1>3
<1>5. p[k] \in Children(p[k - 1]) /\ p[k - 1] \in Names
  BY <1>2, <1>4
<1>6. ~Leaf(p[k - 1])
  <2>1. PICK j \in 1..Len(Kids(p[k - 1])) : p[k] = Kids(p[k - 1])[j]
    BY <1>5, KidsType DEF DnsInv
  <2>2. Len(Kids(p[k - 1])) # 0
    BY <2>1
  <2> QED
    BY <2>2 DEF Leaf
<1>7. Settled(p[k])
  BY <1>4, <1>5, <1>6 DEF DnsInv, VisitedInv, Settled
<1> QED
  BY <1>1, <1>7

LEMMA DnsInvImplies == DnsInv => WalkVerdict
<1> SUFFICES ASSUME DnsInv PROVE WalkVerdict
  OBVIOUS
<1>1. CASE verdict = "None"
  BY <1>1 DEF WalkVerdict
<1>2. CASE verdict \notin {"None", "Ok"}
  BY <1>2 DEF DnsInv
<1>3. CASE verdict = "Ok"
  <2>1. ASSUME NEW d \in 0..NameCount, NEW p \in Paths(d)
        PROVE  /\ ValidateDNSBranch(entries[p[d]]) /\ IsInjective(p)
               /\ \E e \in 0..maxDepth : \E q \in Paths(e) : q[e] = p[d]
    <3>1. d \in Nat /\ d \in 0..d /\ Settled(Root) /\ DOMAIN p = 0..d /\ p \in [0..d -> Names]
      BY <1>3 DEF DnsInv, Paths
    <3>2. \A i \in 0..d : Settled(p[i])
      BY <3>1, AllSettled
    <3>3. ValidateDNSBranch(entries[p[d]]) /\ Near(p[d])
      BY <3>1, <3>2 DEF Settled, Leaf, DnsInv, VisitedInv
    <3>4. ASSUME NEW i \in 0..d, NEW j \in 0..d, i < j, p[i] = p[j] PROVE FALSE
      <4> DEFINE S == {p[k] : k \in i..j}
      <4>1. \A k \in i..j : k \in 0..d
        BY <3>1
      <4>2. ASSUME NEW k \in i..j PROVE \E m \in i..j : p[m] \in Children(p[k])
        <5>1. CASE k < j
          <6>1. k + 1 \in i..j /\ k + 1 \in 1..d /\ (k + 1) - 1 = k
            BY <3>1, <4>1, <5>1
          <6> QED
            BY <6>1 DEF Paths
        <5>2. CASE k = j
          <6>1. i + 1 \in i..j /\ i + 1 \in 1..d /\ (i + 1) - 1 = i
            BY <3>1, <3>4
          <6>2. p[i + 1] \in Children(p[i])
            BY <6>1 DEF Paths
          <6> QED
            BY <3>4, <5>2, <6>1, <6>2
        <5> QED
          BY <5>1, <5>2
      <4>3. \A n \in S : n \in Names /\ Settled(n) /\ Children(n) \cap S # {}
        BY <3>1, <3>2, <4>1, <4>2
      <4>4. \A n \in S : n \in visited
        <5> SUFFICES ASSUME NEW n \in S, Leaf(n) PROVE FALSE
          BY <4>3 DEF Settled
        <5>1. PICK c \in Children(n) : TRUE
          BY <4>3
        <5>2. PICK k \in 1..Len(Kids(n)) : c = Kids(n)[k]
          BY <4>3, <5>1, KidsType DEF DnsInv
        <5>3. Len(Kids(n)) # 0
          BY <5>2
        <5> QED
          BY <5>3 DEF Leaf
      <4>5. S \in SUBSET visited /\ p[i] \in S
        BY <3>4, <4>4
      <4> HIDE DEF S
      <4>6. PICK n \in S : Children(n) \cap S = {}
        BY <4>5 DEF DnsInv, VisitedInv
      <4> QED
        BY <4>3, <4>6
    <3>5. IsInjective(p)
      <4> SUFFICES ASSUME NEW i \in 0..d, NEW j \in 0..d, p[i] = p[j], i # j PROVE FALSE
        BY <3>1 DEF IsInjective
      <4>1. i < j \/ j < i
        OBVIOUS
      <4> QED
        BY <3>4, <4>1
    <3> QED
      BY <3>3, <3>5 DEF Near
  <2> QED
    BY <1>3, <2>1 DEF WalkVerdict
<1> QED
  BY <1>1, <1>2, <1>3

\* For any graph of any size and any depth limit: the walk accepts a graph only
\* if everything reachable is well formed, on no cycle and near, and rejects
\* one only for a path, a cycle or an entry that exists.
THEOREM WalkVerdictCorrect == DnsSpec => []WalkVerdict
BY DnsInvInit, DnsInvStep, DnsInvImplies, PTL DEF DnsSpec
-----------------------------------------------------------------------------
(* The mplex connection.                                                   *)

MplexTypeOK ==
  /\ bytes \in Seq(Bytes) /\ received \in 0..Len(bytes)
  /\ theirId \in Nat /\ theirLeft \in [at : 1..MaxFrame + 2, of : 0..MaxFrame + 1]
  /\ buf \in Seq(Bytes) /\ frames \in Seq(Nat) /\ drain \in {"Idle", "Read", "Due"}
  /\ sent \in Nat /\ given \in Seq(Bytes) /\ ours \in Nat

\* The peer's next byte goes on where its last one ended, or begins the next frame.
TailInv ==
  LET n == Len(bytes) IN
  /\ n = 0 => theirLeft.at = 1 /\ theirId = (IF theirLeft.of = 0 THEN 0 ELSE 1)
  /\ n > 0 =>
       \/ theirId = bytes[n].id /\ theirLeft.at = bytes[n].at + 1 /\ theirLeft.of = bytes[n].of
       \/ /\ bytes[n].at = bytes[n].of /\ theirId = bytes[n].id + 1
          /\ theirLeft.at = 1 /\ theirLeft.of > 0

\* Two bytes of the stream are of one frame, as far apart as they are in it, or
\* the later one is of a later frame.
PairInv(i, j) ==
  IF j - i <= bytes[i].of - bytes[i].at
  THEN /\ bytes[j].id = bytes[i].id /\ bytes[j].of = bytes[i].of
       /\ bytes[j].at = bytes[i].at + (j - i)
  ELSE bytes[j].id > bytes[i].id

\* The frames are numbered from 1, without a gap.
FramedInv ==
  /\ \A i, j \in 1..Len(bytes) : i <= j => PairInv(i, j)
  /\ \A i \in 1..Len(bytes) :
       /\ bytes[i].at <= bytes[i].of
       /\ i = 1 => bytes[i].at = 1 /\ bytes[i].id = 1
       /\ i < Len(bytes) /\ bytes[i].at = bytes[i].of =>
            bytes[i + 1].at = 1 /\ bytes[i + 1].id = bytes[i].id + 1

\* How many bytes the frames returned so far take up.
Parsed == received - Len(buf)

\* c.buf is the rest of what has been read, and the frames before it are the
\* ones returned.
BufInv ==
  /\ Len(buf) <= received
  /\ \A j \in 1..Len(buf) : buf[j] = bytes[Parsed + j]
  /\ \A k \in 1..Len(frames) :
       frames[k] = k /\ \E i \in 1..Parsed : bytes[i].id = k /\ bytes[i].at = bytes[i].of
  /\ \A i \in 1..Parsed : bytes[i].id \in 1..Len(frames) /\ bytes[i].of <= MaxFrame
  /\ Parsed = 0 => Len(frames) = 0
  /\ Parsed > 0 => bytes[Parsed].at = bytes[Parsed].of /\ bytes[Parsed].id = Len(frames)
  /\ drain = "Idle" => ~parses(buf)

SendInv == sent = Len(given) /\ sent <= SendCap

MplexInv == MplexTypeOK /\ TailInv /\ FramedInv /\ BufInv /\ SendInv

LEMMA MplexInvInit == MplexInit => MplexInv
<1> SUFFICES ASSUME MplexInit PROVE MplexInv
  OBVIOUS
<1> USE MplexAssumption DEF MplexAssumption
<1>1. /\ bytes = << >> /\ buf = << >> /\ frames = << >> /\ given = << >>
      /\ Len(bytes) = 0 /\ Len(buf) = 0 /\ Len(frames) = 0 /\ Len(given) = 0 /\ sent = 0
      /\ received = 0 /\ theirId = 0 /\ theirLeft = [at |-> 1, of |-> 0] /\ drain = "Idle" /\ ours = 0
      /\ MaxFrame \in Nat /\ SendCap \in Nat
  BY DEF MplexInit
<1>2. /\ bytes \in Seq(Bytes) /\ buf \in Seq(Bytes) /\ frames \in Seq(Nat) /\ given \in Seq(Bytes)
  BY <1>1
<1>3. MplexTypeOK
  BY <1>1, <1>2 DEF MplexTypeOK
<1>4. TailInv
  BY <1>1 DEF TailInv
<1>5. \A i \in 1..0 : FALSE
  OBVIOUS
<1>6. FramedInv
  BY <1>1, <1>5 DEF FramedInv
<1>7. Parsed = 0 /\ ~parses(buf)
  <2>1. Parsed = 0
    <3>1. received = 0 /\ Len(buf) = 0
      BY <1>1
    <3> QED
      BY <3>1 DEF Parsed
  <2>2. ~parses(buf)
    BY <1>1, Zenon DEF parses
  <2> QED
    BY <2>1, <2>2
<1>8. BufInv
  BY <1>1, <1>5, <1>7 DEF BufInv
<1> QED
  BY <1>1, <1>3, <1>4, <1>6, <1>8 DEF MplexInv, SendInv

\* What is known of the sequences, element by element.
LEMMA MplexTypes ==
  ASSUME MplexTypeOK
  PROVE  /\ Len(bytes) \in Nat /\ received \in Nat /\ received <= Len(bytes) /\ MaxFrame \in Nat
         /\ \A i \in 1..Len(bytes) :
              bytes[i] \in Bytes /\ bytes[i].id \in Nat /\ bytes[i].at \in Nat /\ bytes[i].of \in Nat
         /\ Len(buf) \in Nat /\ \A j \in 1..Len(buf) : buf[j] \in Bytes
         /\ Len(frames) \in Nat /\ Len(given) \in Nat /\ Parsed \in Int
         /\ theirLeft.at \in Nat /\ theirLeft.of \in Nat /\ theirId \in Nat
<1> USE MplexAssumption DEF MplexAssumption
<1>1. MaxFrame \in Nat
  OBVIOUS
<1> HIDE MplexAssumption DEF MplexAssumption
<1>0. bytes \in Seq(Bytes) /\ buf \in Seq(Bytes) /\ frames \in Seq(Nat) /\ given \in Seq(Bytes)
  BY Zenon DEF MplexTypeOK
<1>2. Len(bytes) \in Nat /\ \A i \in 1..Len(bytes) : bytes[i] \in Bytes
  BY <1>0
<1>3. Len(buf) \in Nat /\ \A i \in 1..Len(buf) : buf[i] \in Bytes
  BY <1>0
<1>4. Len(frames) \in Nat /\ Len(given) \in Nat
  BY <1>0
<1>5. \A b \in Bytes : b.id \in Nat /\ b.at \in Nat /\ b.of \in Nat
  BY <1>1 DEF Bytes
<1>6. received \in Nat /\ received <= Len(bytes) /\ theirLeft.at \in Nat /\ theirLeft.of \in Nat /\ theirId \in Nat
  BY <1>1, <1>2 DEF MplexTypeOK
<1>7. Parsed \in Int
  BY <1>3, <1>6 DEF Parsed
<1> QED
  BY <1>1, <1>2, <1>3, <1>4, <1>5, <1>6, <1>7

\* Steps that leave the peer's bytes and Drain alone.
LEMMA OtherSteps ==
  ASSUME MplexInv, UNCHANGED <<theirId, theirLeft, bytes, received, buf, frames, drain>>,
         sent' \in Nat, given' \in Seq(Bytes), ours' \in Nat, SendInv'
  PROVE  MplexInv'
<1>1. MplexTypeOK'
  BY DEF MplexInv, MplexTypeOK
<1>2. TailInv' /\ FramedInv'
  BY DEF MplexInv, TailInv, FramedInv, PairInv
<1>3. BufInv'
  <2>1. Parsed' = Parsed /\ (parses(buf)' <=> parses(buf))
    BY DEF Parsed, parses
  <2> QED
    BY <2>1 DEF MplexInv, BufInv
<1> QED
  BY <1>1, <1>2, <1>3 DEF MplexInv

\* Two sequences joined, element by element.
LEMMA Concatenation ==
  ASSUME NEW S, NEW p \in Seq(S), NEW q \in Seq(S)
  PROVE  /\ p \o q \in Seq(S) /\ Len(p \o q) = Len(p) + Len(q)
         /\ \A j \in 1..Len(p) : (p \o q)[j] = p[j]
         /\ \A j \in 1..Len(q) : (p \o q)[Len(p) + j] = q[j]
<1>1. p \o q \in Seq(S)
  OBVIOUS
<1>2. Len(p \o q) = Len(p) + Len(q)
  OBVIOUS
<1>3. \A j \in 1..Len(p) : (p \o q)[j] = p[j]
  OBVIOUS
<1>4. \A j \in 1..Len(q) : (p \o q)[Len(p) + j] = q[j]
  OBVIOUS
<1> QED
  BY <1>1, <1>2, <1>3, <1>4

LEMMA SendSteps ==
  ASSUME MplexInv, NEW n \in 1..MaxFrame + 1, Send(n)
  PROVE  MplexInv'
<1>1. /\ UNCHANGED <<theirId, theirLeft, bytes, received, buf, frames, drain>>
      /\ ours' = ours + 1 /\ n <= MaxFrame /\ sent + n <= SendCap
  BY DEF Send, fitsCap, peerSide, readSide
<1>2. PICK k \in 0..n : sent' = sent + k /\ given' = given \o OurBytes(n, k)
  BY DEF Send
<1>3. sent \in Nat /\ given \in Seq(Bytes) /\ ours \in Nat /\ sent = Len(given) /\ MaxFrame \in Nat /\ SendCap \in Nat
  BY MplexAssumption DEF MplexAssumption, MplexInv, MplexTypeOK, SendInv
<1>4. OurBytes(n, k) \in Seq(Bytes) /\ Len(OurBytes(n, k)) = k
  <2>1. \A i \in 1..k : [id |-> ours + 1, at |-> i, of |-> n] \in Bytes
    BY <1>3 DEF Bytes
  <2> QED
    BY <2>1 DEF OurBytes
<1>5. PICK q \in Seq(Bytes) : q = OurBytes(n, k) /\ Len(q) = k
  BY <1>4
<1>6. given' \in Seq(Bytes) /\ Len(given') = Len(given) + k
  <2>1. given \in Seq(Bytes) /\ given' = given \o q
    BY <1>2, <1>3, <1>5
  <2> QED
    BY <1>5, <2>1, Concatenation
<1>7. sent' = Len(given') /\ sent' <= SendCap /\ sent' \in Nat /\ ours' \in Nat
  BY <1>1, <1>2, <1>3, <1>6
<1>8. SendInv'
  BY <1>7 DEF SendInv
<1> QED
  BY <1>1, <1>6, <1>7, <1>8, OtherSteps

\* The peer begins a frame.
LEMMA BeginsSteps ==
  ASSUME MplexInv, NEW n \in 1..MaxFrame + 1, PeerBegins(n)
  PROVE  MplexInv'
<1>0. MplexTypeOK /\ TailInv /\ FramedInv /\ BufInv /\ SendInv /\ MaxFrame \in Nat
  BY MplexTypes DEF MplexInv
<1>1. /\ UNCHANGED <<bytes, received, buf, frames, drain, sent, given, ours>>
      /\ theirLeft.at > theirLeft.of /\ theirId' = theirId + 1 /\ theirLeft' = [at |-> 1, of |-> n]
  BY DEF PeerBegins, readSide, writeSide
<1>2. theirLeft'.at = 1 /\ theirLeft'.of = n /\ n > 0 /\ n \in Nat
  BY <1>0, <1>1
<1>3. MplexTypeOK'
  <2>1. theirId' \in Nat /\ theirLeft' \in [at : 1..MaxFrame + 2, of : 0..MaxFrame + 1]
    BY <1>0, <1>1 DEF MplexTypeOK
  <2> QED
    BY <1>0, <1>1, <2>1 DEF MplexTypeOK
<1>4. TailInv'
  <2>0. /\ Len(bytes) \in Nat /\ theirLeft.at \in Nat /\ theirLeft.of \in Nat /\ theirId \in Nat
        /\ Len(bytes') = Len(bytes)
    BY <1>0, <1>1, MplexTypes
  <2>1. CASE Len(bytes) = 0
    <3>1. theirId' = 1
      BY <1>0, <1>1, <2>0, <2>1 DEF TailInv
    <3> QED
      BY <1>2, <2>0, <2>1, <3>1 DEF TailInv
  <2>2. CASE Len(bytes) > 0
    <3>1. Len(bytes) \in 1..Len(bytes)
      BY <1>0, <2>2, MplexTypes
    <3>2. /\ bytes[Len(bytes)].at \in Nat /\ bytes[Len(bytes)].of \in Nat
          /\ bytes[Len(bytes)].at <= bytes[Len(bytes)].of
      BY <1>0, <3>1, MplexTypes DEF FramedInv
    <3>3. bytes[Len(bytes)].at = bytes[Len(bytes)].of /\ theirId' = bytes[Len(bytes)].id + 1
      BY <1>0, <1>1, <2>0, <2>2, <3>2 DEF TailInv
    <3>4. bytes' = bytes
      BY <1>1
    <3> QED
      BY <1>2, <2>0, <2>2, <3>3, <3>4 DEF TailInv
  <2> QED
    BY <1>0, <2>1, <2>2, MplexTypes
<1>5. FramedInv'
  BY <1>0, <1>1 DEF FramedInv, PairInv
<1>6. BufInv'
  BY <1>0, <1>1 DEF BufInv, Parsed, parses
<1>7. SendInv'
  BY <1>0, <1>1 DEF SendInv
<1> QED
  BY <1>3, <1>4, <1>5, <1>6, <1>7 DEF MplexInv

\* The peer sends a byte.
LEMMA ByteSteps ==
  ASSUME MplexInv, PeerSendsByte
  PROVE  MplexInv'
<1>0. /\ MplexTypeOK /\ TailInv /\ FramedInv /\ BufInv /\ SendInv /\ MaxFrame \in Nat
      /\ theirLeft.at \in Nat /\ theirLeft.of \in Nat /\ theirId \in Nat
  BY MplexTypes DEF MplexInv
<1>1. /\ UNCHANGED <<theirId, received, buf, frames, drain, sent, given, ours>>
      /\ theirLeft.at <= theirLeft.of /\ bytes' = Append(bytes, TheirByte)
      /\ theirLeft' = [theirLeft EXCEPT !.at = @ + 1]
  BY DEF PeerSendsByte, readSide, writeSide
<1>2. PICK n \in Nat : n = Len(bytes) /\ n \in 0..n
  BY <1>0, MplexTypes
<1>3. PICK b \in Bytes : /\ b = TheirByte /\ b.id = theirId /\ b.at = theirLeft.at /\ b.of = theirLeft.of
                         /\ b.at >= 1 /\ b.at <= b.of
  <2>1. theirLeft.at \in 1..MaxFrame + 1 /\ theirLeft.of \in 1..MaxFrame + 1
    <3>1. theirLeft.at \in 1..MaxFrame + 2 /\ theirLeft.of \in 0..MaxFrame + 1
      BY <1>0 DEF MplexTypeOK
    <3> QED
      BY <1>0, <1>1, <3>1
  <2>2. TheirByte \in Bytes
    BY <1>0, <2>1 DEF TheirByte, Bytes
  <2>3. TheirByte.id = theirId /\ TheirByte.at = theirLeft.at /\ TheirByte.of = theirLeft.of
    BY DEF TheirByte
  <2> QED
    BY <1>1, <2>1, <2>2, <2>3
<1>4. /\ bytes' \in Seq(Bytes) /\ Len(bytes') = n + 1 /\ bytes'[n + 1] = b
      /\ \A i \in 1..n : bytes'[i] = bytes[i]
  <2>1. bytes \in Seq(Bytes)
    BY <1>0 DEF MplexTypeOK
  <2> QED
    BY <1>1, <1>2, <1>3, <2>1
<1>5. theirLeft'.at = b.at + 1 /\ theirLeft'.of = b.of /\ theirLeft' \in [at : 1..MaxFrame + 2, of : 0..MaxFrame + 1]
  <2>1. theirLeft \in [at : 1..MaxFrame + 2, of : 0..MaxFrame + 1]
    BY <1>0 DEF MplexTypeOK
  <2>2. theirLeft.at + 1 \in 1..MaxFrame + 2
    BY <1>0, <1>1, <2>1
  <2>3. theirLeft' \in [at : 1..MaxFrame + 2, of : 0..MaxFrame + 1]
    BY <1>1, <2>1, <2>2
  <2>4. theirLeft'.at = theirLeft.at + 1 /\ theirLeft'.of = theirLeft.of
    BY <1>1, <2>1
  <2> QED
    BY <1>3, <2>3, <2>4
<1>6. MplexTypeOK'
  <2>1. received' \in 0..Len(bytes')
    BY <1>0, <1>1, <1>2, <1>4, MplexTypes
  <2> QED
    BY <1>0, <1>1, <1>4, <1>5, <2>1 DEF MplexTypeOK
<1>7. TailInv'
  BY <1>1, <1>2, <1>3, <1>4, <1>5 DEF TailInv
<1>8. /\ n = 0 => b.at = 1 /\ b.id = 1
      /\ n > 0 => \/ b.id = bytes[n].id /\ b.at = bytes[n].at + 1 /\ b.of = bytes[n].of
                  \/ bytes[n].at = bytes[n].of /\ b.id = bytes[n].id + 1 /\ b.at = 1
  BY <1>0, <1>2, <1>3 DEF TailInv
<1>9. \A i \in 1..n : bytes[i].id \in Nat /\ bytes[i].at \in Nat /\ bytes[i].of \in Nat /\ bytes[i].at <= bytes[i].of
  BY <1>0, <1>2, MplexTypes DEF FramedInv
<1>10. b.id \in Nat /\ b.at \in Nat /\ b.of \in Nat
  BY <1>0, <1>3
<1>11. \A i \in 1..n + 1 : i \in 1..n \/ i = n + 1
  OBVIOUS
<1>12. FramedInv'
  <2>1. ASSUME NEW i \in 1..n + 1, NEW j \in 1..n + 1, i <= j PROVE PairInv(i, j)'
    <3>1. CASE j \in 1..n
      <4>1. i \in 1..n /\ PairInv(i, j)
        BY <1>0, <1>2, <2>1, <3>1 DEF FramedInv
      <4> QED
        BY <1>4, <3>1, <4>1 DEF PairInv
    <3>2. CASE j = n + 1 /\ i = n + 1
      BY <1>3, <1>4, <1>10, <3>2 DEF PairInv
    <3>3. CASE j = n + 1 /\ i \in 1..n
      <4>1. PairInv(i, n) /\ n > 0 /\ n \in 1..n
        BY <1>0, <1>2, <3>3 DEF FramedInv
      <4>2. CASE n - i < bytes[i].of - bytes[i].at
        <5>1. /\ bytes[n].id = bytes[i].id /\ bytes[n].of = bytes[i].of /\ bytes[n].at = bytes[i].at + (n - i)
          BY <1>9, <3>3, <4>1, <4>2 DEF PairInv
        <5>2. bytes[n].at < bytes[n].of
          BY <1>9, <3>3, <4>1, <4>2, <5>1
        <5>3. b.id = bytes[i].id /\ b.at = bytes[i].at + ((n + 1) - i) /\ b.of = bytes[i].of
          BY <1>8, <1>9, <3>3, <4>1, <5>1, <5>2
        <5>4. (n + 1) - i <= bytes[i].of - bytes[i].at
          BY <1>9, <3>3, <4>2
        <5> QED
          BY <1>4, <3>3, <5>3, <5>4 DEF PairInv
      <4>3. CASE n - i = bytes[i].of - bytes[i].at
        <5>1. /\ bytes[n].id = bytes[i].id /\ bytes[n].of = bytes[i].of /\ bytes[n].at = bytes[i].at + (n - i)
          BY <1>9, <3>3, <4>1, <4>3 DEF PairInv
        <5>2. bytes[n].at = bytes[n].of
          BY <1>9, <3>3, <4>1, <4>3, <5>1
        <5>3. b.id = bytes[n].id + 1
          BY <1>3, <1>8, <1>9, <1>10, <4>1, <5>2
        <5>4. ~((n + 1) - i <= bytes[i].of - bytes[i].at) /\ b.id > bytes[i].id
          BY <1>9, <3>3, <4>1, <4>3, <5>1, <5>3
        <5> QED
          BY <1>4, <3>3, <5>4 DEF PairInv
      <4>4. CASE n - i > bytes[i].of - bytes[i].at
        <5>1. bytes[n].id > bytes[i].id
          BY <1>9, <3>3, <4>1, <4>4 DEF PairInv
        <5>2. ~((n + 1) - i <= bytes[i].of - bytes[i].at) /\ b.id > bytes[i].id
          BY <1>8, <1>9, <1>10, <3>3, <4>1, <4>4, <5>1
        <5> QED
          BY <1>4, <3>3, <5>2 DEF PairInv
      <4> QED
        BY <1>9, <3>3, <4>2, <4>3, <4>4
    <3> QED
      BY <1>11, <2>1, <3>1, <3>2, <3>3
  <2>2. ASSUME NEW i \in 1..n + 1
        PROVE  /\ bytes'[i].at <= bytes'[i].of
               /\ i = 1 => bytes'[i].at = 1 /\ bytes'[i].id = 1
               /\ i < n + 1 /\ bytes'[i].at = bytes'[i].of =>
                    bytes'[i + 1].at = 1 /\ bytes'[i + 1].id = bytes'[i].id + 1
    <3>1. CASE i = n + 1
      BY <1>3, <1>4, <1>8, <3>1
    <3>2. CASE i = n /\ n > 0
      <4>1. n \in 1..n /\ i # n + 1
        BY <3>2
      <4>2. bytes[n].at = bytes[n].of => b.at = 1 /\ b.id = bytes[n].id + 1
        BY <1>3, <1>8, <1>9, <1>10, <3>2, <4>1
      <4>3. n = 1 => bytes[n].at = 1 /\ bytes[n].id = 1
        BY <1>0, <1>2, <4>1 DEF FramedInv
      <4> QED
        BY <1>4, <1>9, <3>2, <4>1, <4>2, <4>3
    <3>3. CASE i \in 1..n /\ i < n
      <4>1. i + 1 \in 1..n
        BY <3>3
      <4> QED
        BY <1>0, <1>2, <1>4, <3>3, <4>1 DEF FramedInv
    <3> QED
      BY <1>11, <3>1, <3>2, <3>3
  <2> QED
    BY <1>4, <2>1, <2>2 DEF FramedInv
<1>13. BufInv'
  <2>1. /\ Parsed' = Parsed /\ Parsed \in Int /\ Parsed + Len(buf) = received /\ received <= n
        /\ Len(buf) \in Nat /\ received \in Nat
    BY <1>0, <1>1, <1>2, MplexTypes DEF Parsed
  <2>2. Len(buf) <= received /\ \A j \in 1..Len(buf) : buf[j] = bytes[Parsed + j]
    BY <1>0 DEF BufInv
  <2>3. \A i \in 1..Parsed : bytes'[i] = bytes[i]
    BY <1>4, <2>1
  <2>4. \A j \in 1..Len(buf) : Parsed + j \in 1..n
    BY <2>1, <2>2
  <2>5. \A j \in 1..Len(buf') : buf'[j] = bytes'[Parsed' + j]
    BY <1>1, <1>4, <2>1, <2>2, <2>4
  <2>6. drain' = "Idle" => ~parses(buf)'
    BY <1>0, <1>1 DEF BufInv, parses
  <2>7. \A k \in 1..Len(frames') : /\ frames'[k] = k
                                   /\ \E i \in 1..Parsed' : bytes'[i].id = k /\ bytes'[i].at = bytes'[i].of
    <3>1. \A k \in 1..Len(frames) :
            frames[k] = k /\ \E i \in 1..Parsed : bytes[i].id = k /\ bytes[i].at = bytes[i].of
      BY <1>0 DEF BufInv
    <3>2. frames' = frames
      BY <1>1
    <3> SUFFICES ASSUME NEW k \in 1..Len(frames)
                 PROVE  frames[k] = k /\ \E i \in 1..Parsed : bytes'[i].id = k /\ bytes'[i].at = bytes'[i].of
      BY <2>1, <3>2
    <3>3. PICK i \in 1..Parsed : bytes[i].id = k /\ bytes[i].at = bytes[i].of
      BY <3>1
    <3>4. bytes'[i] = bytes[i]
      BY <2>3
    <3> QED
      BY <3>1, <3>3, <3>4
  <2>8. \A i \in 1..Parsed' : bytes'[i].id \in 1..Len(frames') /\ bytes'[i].of <= MaxFrame
    BY <1>0, <1>1, <2>1, <2>3 DEF BufInv
  <2>9. /\ Parsed' = 0 => Len(frames') = 0
        /\ Parsed' > 0 => bytes'[Parsed'].at = bytes'[Parsed'].of /\ bytes'[Parsed'].id = Len(frames')
    <3>1. Parsed > 0 => Parsed \in 1..Parsed
      BY <2>1
    <3> QED
      BY <1>0, <1>1, <2>1, <2>3, <3>1 DEF BufInv
  <2>10. Len(buf') <= received'
    BY <1>1, <2>2
  <2> QED
    BY <2>5, <2>6, <2>7, <2>8, <2>9, <2>10 DEF BufInv
<1>14. SendInv'
  BY <1>0, <1>1 DEF SendInv
<1> QED
  BY <1>6, <1>7, <1>12, <1>13, <1>14 DEF MplexInv

\* A read appends what follows c.buf in the peer's bytes.
LEMMA ReadSteps ==
  ASSUME MplexInv, ReadChunk
  PROVE  MplexInv'
<1>0. /\ MplexTypeOK /\ TailInv /\ FramedInv /\ BufInv /\ SendInv
      /\ Len(bytes) \in Nat /\ received \in Nat /\ received <= Len(bytes)
      /\ Len(buf) \in Nat /\ bytes \in Seq(Bytes) /\ buf \in Seq(Bytes)
  BY MplexTypes DEF MplexInv, MplexTypeOK
<1>1. /\ UNCHANGED <<theirId, theirLeft, bytes, frames, drain, sent, given, ours>> /\ drain = "Read"
  BY DEF ReadChunk, peerSide, writeSide
<1>2. PICK n \in 1..Len(bytes) - received :
        /\ received' = received + n
        /\ buf' = buf \o SubSeq(bytes, received + 1, received + n)
  BY DEF ReadChunk
<1>3. PICK q \in Seq(Bytes) : /\ q = SubSeq(bytes, received + 1, received + n) /\ Len(q) = n
                              /\ \A j \in 1..n : q[j] = bytes[received + j]
  <2>1. n \in Nat /\ received + n \in Nat /\ received + n <= Len(bytes) /\ received + 1 \in Nat
    BY <1>0
  <2>2. SubSeq(bytes, received + 1, received + n) \in Seq(Bytes)
    BY <1>0, <2>1
  <2>3. Len(SubSeq(bytes, received + 1, received + n)) = n
    BY <1>0, <2>1
  <2>4. \A j \in 1..n : SubSeq(bytes, received + 1, received + n)[j] = bytes[received + j]
    BY <1>0, <2>1
  <2> QED
    BY <2>2, <2>3, <2>4
<1>4. /\ buf' \in Seq(Bytes) /\ Len(buf') = Len(buf) + n
      /\ \A j \in 1..Len(buf) : buf'[j] = buf[j]
      /\ \A j \in 1..n : buf'[Len(buf) + j] = q[j]
  <2>1. buf \in Seq(Bytes) /\ buf' = buf \o q
    BY <1>0, <1>2, <1>3
  <2>2. /\ buf \o q \in Seq(Bytes) /\ Len(buf \o q) = Len(buf) + Len(q)
        /\ \A j \in 1..Len(buf) : (buf \o q)[j] = buf[j]
        /\ \A j \in 1..Len(q) : (buf \o q)[Len(buf) + j] = q[j]
    BY <2>1, Concatenation
  <2>3. Len(q) = n /\ buf' = buf \o q
    BY <1>3, <2>1
  <2> QED
    BY <2>2, <2>3
<1>5. n \in Nat /\ received' \in 0..Len(bytes) /\ received' \in Nat
  BY <1>0, <1>2
<1>6. Parsed' = Parsed /\ Parsed \in Int /\ Parsed + Len(buf) = received
  BY <1>0, <1>2, <1>4, <1>5 DEF Parsed
<1>7. MplexTypeOK'
  BY <1>0, <1>1, <1>4, <1>5 DEF MplexTypeOK
<1>8. BufInv'
  <2>1. Len(buf) <= received /\ \A j \in 1..Len(buf) : buf[j] = bytes[Parsed + j]
    BY <1>0 DEF BufInv
  <2>2. ASSUME NEW j \in 1..Len(buf') PROVE buf'[j] = bytes'[Parsed' + j]
    <3>1. CASE j \in 1..Len(buf)
      BY <1>1, <1>4, <1>6, <2>1, <3>1
    <3>2. CASE j \notin 1..Len(buf)
      <4>1. PICK k \in 1..n : j = Len(buf) + k
        <5>1. j - Len(buf) \in 1..n /\ j = Len(buf) + (j - Len(buf))
          BY <1>0, <1>4, <1>5, <3>2
        <5> QED
          BY <5>1
      <4>2. buf'[j] = bytes[received + k]
        BY <1>3, <1>4, <4>1
      <4>3. received + k = Parsed + j
        <5>1. k \in Int /\ Len(buf) \in Int
          BY <1>0, <1>5
        <5> QED
          BY <1>6, <4>1, <5>1
      <4> QED
        BY <1>1, <1>6, <4>2, <4>3
    <3> QED
      BY <3>1, <3>2
  <2>3. Len(buf') <= received'
    BY <1>0, <1>2, <1>4, <1>5, <2>1
  <2>4. \A k \in 1..Len(frames') : /\ frames'[k] = k
                                   /\ \E i \in 1..Parsed' : bytes'[i].id = k /\ bytes'[i].at = bytes'[i].of
    BY <1>0, <1>1, <1>6 DEF BufInv
  <2>5. /\ \A i \in 1..Parsed' : bytes'[i].id \in 1..Len(frames') /\ bytes'[i].of <= MaxFrame
        /\ Parsed' = 0 => Len(frames') = 0
        /\ Parsed' > 0 => bytes'[Parsed'].at = bytes'[Parsed'].of /\ bytes'[Parsed'].id = Len(frames')
    BY <1>0, <1>1, <1>6 DEF BufInv
  <2>6. drain' # "Idle"
    BY <1>1
  <2> QED
    BY <2>2, <2>3, <2>4, <2>5, <2>6 DEF BufInv
<1>9. TailInv' /\ FramedInv' /\ SendInv'
  BY <1>0, <1>1 DEF TailInv, FramedInv, PairInv, SendInv
<1> QED
  BY <1>7, <1>8, <1>9 DEF MplexInv

\* The frame that follows the ones returned, as far as it has been read.
LEMMA NextFrame ==
  ASSUME MplexInv, Len(buf) > 0
  PROVE  /\ Parsed \in Nat /\ Parsed + Len(buf) = received /\ Parsed + 1 \in 1..Len(bytes)
         /\ buf[1] = bytes[Parsed + 1]
         /\ bytes[Parsed + 1].at = 1 /\ bytes[Parsed + 1].id = Len(frames) + 1
         /\ bytes[Parsed + 1].of >= 1
         /\ \A j \in 1..Len(buf) : j <= bytes[Parsed + 1].of =>
              /\ Parsed + j \in 1..Len(bytes)
              /\ bytes[Parsed + j].id = Len(frames) + 1 /\ bytes[Parsed + j].at = j
              /\ bytes[Parsed + j].of = bytes[Parsed + 1].of
<1>0. /\ MplexTypeOK /\ FramedInv /\ BufInv /\ Len(bytes) \in Nat /\ received \in Nat
      /\ received <= Len(bytes) /\ Len(buf) \in Nat /\ Len(frames) \in Nat
  BY MplexTypes DEF MplexInv
<1>1. Parsed \in Nat /\ Parsed + Len(buf) = received
  <2>1. Len(buf) <= received
    BY <1>0 DEF BufInv
  <2> QED
    BY <1>0, <2>1 DEF Parsed
<1>2. Parsed + 1 \in 1..Len(bytes) /\ 1 \in 1..Len(buf)
  BY <1>0, <1>1
<1>3. buf[1] = bytes[Parsed + 1]
  BY <1>0, <1>2 DEF BufInv
<1>4. bytes[Parsed + 1].at = 1 /\ bytes[Parsed + 1].id = Len(frames) + 1
  <2>1. CASE Parsed = 0
    BY <1>0, <1>2, <2>1 DEF BufInv, FramedInv
  <2>2. CASE Parsed > 0
    <3>1. Parsed \in 1..Len(bytes) /\ Parsed < Len(bytes)
      BY <1>1, <1>2, <2>2
    <3>2. bytes[Parsed].at = bytes[Parsed].of /\ bytes[Parsed].id = Len(frames)
      BY <1>0, <2>2 DEF BufInv
    <3> QED
      BY <1>0, <3>1, <3>2 DEF FramedInv
  <2> QED
    BY <1>1, <2>1, <2>2
<1>5. bytes[Parsed + 1].of >= 1 /\ bytes[Parsed + 1].of \in Nat
  BY <1>0, <1>2, <1>4, MplexTypes DEF FramedInv
<1>6. ASSUME NEW j \in 1..Len(buf), j <= bytes[Parsed + 1].of
      PROVE  /\ Parsed + j \in 1..Len(bytes)
             /\ bytes[Parsed + j].id = Len(frames) + 1 /\ bytes[Parsed + j].at = j
             /\ bytes[Parsed + j].of = bytes[Parsed + 1].of
  <2>1. Parsed + j \in 1..Len(bytes) /\ Parsed + 1 <= Parsed + j /\ (Parsed + j) - (Parsed + 1) = j - 1
    BY <1>0, <1>1
  <2>2. PairInv(Parsed + 1, Parsed + j)
    BY <1>0, <1>2, <2>1 DEF FramedInv
  <2>3. j - 1 <= bytes[Parsed + 1].of - bytes[Parsed + 1].at /\ 1 + (j - 1) = j
    BY <1>4, <1>5, <1>6
  <2> QED
    BY <1>4, <2>1, <2>2, <2>3 DEF PairInv
<1> QED
  BY <1>1, <1>2, <1>3, <1>4, <1>5, <1>6

\* A segment of a sequence, element by element.
LEMMA Segment ==
  ASSUME NEW S, NEW q \in Seq(S), NEW m \in Nat, NEW n \in Nat, n <= Len(q), m <= n
  PROVE  /\ SubSeq(q, m + 1, n) \in Seq(S) /\ Len(SubSeq(q, m + 1, n)) = n - m
         /\ \A j \in 1..n - m : SubSeq(q, m + 1, n)[j] = q[m + j]
<1>1. SubSeq(q, m + 1, n) \in Seq(S)
  OBVIOUS
<1>2. Len(SubSeq(q, m + 1, n)) = n - m
  OBVIOUS
<1>3. \A j \in 1..n - m : SubSeq(q, m + 1, n)[j] = q[m + j]
  OBVIOUS
<1> QED
  BY <1>1, <1>2, <1>3

LEMMA ParseSteps ==
  ASSUME MplexInv, ParseFrame
  PROVE  MplexInv'
<1>0. /\ MplexTypeOK /\ TailInv /\ FramedInv /\ BufInv /\ SendInv /\ MaxFrame \in Nat
      /\ Len(bytes) \in Nat /\ received \in Nat /\ Len(buf) \in Nat /\ Len(frames) \in Nat
      /\ buf \in Seq(Bytes) /\ frames \in Seq(Nat)
  BY MplexTypes DEF MplexInv, MplexTypeOK
<1>1. /\ UNCHANGED <<theirId, theirLeft, bytes, received, drain, sent, given, ours>> /\ drain # "Idle"
      /\ parses(buf) /\ frames' = Append(frames, buf[1].id) /\ buf' = SubSeq(buf, buf[1].of + 1, Len(buf))
  BY DEF ParseFrame, peerSide, writeSide
<1>2. Len(buf) > 0 /\ buf[1].of <= MaxFrame /\ Len(buf) >= buf[1].of
  BY <1>0, <1>1 DEF parses
<1>3. PICK m \in Nat : /\ m = buf[1].of /\ m >= 1 /\ m <= Len(buf) /\ m <= MaxFrame
                       /\ m = bytes[Parsed + 1].of
  <2>1. buf[1] = bytes[Parsed + 1] /\ bytes[Parsed + 1].of >= 1 /\ Parsed + 1 \in 1..Len(bytes)
    BY <1>2, NextFrame
  <2>2. bytes[Parsed + 1].of \in Nat
    BY <1>0, <2>1, MplexTypes
  <2> QED
    BY <1>2, <2>1, <2>2
<1>4. PICK f \in Nat : f = Len(frames)
  BY <1>0
<1>5. PICK p \in Nat : p = Parsed /\ p + Len(buf) = received
  BY <1>2, NextFrame
<1>6. buf[1].id = f + 1 /\ \A j \in 1..m : /\ p + j \in 1..Len(bytes) /\ bytes[p + j].id = f + 1
                                           /\ bytes[p + j].at = j /\ bytes[p + j].of = m
  <2>1. \A j \in 1..m : j \in 1..Len(buf) /\ j <= bytes[Parsed + 1].of
    BY <1>0, <1>3
  <2> QED
    BY <1>2, <1>3, <1>4, <1>5, <2>1, NextFrame
<1>7. /\ buf' \in Seq(Bytes) /\ Len(buf') = Len(buf) - m
      /\ \A j \in 1..Len(buf) - m : buf'[j] = buf[m + j]
  <2>1. buf' = SubSeq(buf, m + 1, Len(buf))
    BY <1>1, <1>3
  <2>2. buf \in Seq(Bytes) /\ Len(buf) \in Nat /\ m \in Nat /\ m <= Len(buf)
    BY <1>0, <1>3
  <2>3. /\ SubSeq(buf, m + 1, Len(buf)) \in Seq(Bytes) /\ Len(SubSeq(buf, m + 1, Len(buf))) = Len(buf) - m
        /\ \A j \in 1..Len(buf) - m : SubSeq(buf, m + 1, Len(buf))[j] = buf[m + j]
    BY <2>2, Segment
  <2> QED
    BY <2>1, <2>3
<1>8. /\ frames' \in Seq(Nat) /\ Len(frames') = f + 1 /\ frames'[f + 1] = f + 1
      /\ \A k \in 1..f : frames'[k] = frames[k]
  BY <1>0, <1>1, <1>4, <1>6
<1>9. Parsed' = p + m
  <2>1. Parsed' = received - (Len(buf) - m)
    BY <1>1, <1>7 DEF Parsed
  <2> QED
    BY <1>0, <1>3, <1>5, <2>1
<1>10. MplexTypeOK'
  BY <1>0, <1>1, <1>7, <1>8 DEF MplexTypeOK
<1>11. \A i \in 1..p + m : i \in 1..p \/ \E j \in 1..m : i = p + j
  <2> SUFFICES ASSUME NEW i \in 1..p + m, i \notin 1..p PROVE \E j \in 1..m : i = p + j
    OBVIOUS
  <2>1. i - p \in 1..m /\ i = p + (i - p)
    BY <1>3, <1>5
  <2> QED
    BY <2>1
<1>12. BufInv'
  <2>1. \A j \in 1..Len(buf) : buf[j] = bytes[p + j]
    BY <1>0, <1>5 DEF BufInv
  <2>2. ASSUME NEW j \in 1..Len(buf') PROVE buf'[j] = bytes'[Parsed' + j]
    <3>0. j \in 1..Len(buf) - m /\ Len(buf) \in Nat /\ m \in Nat /\ m <= Len(buf)
      BY <1>0, <1>3, <1>7
    <3>1. m + j \in 1..Len(buf) /\ j \in 1..Len(buf) - m /\ p + (m + j) = (p + m) + j
      BY <3>0, <1>5
    <3> QED
      BY <1>1, <1>7, <1>9, <2>1, <3>1
  <2>3. Len(buf') <= received'
    <3>1. /\ Len(buf) \in Nat /\ m \in Nat /\ Len(buf') = Len(buf) - m
          /\ received' = received /\ received = p + Len(buf)
      BY <1>0, <1>1, <1>3, <1>5, <1>7
    <3> QED
      BY <1>5, <3>1
  <2>4. p + m \in 1..p + m /\ bytes[p + m].id = f + 1 /\ bytes[p + m].at = m /\ bytes[p + m].of = m
    <3>1. m \in 1..m
      BY <1>3
    <3> QED
      BY <1>3, <1>5, <1>6, <3>1
  <2>5. ASSUME NEW k \in 1..Len(frames')
        PROVE  /\ frames'[k] = k
               /\ \E i \in 1..Parsed' : bytes'[i].id = k /\ bytes'[i].at = bytes'[i].of
    <3>1. CASE k = f + 1
      BY <1>1, <1>8, <1>9, <2>4, <3>1
    <3>2. CASE k # f + 1
      <4>1. k \in 1..f
        BY <1>4, <1>8, <3>2
      <4>2. PICK i \in 1..p : frames[k] = k /\ bytes[i].id = k /\ bytes[i].at = bytes[i].of
        BY <1>0, <1>4, <1>5, <4>1 DEF BufInv
      <4>3. i \in 1..p + m
        BY <1>3, <1>5
      <4> QED
        BY <1>1, <1>8, <1>9, <4>1, <4>2, <4>3
    <3> QED
      BY <3>1, <3>2
  <2>6. ASSUME NEW i \in 1..Parsed' PROVE bytes'[i].id \in 1..Len(frames') /\ bytes'[i].of <= MaxFrame
    <3>1. CASE i \in 1..p
      <4>1. bytes[i].id \in 1..f /\ bytes[i].of <= MaxFrame
        BY <1>0, <1>4, <1>5, <3>1 DEF BufInv
      <4>2. bytes[i].id \in 1..f + 1
        BY <1>4, <4>1
      <4> QED
        BY <1>1, <1>8, <4>1, <4>2
    <3>2. CASE \E j \in 1..m : i = p + j
      <4>1. bytes[i].id = f + 1 /\ bytes[i].of = m
        BY <1>6, <3>2
      <4>2. f + 1 \in 1..f + 1
        BY <1>4
      <4> QED
        BY <1>1, <1>3, <1>8, <4>1, <4>2
    <3> QED
      BY <1>9, <1>11, <3>1, <3>2
  <2>7. /\ Parsed' # 0 /\ bytes'[Parsed'].at = bytes'[Parsed'].of /\ bytes'[Parsed'].id = Len(frames')
    <3>1. p + m # 0
      BY <1>3, <1>5
    <3> QED
      BY <1>1, <1>8, <1>9, <2>4, <3>1
  <2>8. drain' # "Idle"
    BY <1>1
  <2> QED
    BY <2>2, <2>3, <2>5, <2>6, <2>7, <2>8 DEF BufInv
<1>13. TailInv' /\ FramedInv' /\ SendInv'
  BY <1>0, <1>1 DEF TailInv, FramedInv, PairInv, SendInv
<1> QED
  BY <1>10, <1>12, <1>13 DEF MplexInv

\* The steps that only begin a call of Drain, end it or end its time.
LEMMA DrainSteps ==
  ASSUME MplexInv, DrainBegins \/ DrainDue \/ DrainReturns
  PROVE  MplexInv'
<1>1. /\ MplexTypeOK /\ TailInv /\ FramedInv /\ BufInv /\ SendInv
      /\ UNCHANGED <<theirId, theirLeft, bytes, received, buf, frames, sent, given, ours>>
      /\ drain' \in {"Idle", "Read", "Due"} /\ (drain' = "Idle" => ~parses(buf))
  BY DEF MplexInv, DrainBegins, DrainDue, DrainReturns, kept, peerSide, writeSide
<1>2. MplexTypeOK'
  BY <1>1 DEF MplexTypeOK
<1>3. BufInv'
  BY <1>1 DEF BufInv, Parsed, parses
<1>4. TailInv' /\ FramedInv' /\ SendInv'
  BY <1>1 DEF TailInv, FramedInv, PairInv, SendInv
<1> QED
  BY <1>2, <1>3, <1>4 DEF MplexInv

LEMMA MplexInvStep == MplexInv /\ [MplexNext]_mplexVars => MplexInv'
<1> SUFFICES ASSUME MplexInv, [MplexNext]_mplexVars PROVE MplexInv'
  OBVIOUS
<1>0. sent \in Nat /\ given \in Seq(Bytes) /\ ours \in Nat /\ SendInv
  BY DEF MplexInv, MplexTypeOK
<1>1. CASE Negotiate \/ NegotiationFails \/ Shut \/ PeerCloses \/ (\E n \in 1..MaxFrame + 1 : Refuse(n))
           \/ UNCHANGED mplexVars
  <2>1. /\ UNCHANGED <<theirId, theirLeft, bytes, received, buf, frames, drain, sent, given>>
        /\ ours' \in {ours, ours + 1}
    BY <1>1 DEF Negotiate, NegotiationFails, Shut, PeerCloses, Refuse, peerSide, readSide, writeSide, mplexVars
  <2>2. sent' \in Nat /\ given' \in Seq(Bytes) /\ ours' \in Nat
    BY <1>0, <2>1
  <2>3. SendInv'
    BY <1>0, <2>1 DEF SendInv
  <2> QED
    BY <2>1, <2>2, <2>3, OtherSteps
<1>2. ASSUME NEW n \in 1..MaxFrame + 1, PeerBegins(n) \/ Send(n) PROVE MplexInv'
  BY <1>2, BeginsSteps, SendSteps
<1>3. CASE PeerSendsByte \/ DrainBegins \/ DrainDue \/ DrainStep
  BY <1>3, ByteSteps, DrainSteps, ReadSteps, ParseSteps DEF DrainStep
<1> QED
  BY <1>1, <1>2, <1>3 DEF MplexNext
\* A set numbered from 1 to f has f elements.
LEMMA Numbered ==
  ASSUME NEW S, IsFiniteSet(S), NEW f \in Nat, NEW g \in [S -> 1..f],
         \A x, y \in S : g[x] = g[y] => x = y, \A k \in 1..f : \E x \in S : g[x] = k
  PROVE  Cardinality(S) = f
<1>1. g \in Bijection(S, 1..f)
  BY DEF Bijection, Injection, Surjection, IsInjective
<1>2. ExistsBijection(S, 1..f)
  BY <1>1 DEF ExistsBijection
<1>3. Cardinality(1..f) = Cardinality(S)
  BY <1>2, FS_Bijection
<1>4. Cardinality(1..f) = f
  <2>1. 1 \in Int /\ f \in Int /\ (IF 1 > f THEN 0 ELSE f - 1 + 1) = f
    OBVIOUS
  <2> QED
    BY <2>1, FS_Interval
<1> QED
  BY <1>3, <1>4

\* Where nothing parses, the frames that have been read whole are the ones
\* returned: what is left is less than a frame, or begins with an oversized one.
LEMMA EndsParsed ==
  ASSUME MplexInv, ~parses(buf)
  PROVE  FrameEnds = {i \in 1..Parsed : bytes[i].at = bytes[i].of}
<1>0. /\ MplexTypeOK /\ BufInv /\ Len(bytes) \in Nat /\ received \in Nat /\ Len(buf) \in Nat
      /\ MaxFrame \in Nat /\ buf \in Seq(Bytes)
  BY MplexTypes DEF MplexInv, MplexTypeOK
<1>1. Parsed \in Nat /\ Parsed + Len(buf) = received
  <2>1. Len(buf) <= received
    BY <1>0 DEF BufInv
  <2> QED
    BY <1>0, <2>1 DEF Parsed
<1>2. ASSUME NEW i \in 1..Parsed, bytes[i].at = bytes[i].of PROVE i \in FrameEnds
  <2>1. i \in 1..received /\ \A k \in 1..i : k \in 1..Parsed
    BY <1>0, <1>1
  <2>2. \A k \in 1..i : bytes[k].of <= MaxFrame
    BY <1>0, <2>1 DEF BufInv
  <2> QED
    BY <1>2, <2>1, <2>2 DEF FrameEnds
<1>3. ASSUME NEW i \in FrameEnds, i \notin 1..Parsed PROVE FALSE
  <2>1. i \in 1..received /\ bytes[i].at = bytes[i].of /\ \A k \in 1..i : bytes[k].of <= MaxFrame
    BY DEF FrameEnds
  <2>2. PICK j \in 1..Len(buf) : i = Parsed + j
    <3>1. i - Parsed \in 1..Len(buf) /\ i = Parsed + (i - Parsed)
      BY <1>0, <1>1, <1>3, <2>1
    <3> QED
      BY <3>1
  <2>3. Len(buf) > 0 /\ Parsed + 1 \in 1..i /\ j \in Nat /\ j <= Len(buf)
    BY <1>0, <1>1, <2>1, <2>2
  <2>4. buf[1] = bytes[Parsed + 1] /\ Parsed + 1 \in 1..Len(bytes)
    BY <2>3, NextFrame
  <2>5. bytes[Parsed + 1].of \in Nat /\ bytes[Parsed + 1].of <= MaxFrame
    BY <1>0, <2>1, <2>3, <2>4, MplexTypes
  <2>6. buf # << >>
    BY <2>3
  <2>7. Len(buf) < bytes[Parsed + 1].of
    BY <1>0, <2>4, <2>5, <2>6 DEF parses
  <2>8. j < bytes[Parsed + 1].of
    BY <1>0, <2>3, <2>5, <2>7
  <2>9. bytes[i].at = j /\ bytes[i].of = bytes[Parsed + 1].of
    <3>1. j <= bytes[Parsed + 1].of
      BY <2>3, <2>5, <2>8
    <3> QED
      BY <2>2, <2>3, <3>1, NextFrame
  <2>10. j = bytes[Parsed + 1].of
    BY <2>1, <2>9
  <2>11. j \in Nat
    BY <2>3
  <2> QED
    BY <2>8, <2>10, <2>11
<1>4. FrameEnds \subseteq {i \in 1..received : bytes[i].at = bytes[i].of}
  BY DEF FrameEnds
<1> QED
  BY <1>2, <1>3, <1>4

LEMMA MplexInvImplies == MplexInv => FramesRecovered
<1> SUFFICES ASSUME MplexInv PROVE FramesRecovered
  OBVIOUS
<1>0. /\ MplexTypeOK /\ FramedInv /\ BufInv /\ SendInv /\ Len(bytes) \in Nat /\ received \in Nat
      /\ received <= Len(bytes) /\ Len(buf) \in Nat /\ Len(frames) \in Nat
      /\ bytes \in Seq(Bytes) /\ buf \in Seq(Bytes) /\ frames \in Seq(Nat)
  BY MplexTypes DEF MplexInv, MplexTypeOK
<1>1. SUFFICES ASSUME drain = "Idle" \/ ~parses(buf)
               PROVE  /\ frames = [k \in 1..Cardinality(FrameEnds) |-> k]
                      /\ buf = SubSeq(bytes, Max(FrameEnds \cup {0}) + 1, received)
  BY <1>0 DEF FramesRecovered, SendInv
<1>2. ~parses(buf)
  BY <1>0, <1>1 DEF BufInv
<1>3. PICK p \in Nat : p = Parsed /\ p + Len(buf) = received
  <2>1. Len(buf) <= received
    BY <1>0 DEF BufInv
  <2>2. Parsed \in Nat /\ Parsed + Len(buf) = received
    BY <1>0, <2>1 DEF Parsed
  <2> QED
    BY <2>2
<1>4. FrameEnds = {i \in 1..p : bytes[i].at = bytes[i].of}
  BY <1>2, <1>3, EndsParsed
<1>5. PICK f \in Nat : f = Len(frames)
  BY <1>0
<1>6. Cardinality(FrameEnds) = f
  <2> DEFINE g == [i \in FrameEnds |-> bytes[i].id]
  <2>1. IsFiniteSet(FrameEnds)
    <3>1. IsFiniteSet(1..p)
      BY <1>3, FS_Interval
    <3>2. FrameEnds \subseteq 1..p
      BY <1>4
    <3> QED
      BY <3>1, <3>2, FS_Subset
  <2>2. \A i \in FrameEnds : bytes[i].id \in 1..f
    BY <1>0, <1>3, <1>4, <1>5 DEF BufInv
  <2>3. g \in [FrameEnds -> 1..f]
    BY <2>2
  <2>4. ASSUME NEW i \in FrameEnds, NEW j \in FrameEnds, i < j PROVE bytes[i].id # bytes[j].id
    <3>1. i \in 1..Len(bytes) /\ j \in 1..Len(bytes) /\ i <= j /\ j - i > 0 /\ bytes[i].at = bytes[i].of
      BY <1>0, <1>3, <1>4, <2>4
    <3>2. PairInv(i, j)
      BY <1>0, <3>1 DEF FramedInv
    <3>3. bytes[i].of \in Nat /\ bytes[i].id \in Nat /\ bytes[j].id \in Nat
      BY <1>0, <3>1, MplexTypes
    <3>4. ~(j - i <= bytes[i].of - bytes[i].at)
      BY <3>1, <3>3
    <3> QED
      BY <3>2, <3>3, <3>4 DEF PairInv
  <2>5. \A i, j \in FrameEnds : g[i] = g[j] => i = j
    <3>1. \A i \in FrameEnds : i \in Int
      BY <1>4
    <3> QED
      BY <2>4, <3>1
  <2>6. \A k \in 1..f : \E i \in FrameEnds : g[i] = k
    BY <1>0, <1>3, <1>4, <1>5 DEF BufInv
  <2> HIDE DEF g
  <2> QED
    BY <2>1, <2>3, <2>5, <2>6, Numbered
<1>7. frames = [k \in 1..f |-> k]
  <2>1. \A k \in 1..f : frames[k] = k
    BY <1>0, <1>5 DEF BufInv
  <2>2. frames = [k \in 1..f |-> frames[k]]
    BY <1>0, <1>5
  <2> QED
    BY <2>1, <2>2
<1>8. Max(FrameEnds \cup {0}) = p
  <2>1. p \in FrameEnds \cup {0}
    <3>1. p > 0 => p \in 1..p /\ bytes[p].at = bytes[p].of
      BY <1>0, <1>3 DEF BufInv
    <3> QED
      BY <1>3, <1>4, <3>1
  <2>2. \A i \in FrameEnds \cup {0} : i \in Nat /\ i <= p
    BY <1>3, <1>4
  <2>3. \A x \in FrameEnds \cup {0} : (\A y \in FrameEnds \cup {0} : x >= y) => x = p
    BY <2>1, <2>2
  <2>4. \A y \in FrameEnds \cup {0} : p >= y
    BY <2>2
  <2> QED
    BY <2>1, <2>3, <2>4 DEF Max
<1>9. buf = SubSeq(bytes, p + 1, received)
  <2>1. PICK q \in Seq(Bytes) : /\ q = SubSeq(bytes, p + 1, received) /\ Len(q) = Len(buf)
                                /\ \A j \in 1..Len(buf) : q[j] = bytes[p + j]
    <3>1. p \in Nat /\ received \in Nat /\ p <= received /\ received <= Len(bytes) /\ received - p = Len(buf)
      BY <1>0, <1>3
    <3>2. /\ SubSeq(bytes, p + 1, received) \in Seq(Bytes) /\ Len(SubSeq(bytes, p + 1, received)) = received - p
          /\ \A j \in 1..received - p : SubSeq(bytes, p + 1, received)[j] = bytes[p + j]
      BY <1>0, <3>1, Segment
    <3> QED
      BY <3>1, <3>2
  <2>2. \A j \in 1..Len(buf) : buf[j] = q[j]
    BY <1>0, <1>3, <2>1 DEF BufInv
  <2>3. buf = [j \in 1..Len(buf) |-> buf[j]]
    BY <1>0
  <2>4. q = [j \in 1..Len(buf) |-> q[j]]
    <3>1. Len(q) = Len(buf)
      BY <2>1
    <3>2. q = [j \in 1..Len(q) |-> q[j]]
      OBVIOUS
    <3> QED
      BY <3>1, <3>2
  <2> QED
    BY <2>1, <2>2, <2>3, <2>4
<1> QED
  BY <1>6, <1>7, <1>8, <1>9

\* For frames of any size and number, cut into reads, deadlines and calls of
\* Drain in any way: every whole frame is returned exactly once and in order,
\* c.buf is what follows, and c.sent is what the peer was given, within the cap.
THEOREM FramesRecoveredCorrect == MplexSpec => []FramesRecovered
BY MplexInvInit, MplexInvStep, MplexInvImplies, PTL DEF MplexSpec
-----------------------------------------------------------------------------
(* The components side by side.                                            *)

LEMMA InitsSubset == ASSUME NEW p, NEW all, all # {} PROVE Inits(p, all) \subseteq all
<1>1. (CHOOSE i \in all : TRUE) \in all
  OBVIOUS
<1> QED
  BY <1>1 DEF Inits

LEMMA ServicesInit ==
  Init => /\ InboundInit(AcceptInits) /\ PublisherInit(JobInits) /\ BeaconInit(BeaconInits)
          /\ MplexInit /\ DnsInit(Graphs) /\ Params!Init
<1> SUFFICES ASSUME Init
             PROVE  /\ InboundInit(AcceptInits) /\ PublisherInit(JobInits) /\ BeaconInit(BeaconInits)
                    /\ MplexInit /\ DnsInit(Graphs) /\ Params!Init
  OBVIOUS
<1>0. AcceptInits # {} /\ JobInits # {} /\ BeaconInits # {} /\ Graphs # {}
  BY ServicesAssumption DEF ServicesAssumption
<1>1. InboundInit(AcceptInits)
  <2>1. InboundInit(Inits("Inbound", AcceptInits)) /\ Inits("Inbound", AcceptInits) \subseteq AcceptInits
    BY <1>0, InitsSubset, Zenon DEF Init
  <2> QED
    BY <2>1, Zenon DEF InboundInit
<1>2. PublisherInit(JobInits)
  <2>1. PublisherInit(Inits("Publisher", JobInits)) /\ Inits("Publisher", JobInits) \subseteq JobInits
    BY <1>0, InitsSubset, Zenon DEF Init
  <2> QED
    BY <2>1, Zenon DEF PublisherInit
<1>3. BeaconInit(BeaconInits)
  <2>1. BeaconInit(Inits("Beacon", BeaconInits)) /\ Inits("Beacon", BeaconInits) \subseteq BeaconInits
    BY <1>0, InitsSubset, Zenon DEF Init
  <2> QED
    BY <2>1, Zenon DEF BeaconInit
<1>4. DnsInit(Graphs)
  <2>1. DnsInit(Inits("Dns", Graphs)) /\ Inits("Dns", Graphs) \subseteq Graphs
    BY <1>0, InitsSubset, Zenon DEF Init
  <2> QED
    BY <2>1, Zenon DEF DnsInit
<1>5. MplexInit /\ Params!Init
  BY Zenon DEF Init
<1> QED
  BY <1>1, <1>2, <1>3, <1>4, <1>5, Zenon

\* A step of the system is a step of one component and leaves the others alone.
LEMMA ServicesStep ==
  [Next]_vars => /\ [InboundNext]_inboundVars /\ [PublisherNext]_publisherVars
                 /\ [BeaconNext]_beaconVars /\ [MplexNext]_mplexVars /\ [DnsNext]_dnsVars
                 /\ [Params!Next]_(Params!vars)
BY Zenon DEF Next, vars, paramsVars, Params!vars, InboundDoes, PublisherDoes, BeaconDoes, MplexDoes,
             DnsDoes, ParamsDoes

\* What runs side by side is each component as its own module specifies it: the
\* components share no state, so what is proved of one holds of the whole.
THEOREM ServicesImplement ==
  Spec => InboundSpec /\ PublisherSpec /\ BeaconSpec /\ MplexSpec /\ DnsSpec /\ Params!Spec
BY ServicesInit, ServicesStep, PTL
   DEF Spec, InboundSpec, PublisherSpec, BeaconSpec, MplexSpec, DnsSpec, Params!Spec

\* The safety of the system that the run Services_calls explores: no stream is
\* lost, the router matches the publishers' tables, the digest is the head's,
\* every frame is recovered and every verdict of the walk is justified.
THEOREM ServicesCorrect ==
  Spec => [](StreamsAccounted /\ RouterMatches /\ DigestAtHead /\ FramesRecovered /\ WalkVerdict)
BY ServicesImplement, StreamsAccountedCorrect, RouterMatchesCorrect, DigestAtHeadCorrect,
   FramesRecoveredCorrect, WalkVerdictCorrect, PTL
=============================================================================
