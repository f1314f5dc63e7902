------------------------------ MODULE Services ------------------------------
(***************************************************************************)
(* The components that share no state with one another, each on its own:   *)
(* inbound requests, the gossip publisher, the beacon Status, the mplex    *)
(* connection, the walk over a DNS tree, and the shared fetch of chain     *)
(* parameters.  A behaviour is a behaviour of one of them; the variables   *)
(* of the others keep an initial value.                                    *)
(***************************************************************************)
EXTENDS Inbound, Publisher, BeaconStatus, Mplex, DnsWalk

CONSTANTS Callers, URLs, Limit, TTL, MaxTime  \* of ChainParams

\* Every component has an initial state.
ASSUME ServicesAssumption ==
  AcceptInits # {} /\ JobInits # {} /\ BeaconInits # {} /\ Graphs # {}

VARIABLES
  part,  \* the component that runs
  now, exp, due, flight, answer, waiters, pc, url, chan, cancelled, result

Params == INSTANCE ChainParams

paramsVars == <<now, exp, due, flight, answer, waiters, pc, url, chan, cancelled, result>>
vars == <<part, inboundVars, publisherVars, beaconVars, mplexVars, dnsVars, paramsVars>>

\* All initial states of the component that runs, one of the others.
Inits(p, all) == IF part = p THEN all ELSE {CHOOSE i \in all : TRUE}

Init ==
  /\ part \in {"Inbound", "Publisher", "Beacon", "Mplex", "Dns", "Params"}
  /\ InboundInit(Inits("Inbound", AcceptInits))
  /\ PublisherInit(Inits("Publisher", JobInits))
  /\ BeaconInit(Inits("Beacon", BeaconInits))
  /\ MplexInit
  /\ DnsInit(Inits("Dns", Graphs))
  /\ Params!Init

InboundDoes(A) ==
  part = "Inbound" /\ A
    /\ UNCHANGED <<part, publisherVars, beaconVars, mplexVars, dnsVars, paramsVars>>
PublisherDoes(A) ==
  part = "Publisher" /\ A
    /\ UNCHANGED <<part, inboundVars, beaconVars, mplexVars, dnsVars, paramsVars>>
BeaconDoes(A) ==
  part = "Beacon" /\ A
    /\ UNCHANGED <<part, inboundVars, publisherVars, mplexVars, dnsVars, paramsVars>>
MplexDoes(A) ==
  part = "Mplex" /\ A
    /\ UNCHANGED <<part, inboundVars, publisherVars, beaconVars, dnsVars, paramsVars>>
DnsDoes(A) ==
  part = "Dns" /\ A
    /\ UNCHANGED <<part, inboundVars, publisherVars, beaconVars, mplexVars, paramsVars>>
ParamsDoes(A) ==
  part = "Params" /\ A
    /\ UNCHANGED <<part, inboundVars, publisherVars, beaconVars, mplexVars, dnsVars>>

Next ==
  \/ InboundDoes(InboundNext)
  \/ PublisherDoes(PublisherNext)
  \/ BeaconDoes(BeaconNext)
  \/ MplexDoes(MplexNext)
  \/ DnsDoes(DnsNext)
  \/ ParamsDoes(Params!Next)

Spec == Init /\ [][Next]_vars

(***************************************************************************)
(* Every goroutine runs on when it can.  No timer need ever fire, except   *)
(* the one of the fetch of chain parameters (FetchTimesOut); no peer, node *)
(* or owner need do anything.                                              *)
(***************************************************************************)
Fairness ==
  /\ \A a \in Accepts : WF_vars(InboundDoes(AcceptStep(a)))
  /\ \A s \in Streams : WF_vars(InboundDoes(HandlerStep(s)))
  /\ \A j \in Jobs : WF_vars(PublisherDoes(JobStep(j)))
  /\ WF_vars(BeaconDoes(BeaconStep)) /\ WF_vars(MplexDoes(DrainStep)) /\ WF_vars(DnsDoes(DnsNext))
  /\ \A c \in Callers : /\ WF_vars(ParamsDoes(Params!DoChan(c)))
                        /\ WF_vars(ParamsDoes(Params!Receive(c) \/ Params!GiveUp(c)))
  /\ \A u \in URLs :
       /\ WF_vars(ParamsDoes(Params!Recheck(u) \/ Params!StoreParams(u) \/ Params!Deliver(u)))
       /\ WF_vars(ParamsDoes(Params!FetchTimesOut(u)))

FairSpec == Spec /\ Fairness
-----------------------------------------------------------------------------
(* Properties.                                                             *)

AtRest ==
  CASE part = "Inbound"   -> InboundAtRest
    [] part = "Publisher" -> PublisherAtRest
    [] part = "Beacon"    -> status # "None"
    [] part = "Mplex"     -> MplexAtRest
    [] part = "Dns"       -> verdict # "None"
    [] OTHER              -> TRUE

\* No call hangs: in the end every call, handler goroutine, Drain, Status and
\* walk is over or waits, within its own time, for something that may still
\* come, and no Await waits on a publisher that is closed; and every call of
\* FetchChainParams returns, even if the node never answers.
CallsReturn ==
  /\ <>[]AtRest
  /\ \A c \in Callers : []<>(pc[c] = "Idle")

\* The node answers: no fetch fails, and none stays under way for ever.
NodeAnswers ==
  /\ [](\A u \in URLs : answer[u] \notin Params!Failures)
  /\ \A u \in URLs : WF_vars(ParamsDoes(Params!FetchSucceeds(u)))

\* "A shared request must not inherit whichever caller happened to win the
\* singleflight race" (rpc/chainparams.go:129): if the node answers, a caller
\* whose own context does not end gets the parameters, whoever started the
\* fetch it joined and whoever of the others gives up, at whatever moment.
SharedFetchServes ==
  NodeAnswers =>
    \A c \in Callers :
      (pc[c] # "Idle" /\ ~cancelled[c]) ~> (cancelled[c] \/ result[c] = "Params")
=============================================================================
