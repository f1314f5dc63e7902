---------------------------- MODULE ChainParams ----------------------------
(***************************************************************************)
(* FetchChainParams (rpc/chainparams.go): the bounded cache of chain       *)
(* parameters per RPC URL, and the shared fetch behind it.  A caller that  *)
(* misses the cache joins the singleflight group of its URL; the flight    *)
(* looks at the cache again, makes four RPC calls, stores and answers      *)
(* everyone who joined.  Parameters themselves are left out: an entry is   *)
(* its expiry, 0 for none.  Time is a counter that advances between any    *)
(* two steps.                                                              *)
(***************************************************************************)
EXTENDS Naturals, FiniteSets

CONSTANTS Callers,  \* goroutines that call FetchChainParams
          URLs,     \* RPC URLs, as numbers: evictOldestLocked compares keys
          Limit,    \* maxChainParamsCacheEntries (256 in the code)
          TTL,      \* chainParamsTTL
          MaxTime   \* bound on the clock

ASSUME ParamsAssumption ==
  /\ URLs \subseteq Nat \ {0}
  /\ Limit \in Nat \ {0}
  /\ TTL \in Nat \ {0}
  /\ MaxTime \in Nat \ {0}

\* Where the flight of a URL is; "Fetch" covers the four RPC calls in a row,
\* each of which ends the fetch when it fails.
Stages == {"None", "Check", "Fetch", "Store", "Deliver"}
\* How a fetch fails: with an error of the node, or with the deadline of its own
\* context or of one call, an error that wraps context.DeadlineExceeded.  A
\* caller whose own context is done gets "CtxErr".
Failures == {"Error", "Timeout"}
Answers == {"None", "Params", "CtxErr"} \cup Failures

VARIABLES
  now,        \* time.Now()
  exp,        \* exp[u]: expiry of the entry of u, 0 when there is none
  due,        \* due[u]: the expiry of what the flight of u is about to store
  flight,     \* flight[u]: where the flight of u is, "None" when there is none
  answer,     \* answer[u]: what the flight of u returned
  waiters,    \* waiters[u]: the callers whose channels the flight will fill
  pc,         \* pc[c]: "Idle", "DoChan" or "Wait"
  url,        \* url[c]: the URL of the call c is in, 0 for none
  chan,       \* chan[c]: the channel DoChan returned to c
  cancelled,  \* cancelled[c]: the context of c's last call is done
  result      \* result[c]: what c's last call returned

vars == <<now, exp, due, flight, answer, waiters, pc, url, chan, cancelled, result>>
groupVars == <<due, flight, answer, waiters>>
callerVars == <<pc, url, chan, cancelled, result>>

Init ==
  /\ now = 1
  /\ exp = [u \in URLs |-> 0]
  /\ due = [u \in URLs |-> 0]
  /\ flight = [u \in URLs |-> "None"]
  /\ answer = [u \in URLs |-> "None"]
  /\ waiters = [u \in URLs |-> {}]
  /\ pc = [c \in Callers |-> "Idle"]
  /\ url = [c \in Callers |-> 0]
  /\ chan = [c \in Callers |-> "None"]
  /\ cancelled = [c \in Callers |-> FALSE]
  /\ result = [c \in Callers |-> "None"]
-----------------------------------------------------------------------------
(* The cache store.                                                        *)

Keys(entries) == {u \in URLs : entries[u] # 0}

pruneExpired(entries) ==
  [u \in URLs |-> IF entries[u] > now THEN entries[u] ELSE 0]

\* Mutant: the comparison is turned round.
isNewest(entries, u) ==
  /\ u \in Keys(entries)
  /\ \A v \in Keys(entries) :
       entries[u] > entries[v] \/ (entries[u] = entries[v] /\ u <= v)

\* The entry that expires first; among equals the smallest key.
isOldest(entries, u) ==
  /\ u \in Keys(entries)
  /\ \A v \in Keys(entries) :
       entries[u] < entries[v] \/ (entries[u] = entries[v] /\ u <= v)

evictOldest(entries) ==
  [u \in URLs |-> IF isOldest(entries, u) THEN 0 ELSE entries[u]]

\* Load prunes and then looks the key up.
Load == exp' = pruneExpired(exp)

Hit(u) == pruneExpired(exp)[u] # 0

\* Mutant: the age of the entry is stored, not its expiry.
StoreAge(u) == exp' = [pruneExpired(exp) EXCEPT ![u] = now - TTL]

Store(u) ==
  LET live == pruneExpired(exp)
      room == IF live[u] = 0 /\ Cardinality(Keys(live)) >= Limit
              THEN evictOldest(live) ELSE live
  IN  exp' = [room EXCEPT ![u] = due[u]]
-----------------------------------------------------------------------------
(* The callers.                                                            *)

\* FetchChainParams up to its first look at the cache.
FetchCached(c, u) ==
  /\ pc[c] = "Idle"
  /\ Load
  /\ Hit(u)
  /\ cancelled' = [cancelled EXCEPT ![c] = FALSE]
  /\ result' = [result EXCEPT ![c] = "Params"]
  /\ UNCHANGED <<now, groupVars, pc, url, chan>>

FetchMissed(c, u) ==
  /\ pc[c] = "Idle"
  /\ Load
  /\ ~Hit(u)
  /\ pc' = [pc EXCEPT ![c] = "DoChan"]
  /\ url' = [url EXCEPT ![c] = u]
  /\ cancelled' = [cancelled EXCEPT ![c] = FALSE]
  /\ result' = [result EXCEPT ![c] = "None"]
  /\ UNCHANGED <<now, groupVars, chan>>

\* Mutant: only the caller that starts the flight gets a channel.
DoChanFirstOnly(c) ==
  LET u == url[c] IN
  /\ pc[c] = "DoChan"
  /\ pc' = [pc EXCEPT ![c] = "Wait"]
  /\ waiters' = [waiters EXCEPT ![u] = IF flight[u] = "None" THEN {c} ELSE @]
  /\ flight' = [flight EXCEPT ![u] = IF @ = "None" THEN "Check" ELSE @]
  /\ UNCHANGED <<now, exp, due, answer, url, chan, cancelled, result>>

\* singleflight DoChan: join the flight of the URL or start one.
DoChan(c) ==
  LET u == url[c] IN
  /\ pc[c] = "DoChan"
  /\ pc' = [pc EXCEPT ![c] = "Wait"]
  /\ waiters' = [waiters EXCEPT ![u] = @ \cup {c}]
  /\ flight' = [flight EXCEPT ![u] = IF @ = "None" THEN "Check" ELSE @]
  /\ UNCHANGED <<now, exp, due, answer, url, chan, cancelled, result>>

Cancel(c) ==
  /\ pc[c] # "Idle"
  /\ ~cancelled[c]
  /\ cancelled' = [cancelled EXCEPT ![c] = TRUE]
  /\ UNCHANGED <<now, exp, groupVars, pc, url, chan, result>>

\* case completed := <-result
Receive(c) ==
  /\ pc[c] = "Wait"
  /\ chan[c] # "None"
  /\ pc' = [pc EXCEPT ![c] = "Idle"]
  /\ result' = [result EXCEPT ![c] = chan[c]]
  /\ chan' = [chan EXCEPT ![c] = "None"]
  /\ url' = [url EXCEPT ![c] = 0]
  /\ UNCHANGED <<now, exp, groupVars, cancelled>>

\* Mutant: the shared fetch runs under the context of a caller.
GiveUpForAll(c) ==
  /\ pc[c] = "Wait"
  /\ cancelled[c]
  /\ pc' = [pc EXCEPT ![c] = "Idle"]
  /\ result' = [result EXCEPT ![c] = "CtxErr"]
  /\ waiters' = [waiters EXCEPT ![url[c]] = @ \ {c}]
  /\ chan' = [chan EXCEPT ![c] = "None"]
  /\ url' = [url EXCEPT ![c] = 0]
  /\ flight' = [flight EXCEPT ![url[c]] = IF @ = "Fetch" THEN "Deliver" ELSE @]
  /\ answer' = [answer EXCEPT ![url[c]] =
                  IF flight[url[c]] = "Fetch" THEN "CtxErr" ELSE @]
  /\ UNCHANGED <<now, exp, due, cancelled>>

\* case <-ctx.Done(): the channel is abandoned, the flight goes on.
GiveUp(c) ==
  /\ pc[c] = "Wait"
  /\ cancelled[c]
  /\ pc' = [pc EXCEPT ![c] = "Idle"]
  /\ result' = [result EXCEPT ![c] = "CtxErr"]
  /\ waiters' = [waiters EXCEPT ![url[c]] = @ \ {c}]
  /\ chan' = [chan EXCEPT ![c] = "None"]
  /\ url' = [url EXCEPT ![c] = 0]
  /\ UNCHANGED <<now, exp, due, flight, answer, cancelled>>
-----------------------------------------------------------------------------
(* The shared fetch.                                                       *)

FlightTo(u, stage, ans) ==
  /\ flight' = [flight EXCEPT ![u] = stage]
  /\ answer' = [answer EXCEPT ![u] = ans]
  /\ UNCHANGED <<now, waiters, callerVars>>

\* Mutant: the flight trusts the look its caller took before joining.
RecheckSkipped(u) ==
  /\ flight[u] = "Check"
  /\ FlightTo(u, "Fetch", "None")
  /\ UNCHANGED <<exp, due>>

\* The second look at the cache, inside the flight.
Recheck(u) ==
  /\ flight[u] = "Check"
  /\ Load
  /\ \/ Hit(u) /\ FlightTo(u, "Deliver", "Params")
     \/ ~Hit(u) /\ FlightTo(u, "Fetch", "None")
  /\ UNCHANGED due

\* fetchChainParamsUncached: all four calls succeed, and the entry's expiry is
\* taken before Store has the lock, ...
FetchSucceeds(u) ==
  /\ flight[u] = "Fetch"
  /\ FlightTo(u, "Store", "None")
  /\ due' = [due EXCEPT ![u] = now + TTL]
  /\ UNCHANGED exp

\* ... or the node answers one with an error, ...
FetchFails(u) ==
  /\ flight[u] = "Fetch"
  /\ FlightTo(u, "Deliver", "Error")
  /\ UNCHANGED <<exp, due>>

\* Mutant: the shared fetch runs under the contexts of its callers.
FetchTimesOutWithCaller(u) ==
  /\ flight[u] = "Fetch"
  /\ \E c \in waiters[u] : cancelled[c]
  /\ FlightTo(u, "Deliver", "Timeout")
  /\ UNCHANGED <<exp, due>>

\* ... or the timeout of fetchCtx, or of the call in it, ends the fetch: that
\* is what every caller gets, also one whose context has no end.
FetchTimesOut(u) ==
  /\ flight[u] = "Fetch"
  /\ FlightTo(u, "Deliver", "Timeout")
  /\ UNCHANGED <<exp, due>>

StoreParams(u) ==
  /\ flight[u] = "Store"
  /\ Store(u)
  /\ due' = [due EXCEPT ![u] = 0]
  /\ FlightTo(u, "Deliver", "Params")

\* doCall: the key is forgotten and every channel filled under one lock.
Deliver(u) ==
  /\ flight[u] = "Deliver"
  /\ flight' = [flight EXCEPT ![u] = "None"]
  /\ answer' = [answer EXCEPT ![u] = "None"]
  /\ waiters' = [waiters EXCEPT ![u] = {}]
  /\ chan' = [c \in Callers |-> IF c \in waiters[u] THEN answer[u] ELSE chan[c]]
  /\ UNCHANGED <<now, exp, due, pc, url, cancelled, result>>

Tick ==
  /\ now < MaxTime
  /\ now' = now + 1
  /\ UNCHANGED <<exp, groupVars, callerVars>>

FlightStep(u) ==
  \/ Recheck(u) \/ FetchSucceeds(u) \/ FetchFails(u) \/ FetchTimesOut(u)
  \/ StoreParams(u) \/ Deliver(u)

Next ==
  \/ \E c \in Callers, u \in URLs : FetchCached(c, u) \/ FetchMissed(c, u)
  \/ \E c \in Callers : DoChan(c) \/ Cancel(c) \/ Receive(c) \/ GiveUp(c)
  \/ \E u \in URLs : FlightStep(u)
  \/ Tick

Spec == Init /\ [][Next]_vars

(***************************************************************************)
(* Goroutines that can run do run, and the timeout of fetchCtx ends a      *)
(* fetch that the node never answers.  Nothing is assumed of the node, of  *)
(* new calls or of the callers' contexts.                                  *)
(***************************************************************************)
Fairness ==
  /\ \A c \in Callers : WF_vars(DoChan(c)) /\ WF_vars(Receive(c) \/ GiveUp(c))
  /\ \A u \in URLs :
       /\ WF_vars(Recheck(u) \/ StoreParams(u) \/ Deliver(u))
       /\ WF_vars(FetchTimesOut(u))

FairSpec == Spec /\ Fairness
-----------------------------------------------------------------------------
(* Properties.                                                             *)

\* Types of the cache, the flights and the callers.
TypeOK ==
  /\ now \in Nat
  /\ exp \in [URLs -> Nat]
  /\ due \in [URLs -> Nat]
  /\ flight \in [URLs -> Stages]
  /\ answer \in [URLs -> Answers]
  /\ waiters \in [URLs -> SUBSET Callers]
  /\ pc \in [Callers -> {"Idle", "DoChan", "Wait"}]
  /\ url \in [Callers -> URLs \cup {0}]
  /\ \A c \in Callers : pc[c] = "Idle" <=> url[c] = 0
  /\ chan \in [Callers -> Answers]
  /\ cancelled \in [Callers -> BOOLEAN]
  /\ result \in [Callers -> Answers]

\* "the hard capacity bounds one-shot ephemeral endpoints": the cache never
\* holds more than limit entries, also while flights of several URLs store.
WithinLimit ==
  /\ IsFiniteSet(Keys(exp))
  /\ Cardinality(Keys(exp)) <= Limit

\* No flight makes an RPC call or stores while its URL has a live entry: the
\* second cache check is still true when it is acted on, although callers that
\* missed long ago may start the flight at any time.
NoRefetch ==
  \A u \in URLs : flight[u] \in {"Fetch", "Store"} => ~(exp[u] > now)

\* A caller that waits on an empty channel has a flight that will fill it.
NoOrphanWaiter ==
  \A c \in Callers :
    (pc[c] = "Wait" /\ chan[c] = "None") =>
      flight[url[c]] # "None" /\ c \in waiters[url[c]]

\* An entry that has not expired leaves the cache only to make room in a full
\* cache, and then it is one that expires first.
EvictsOldestOnly ==
  [][\A u \in URLs :
       (exp[u] > now /\ exp'[u] = 0) =>
         /\ Cardinality({v \in URLs : exp[v] > now}) >= Limit
         /\ \A v \in URLs : exp[v] > now => exp[u] <= exp[v]]_vars

\* Every call of FetchChainParams returns, even if the node never answers and
\* the caller's context never ends.
CallsReturn == \A c \in Callers : pc[c] # "Idle" ~> pc[c] = "Idle"
=============================================================================
