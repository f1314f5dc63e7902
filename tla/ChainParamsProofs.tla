------------------------- MODULE ChainParamsProofs -------------------------
(***************************************************************************)
(* Proofs about ChainParams for any callers, any URLs, any cache limit and *)
(* any lifetime of an entry.                                               *)
(***************************************************************************)
EXTENDS ChainParams, FiniteSetTheorems, WellFoundedInduction, TLAPS

\* Pruning keeps the types and is zero or the old entry for every URL.
LEMMA PruneType ==
  ASSUME NEW e \in [URLs -> Nat]
  PROVE  /\ pruneExpired(e) \in [URLs -> Nat]
         /\ \A u \in URLs : pruneExpired(e)[u] = IF e[u] > now THEN e[u] ELSE 0
  BY DEF pruneExpired

\* Store writes a function of the right type: the entry of u, and for every
\* other URL what pruning left or nothing.
LEMMA StoreType ==
  ASSUME TypeOK, NEW u \in URLs, Store(u)
  PROVE  /\ exp' \in [URLs -> Nat]
         /\ \A v \in URLs \ {u} : exp'[v] \in {0, pruneExpired(exp)[v]}
  <1> DEFINE live == pruneExpired(exp)
             room == IF live[u] = 0 /\ Cardinality(Keys(live)) >= Limit
                     THEN evictOldest(live) ELSE live
  <1>1. live \in [URLs -> Nat]
    BY PruneType DEF TypeOK
  <1>2. evictOldest(live) \in [URLs -> Nat]
    BY <1>1 DEF evictOldest
  <1>3. \A v \in URLs : evictOldest(live)[v] \in {0, live[v]}
    BY DEF evictOldest
  <1>4. room \in [URLs -> Nat] /\ \A v \in URLs : room[v] \in {0, live[v]}
    BY <1>1, <1>2, <1>3
  <1>5. exp' = [room EXCEPT ![u] = due[u]]
    BY DEF Store
  <1>6. due[u] \in Nat
    BY DEF TypeOK
  <1> HIDE DEF live, room
  <1>7. exp' \in [URLs -> Nat] /\ \A v \in URLs \ {u} : exp'[v] = room[v]
    BY <1>4, <1>5, <1>6
  <1> QED
    BY <1>4, <1>7 DEF live

\* Every step keeps the types.
LEMMA NextType == TypeOK /\ [Next]_vars => TypeOK'
  <1> SUFFICES ASSUME TypeOK, [Next]_vars
               PROVE  TypeOK'
    OBVIOUS
  <1> USE ParamsAssumption DEF ParamsAssumption, groupVars, callerVars
  <1>0. pruneExpired(exp) \in [URLs -> Nat]
    BY PruneType DEF TypeOK
  <1>1. ASSUME NEW c \in Callers, NEW u \in URLs, FetchCached(c, u)
        PROVE  TypeOK'
    BY <1>0, <1>1 DEF FetchCached, Load, TypeOK, Answers, Failures
  <1>2. ASSUME NEW c \in Callers, NEW u \in URLs, FetchMissed(c, u)
        PROVE  TypeOK'
    BY <1>0, <1>2 DEF FetchMissed, Load, TypeOK, Answers, Failures
  <1>3. ASSUME NEW c \in Callers, DoChan(c)
        PROVE  TypeOK'
    BY <1>3 DEF DoChan, TypeOK, Stages
  <1>4. ASSUME NEW c \in Callers, Cancel(c)
        PROVE  TypeOK'
    BY <1>4 DEF Cancel, TypeOK
  <1>5. ASSUME NEW c \in Callers, Receive(c)
        PROVE  TypeOK'
    BY <1>5 DEF Receive, TypeOK, Answers, Failures
  <1>6. ASSUME NEW c \in Callers, GiveUp(c)
        PROVE  TypeOK'
    BY <1>6 DEF GiveUp, TypeOK, Answers, Failures
  <1>7. ASSUME NEW u \in URLs, FlightStep(u)
        PROVE  TypeOK'
    <2>1. ASSUME NEW stage \in Stages, NEW ans \in Answers,
                 FlightTo(u, stage, ans), exp' \in [URLs -> Nat],
                 due' \in [URLs -> Nat]
          PROVE  TypeOK'
      BY <2>1 DEF FlightTo, TypeOK
    <2>2. CASE Recheck(u)
      <3>1. due' \in [URLs -> Nat]
        BY <2>2 DEF Recheck, TypeOK
      <3> QED
        BY <1>0, <2>1, <2>2, <3>1 DEF Recheck, Load, Stages, Answers, Failures
    <2>3. CASE FetchSucceeds(u) \/ FetchFails(u) \/ FetchTimesOut(u)
      <3>1. exp' \in [URLs -> Nat] /\ due' \in [URLs -> Nat]
        BY <2>3 DEF FetchSucceeds, FetchFails, FetchTimesOut, TypeOK
      <3> QED
        BY <2>1, <2>3, <3>1 DEF FetchSucceeds, FetchFails, FetchTimesOut, Stages, Answers, Failures
    <2>4. CASE StoreParams(u)
      <3>1. due' \in [URLs -> Nat]
        BY <2>4 DEF StoreParams, TypeOK
      <3> QED
        BY <2>1, <2>4, <3>1, StoreType DEF StoreParams, Stages, Answers, Failures
    <2>5. CASE Deliver(u)
      BY <2>5 DEF Deliver, TypeOK, Stages, Answers, Failures
    <2> QED
      BY <1>7, <2>2, <2>3, <2>4, <2>5 DEF FlightStep
  <1>8. CASE Tick
    BY <1>8 DEF Tick, TypeOK
  <1>9. CASE UNCHANGED vars
    BY <1>9 DEF vars, TypeOK
  <1> QED
    BY <1>1, <1>2, <1>3, <1>4, <1>5, <1>6, <1>7, <1>8, <1>9 DEF Next

\* Type correctness of the cache, the flights and the callers.
THEOREM TypeCorrect == Spec => []TypeOK
  <1>1. Init => TypeOK
    BY DEF Init, TypeOK, Stages, Answers, Failures
  <1> QED
    BY <1>1, NextType, PTL DEF Spec
-----------------------------------------------------------------------------
\* How a step may change the cache: not at all, by pruning, or by the Store of
\* the flight of one URL, which then has left the stages that fetch.
LEMMA CacheSteps ==
  [Next]_vars =>
    \/ UNCHANGED exp
    \/ Load /\ UNCHANGED now
    \/ \E u \in URLs : StoreParams(u)
  BY DEF Next, vars, FetchCached, FetchMissed, DoChan, Cancel, Receive, GiveUp,
     FlightStep, Recheck, FetchSucceeds, FetchFails, FetchTimesOut, Deliver, Tick, FlightTo

\* Which flights may fetch after a step: those that fetched before it, and one
\* whose recheck just missed.
LEMMA FetchSteps ==
  ASSUME TypeOK, [Next]_vars, NEW u \in URLs, flight'[u] \in {"Fetch", "Store"}
  PROVE  \/ flight[u] \in {"Fetch", "Store"} /\ ~StoreParams(u)
         \/ Load /\ ~Hit(u) /\ UNCHANGED now
  <1> USE DEF groupVars, callerVars
  <1>1. ASSUME NEW c \in Callers, NEW v \in URLs,
               FetchCached(c, v) \/ FetchMissed(c, v)
        PROVE  UNCHANGED flight
    BY <1>1 DEF FetchCached, FetchMissed
  <1>2. ASSUME NEW c \in Callers, Cancel(c) \/ Receive(c) \/ GiveUp(c)
        PROVE  UNCHANGED flight
    BY <1>2 DEF Cancel, Receive, GiveUp
  <1>3. CASE UNCHANGED vars \/ Tick
    BY <1>3 DEF vars, Tick, StoreParams, FlightTo, TypeOK
  <1>4. CASE UNCHANGED flight
    BY <1>4 DEF StoreParams, FlightTo, TypeOK
  <1>5. ASSUME NEW c \in Callers, DoChan(c)
        PROVE  flight[u] \in {"Fetch", "Store"} /\ ~StoreParams(u)
    BY <1>5 DEF DoChan, StoreParams, FlightTo, TypeOK
  <1>6. ASSUME NEW v \in URLs, FlightStep(v)
        PROVE  \/ flight[u] \in {"Fetch", "Store"} /\ ~StoreParams(u)
               \/ Load /\ ~Hit(u) /\ UNCHANGED now
    <2>1. CASE v = u
      BY <1>6, <2>1 DEF FlightStep, Recheck, FetchSucceeds, FetchFails, FetchTimesOut, StoreParams,
         Deliver, FlightTo, TypeOK
    <2>2. CASE v # u
      <3>1. flight'[u] = flight[u]
        BY <1>6, <2>2 DEF FlightStep, Recheck, FetchSucceeds, FetchFails, FetchTimesOut,
           StoreParams, Deliver, FlightTo, TypeOK
      <3> QED
        BY <3>1 DEF StoreParams, FlightTo, TypeOK
    <2> QED
      BY <2>1, <2>2
  <1> QED
    BY <1>1, <1>2, <1>3, <1>4, <1>5, <1>6 DEF Next

\* The second look at the cache stays true until the flight stores: no flight
\* fetches parameters that the cache already holds.
THEOREM NoRefetchCorrect == Spec => []NoRefetch
  <1>1. Init => NoRefetch
    BY DEF Init, NoRefetch
  <1>2. TypeOK /\ NoRefetch /\ [Next]_vars => NoRefetch'
    <2> SUFFICES ASSUME TypeOK, NoRefetch, [Next]_vars, TypeOK',
                        NEW u \in URLs, flight'[u] \in {"Fetch", "Store"}
                 PROVE  ~(exp'[u] > now')
      BY NextType DEF NoRefetch
    <2>0. /\ exp[u] \in Nat /\ exp'[u] \in Nat
          /\ now \in Nat /\ now' \in Nat /\ now <= now'
      <3>1. now <= now'
        BY DEF Next, vars, FetchCached, FetchMissed, DoChan, Cancel, Receive, GiveUp,
           FlightStep, Recheck, FetchSucceeds, FetchFails, FetchTimesOut, StoreParams, Deliver,
           Tick, FlightTo, TypeOK
      <3> QED
        BY <3>1 DEF TypeOK
    <2>1. CASE Load /\ ~Hit(u) /\ UNCHANGED now
      BY <2>0, <2>1 DEF Load, Hit
    <2>2. CASE flight[u] \in {"Fetch", "Store"} /\ ~StoreParams(u)
      <3>0. ~(exp[u] > now)
        BY <2>2 DEF NoRefetch
      <3>1. pruneExpired(exp)[u] \in {0, exp[u]}
        BY PruneType DEF TypeOK
      <3>2. CASE UNCHANGED exp
        BY <2>0, <3>0, <3>2
      <3>3. CASE Load
        BY <2>0, <3>0, <3>1, <3>3 DEF Load
      <3>4. ASSUME NEW v \in URLs, StoreParams(v)
            PROVE  ~(exp'[u] > now')
        <4>1. v # u
          BY <2>2, <3>4
        <4>2. exp'[u] \in {0, pruneExpired(exp)[u]}
          BY <3>4, <4>1, StoreType DEF StoreParams
        <4> QED
          BY <2>0, <3>0, <3>1, <4>2
      <3> QED
        BY <3>2, <3>3, <3>4, CacheSteps
    <2> QED
      BY <2>1, <2>2, FetchSteps
  <1> QED
    BY <1>1, <1>2, TypeCorrect, PTL DEF Spec
-----------------------------------------------------------------------------
\* What a flight hands out is never empty: whoever receives leaves the wait.
FlightAnswers == \A u \in URLs : flight[u] = "Deliver" => answer[u] # "None"

\* The inductive invariant behind NoOrphanWaiter.
WaiterInv == FlightAnswers /\ NoOrphanWaiter

\* Every step keeps the inductive invariant.
LEMMA NextWaiterInv == TypeOK /\ WaiterInv /\ [Next]_vars => WaiterInv'
  <1> SUFFICES ASSUME TypeOK, WaiterInv, [Next]_vars
               PROVE  WaiterInv'
    OBVIOUS
  <1> USE DEF WaiterInv, FlightAnswers, NoOrphanWaiter, TypeOK,
              groupVars, callerVars
  <1>1. ASSUME NEW c \in Callers, NEW u \in URLs,
               FetchCached(c, u) \/ FetchMissed(c, u)
        PROVE  WaiterInv'
    BY <1>1 DEF FetchCached, FetchMissed
  <1>2. ASSUME NEW c \in Callers, DoChan(c)
        PROVE  WaiterInv'
    <2>0. url[c] \in URLs
      BY <1>2 DEF DoChan
    <2>1. FlightAnswers'
      BY <1>2, <2>0 DEF DoChan
    <2>2. NoOrphanWaiter'
      BY <1>2, <2>0 DEF DoChan
    <2> QED
      BY <1>2, <2>1, <2>2 DEF DoChan
  <1>3. ASSUME NEW c \in Callers, Cancel(c)
        PROVE  WaiterInv'
    BY <1>3 DEF Cancel
  <1>4. ASSUME NEW c \in Callers, Receive(c)
        PROVE  WaiterInv'
    BY <1>4 DEF Receive
  <1>5. ASSUME NEW c \in Callers, GiveUp(c)
        PROVE  WaiterInv'
    <2>0. url[c] \in URLs
      BY <1>5 DEF GiveUp
    <2>1. NoOrphanWaiter'
      BY <1>5, <2>0 DEF GiveUp
    <2> QED
      BY <1>5, <2>1 DEF GiveUp
  <1>6. ASSUME NEW u \in URLs, FlightStep(u)
        PROVE  WaiterInv'
    <2>1. ASSUME NEW stage, NEW ans, FlightTo(u, stage, ans), stage # "None",
                 stage = "Deliver" => ans # "None"
          PROVE  WaiterInv'
      BY <2>1 DEF FlightTo
    <2>2. CASE Recheck(u) \/ FetchSucceeds(u) \/ FetchFails(u) \/ FetchTimesOut(u)
             \/ StoreParams(u)
      BY <2>1, <2>2 DEF Recheck, FetchSucceeds, FetchFails, FetchTimesOut, StoreParams
    <2>3. CASE Deliver(u)
      <3>1. FlightAnswers'
        BY <2>3 DEF Deliver
      <3>2. NoOrphanWaiter'
        BY <2>3 DEF Deliver
      <3> QED
        BY <2>3, <3>1, <3>2 DEF Deliver
    <2> QED
      BY <1>6, <2>2, <2>3 DEF FlightStep
  <1>7. CASE Tick
    BY <1>7 DEF Tick
  <1>8. CASE UNCHANGED vars
    BY <1>8 DEF vars
  <1> QED
    BY <1>1, <1>2, <1>3, <1>4, <1>5, <1>6, <1>7, <1>8 DEF Next

\* The inductive invariant holds in every reachable state.
LEMMA WaiterCorrect == Spec => []WaiterInv
  <1>1. Init => WaiterInv
    BY DEF Init, WaiterInv, FlightAnswers, NoOrphanWaiter
  <1> QED
    BY <1>1, NextWaiterInv, TypeCorrect, PTL DEF Spec

\* Whoever waits has a flight that will answer.
THEOREM NoOrphanWaiterCorrect == Spec => []NoOrphanWaiter
  <1>1. WaiterInv => NoOrphanWaiter
    BY DEF WaiterInv
  <1> QED
    BY <1>1, WaiterCorrect, PTL
-----------------------------------------------------------------------------
\* A nonempty set of natural numbers has a least element.
LEMMA LeastNatural ==
  ASSUME NEW T, T \subseteq Nat, T # {}
  PROVE  \E x \in T : \A y \in T : x <= y
  <1>1. \E x \in T : \A y \in T : ~(<<y, x>> \in OpToRel(<, Nat))
    BY NatLessThanWellFounded, WFMin
  <1>2. PICK x \in T : \A y \in T : ~(<<y, x>> \in OpToRel(<, Nat))
    BY <1>1
  <1>3. ASSUME NEW y \in T
        PROVE  x <= y
    <2>1. x \in Nat /\ y \in Nat
      OBVIOUS
    <2>2. ~(y < x)
      BY <1>2, <2>1 DEF OpToRel
    <2> QED
      BY <2>1, <2>2
  <1> QED
    BY <1>3

\* A cache that holds something has an entry that evictOldestLocked removes.
LEMMA OldestExists ==
  ASSUME NEW e \in [URLs -> Nat], Keys(e) # {}
  PROVE  \E u \in Keys(e) : isOldest(e, u)
  <1> DEFINE expiries == {e[v] : v \in Keys(e)}
  <1>0. Keys(e) \subseteq URLs /\ Keys(e) \subseteq Nat
    BY ParamsAssumption DEF Keys, ParamsAssumption
  <1>1. expiries \subseteq Nat /\ expiries # {}
    BY <1>0
  <1>2. PICK x \in expiries : \A y \in expiries : x <= y
    BY <1>1, LeastNatural
  <1> DEFINE first == {v \in Keys(e) : e[v] = x}
  <1>3. first \subseteq Nat /\ first # {}
    BY <1>0, <1>2
  <1>4. PICK u \in first : \A v \in first : u <= v
    BY <1>3, LeastNatural
  <1>5. ASSUME NEW v \in Keys(e)
        PROVE  e[u] < e[v] \/ (e[u] = e[v] /\ u <= v)
    <2>1. e[u] = x /\ e[v] \in Nat /\ x \in Nat /\ x <= e[v]
      BY <1>0, <1>1, <1>2
    <2>2. CASE e[v] = x
      BY <1>4, <2>1, <2>2
    <2>3. CASE e[v] # x
      BY <2>1, <2>3
    <2> QED
      BY <2>2, <2>3
  <1> QED
    BY <1>5 DEF isOldest

\* Every Store leaves at most limit entries: when the cache is full and the URL
\* is new, evicting the oldest makes the room.
LEMMA StoreWithinLimit ==
  ASSUME TypeOK, WithinLimit, NEW u \in URLs, Store(u)
  PROVE  WithinLimit'
  <1> DEFINE live == pruneExpired(exp)
             kept == IF live[u] = 0 /\ Cardinality(Keys(live)) >= Limit
                     THEN evictOldest(live) ELSE live
  <1> USE ParamsAssumption DEF ParamsAssumption
  <1>1. live \in [URLs -> Nat] /\ Keys(live) \subseteq Keys(exp)
    <2>1. live \in [URLs -> Nat]
          /\ \A v \in URLs : live[v] = IF exp[v] > now THEN exp[v] ELSE 0
      BY PruneType DEF TypeOK
    <2> HIDE DEF live
    <2> QED
      BY <2>1 DEF Keys
  <1>2. /\ IsFiniteSet(Keys(live))
        /\ Cardinality(Keys(live)) \in Nat
        /\ Cardinality(Keys(live)) <= Limit
    <2>1. IsFiniteSet(Keys(exp)) /\ Cardinality(Keys(exp)) <= Limit
      BY DEF WithinLimit
    <2>2. Cardinality(Keys(exp)) \in Nat
      BY <2>1, FS_CardinalityType
    <2>3. IsFiniteSet(Keys(live)) /\ Cardinality(Keys(live)) <= Cardinality(Keys(exp))
      BY <1>1, <2>1, FS_Subset
    <2>4. Cardinality(Keys(live)) \in Nat
      BY <2>3, FS_CardinalityType
    <2> QED
      BY <2>1, <2>2, <2>3, <2>4
  <1>3. exp' = [kept EXCEPT ![u] = due[u]]
    BY DEF Store
  <1> HIDE DEF live
  <1>4. CASE live[u] # 0
    <2>1. Keys(exp') \subseteq Keys(live)
      BY <1>1, <1>3, <1>4 DEF Keys
    <2>2. IsFiniteSet(Keys(exp')) /\ Cardinality(Keys(exp')) <= Cardinality(Keys(live))
      BY <1>2, <2>1, FS_Subset
    <2>3. Cardinality(Keys(exp')) \in Nat
      BY <2>2, FS_CardinalityType
    <2> QED
      BY <1>2, <2>2, <2>3 DEF WithinLimit, Keys
  <1>5. CASE live[u] = 0 /\ Cardinality(Keys(live)) < Limit
    <2>1. Keys(exp') \subseteq Keys(live) \cup {u}
      BY <1>1, <1>2, <1>3, <1>5 DEF Keys
    <2>2. u \notin Keys(live)
      BY <1>5 DEF Keys
    <2>3. /\ IsFiniteSet(Keys(live) \cup {u})
          /\ Cardinality(Keys(live) \cup {u}) = Cardinality(Keys(live)) + 1
      BY <1>2, <2>2, FS_AddElement
    <2>4. /\ IsFiniteSet(Keys(exp'))
          /\ Cardinality(Keys(exp')) <= Cardinality(Keys(live)) + 1
      BY <2>1, <2>3, FS_Subset
    <2>5. Cardinality(Keys(exp')) \in Nat
      BY <2>4, FS_CardinalityType
    <2> QED
      BY <1>2, <1>5, <2>4, <2>5 DEF WithinLimit, Keys
  <1>6. CASE live[u] = 0 /\ Cardinality(Keys(live)) >= Limit
    <2>1. Keys(live) # {}
      BY <1>2, <1>6, FS_EmptySet
    <2>2. PICK old \in Keys(live) : isOldest(live, old)
      BY <1>1, <2>1, OldestExists
    <2>3. Keys(exp') \subseteq (Keys(live) \ {old}) \cup {u}
      <3>1. kept = evictOldest(live)
        BY <1>6
      <3>2. \A v \in URLs : kept[v] = IF isOldest(live, v) THEN 0 ELSE live[v]
        BY <3>1 DEF evictOldest
      <3>3. kept \in [URLs -> Nat]
        BY <1>1, <3>1 DEF evictOldest
      <3> HIDE DEF kept
      <3> QED
        BY <1>3, <2>2, <3>2, <3>3 DEF Keys
    <2>4. u \notin Keys(live) \ {old}
      BY <1>6 DEF Keys
    <2>5. /\ IsFiniteSet(Keys(live) \ {old})
          /\ Cardinality(Keys(live) \ {old}) = Cardinality(Keys(live)) - 1
      BY <1>2, <2>2, FS_RemoveElement
    <2>6. /\ IsFiniteSet((Keys(live) \ {old}) \cup {u})
          /\ Cardinality((Keys(live) \ {old}) \cup {u}) = Cardinality(Keys(live))
      <3> DEFINE rest == Keys(live) \ {old}
      <3>1. IsFiniteSet(rest) /\ u \notin rest /\ Cardinality(rest) = Cardinality(Keys(live)) - 1
        BY <2>4, <2>5
      <3> HIDE DEF rest
      <3>2. IsFiniteSet(rest \cup {u}) /\ Cardinality(rest \cup {u}) = Cardinality(rest) + 1
        BY <3>1, FS_AddElement
      <3>3. Cardinality(rest \cup {u}) = Cardinality(Keys(live))
        BY <1>2, <3>1, <3>2
      <3> QED
        BY <3>2, <3>3 DEF rest
    <2>7. /\ IsFiniteSet(Keys(exp'))
          /\ Cardinality(Keys(exp')) <= Cardinality(Keys(live))
      BY <2>3, <2>6, FS_Subset
    <2>8. Cardinality(Keys(exp')) \in Nat
      BY <2>7, FS_CardinalityType
    <2> QED
      BY <1>2, <2>7, <2>8 DEF WithinLimit, Keys
  <1> QED
    BY <1>2, <1>4, <1>5, <1>6

\* The cache never exceeds its limit, whichever flights store.
THEOREM WithinLimitCorrect == Spec => []WithinLimit
  <1>1. Init => WithinLimit
    <2> SUFFICES ASSUME Init
                 PROVE  WithinLimit
      OBVIOUS
    <2>1. Keys(exp) = {}
      BY DEF Init, Keys
    <2> QED
      BY <2>1, FS_EmptySet, ParamsAssumption DEF WithinLimit, ParamsAssumption
  <1>2. TypeOK /\ WithinLimit /\ [Next]_vars => WithinLimit'
    <2> SUFFICES ASSUME TypeOK, WithinLimit, [Next]_vars
                 PROVE  WithinLimit'
      OBVIOUS
    <2>1. CASE UNCHANGED exp
      BY <2>1 DEF WithinLimit, Keys
    <2>2. CASE Load
      <3>1. \A v \in URLs : exp'[v] = IF exp[v] > now THEN exp[v] ELSE 0
        BY <2>2, PruneType DEF Load, TypeOK
      <3>2. Keys(exp') \subseteq Keys(exp)
        BY <3>1 DEF Keys
      <3>3. IsFiniteSet(Keys(exp)) /\ Cardinality(Keys(exp)) <= Limit
        BY DEF WithinLimit
      <3>4. IsFiniteSet(Keys(exp')) /\ Cardinality(Keys(exp')) <= Cardinality(Keys(exp))
        BY <3>2, <3>3, FS_Subset
      <3>5. Cardinality(Keys(exp')) \in Nat /\ Cardinality(Keys(exp)) \in Nat
        BY <3>3, <3>4, FS_CardinalityType
      <3> QED
        BY <3>3, <3>4, <3>5, ParamsAssumption DEF WithinLimit, Keys, ParamsAssumption
    <2>3. ASSUME NEW u \in URLs, StoreParams(u)
          PROVE  WithinLimit'
      BY <2>3, StoreWithinLimit DEF StoreParams
    <2> QED
      BY <2>1, <2>2, <2>3, CacheSteps
  <1> QED
    BY <1>1, <1>2, TypeCorrect, PTL DEF Spec
-----------------------------------------------------------------------------
(* What makes room.                                                        *)

\* Pruning leaves exactly the entries that have not expired.
LEMMA LiveKeys ==
  ASSUME TypeOK
  PROVE  Keys(pruneExpired(exp)) = {v \in URLs : exp[v] > now}
  <1>1. exp \in [URLs -> Nat] /\ now \in Nat
    BY DEF TypeOK
  <1>2. \A v \in URLs : pruneExpired(exp)[v] # 0 <=> exp[v] > now
    BY <1>1, PruneType
  <1> QED
    BY <1>2 DEF Keys

\* The Store of one URL takes the entry of another only in a full cache, and
\* only the one that expires first.
LEMMA StoreEvicts ==
  ASSUME TypeOK, NEW w \in URLs, Store(w), NEW u \in URLs \ {w}, exp[u] > now, exp'[u] = 0
  PROVE  /\ Cardinality({v \in URLs : exp[v] > now}) >= Limit
         /\ \A v \in URLs : exp[v] > now => exp[u] <= exp[v]
  <1> DEFINE live == pruneExpired(exp)
  <1>1. exp \in [URLs -> Nat] /\ now \in Nat
    BY DEF TypeOK
  <1>2. live \in [URLs -> Nat] /\ \A v \in URLs : live[v] = IF exp[v] > now THEN exp[v] ELSE 0
    BY <1>1, PruneType
  <1>3. live[u] # 0
    BY <1>1, <1>2
  <1>4. evictOldest(live) \in [URLs -> Nat]
          /\ evictOldest(live)[u] = IF isOldest(live, u) THEN 0 ELSE live[u]
    BY <1>2 DEF evictOldest
  <1>5. Cardinality(Keys(live)) >= Limit /\ isOldest(live, u)
    <2> HIDE DEF live
    <2> QED
      BY <1>2, <1>3, <1>4 DEF Store, live
  <1>6. Keys(live) = {v \in URLs : exp[v] > now}
    BY LiveKeys
  <1>7. \A v \in Keys(live) : live[u] <= live[v]
    BY <1>1, <1>2, <1>5 DEF isOldest, Keys
  <1> QED
    BY <1>1, <1>2, <1>5, <1>6, <1>7

\* An entry that is still good leaves the cache only for room in a full one, and
\* only as one that expires first, for any limit and any number of URLs
\* (evictOldestLocked, called by Store); the entry being stored is no
\* exception, since nobody fetches what the cache has (NoRefetch).
THEOREM EvictsOldestOnlyCorrect == Spec => EvictsOldestOnly
  <1> DEFINE Evicts == \A u \in URLs :
                         (exp[u] > now /\ exp'[u] = 0) =>
                           /\ Cardinality({v \in URLs : exp[v] > now}) >= Limit
                           /\ \A v \in URLs : exp[v] > now => exp[u] <= exp[v]
  <1>1. TypeOK /\ NoRefetch /\ [Next]_vars => [Evicts]_vars
    <2> SUFFICES ASSUME TypeOK, NoRefetch, [Next]_vars, NEW u \in URLs, exp[u] > now, exp'[u] = 0
                 PROVE  /\ Cardinality({v \in URLs : exp[v] > now}) >= Limit
                        /\ \A v \in URLs : exp[v] > now => exp[u] <= exp[v]
      OBVIOUS
    <2>0. exp \in [URLs -> Nat] /\ now \in Nat
      BY DEF TypeOK
    <2>1. CASE UNCHANGED exp
      BY <2>0, <2>1
    <2>2. CASE Load
      BY <2>0, <2>2, PruneType DEF Load
    <2>3. ASSUME NEW w \in URLs, StoreParams(w)
          PROVE  /\ Cardinality({v \in URLs : exp[v] > now}) >= Limit
                 /\ \A v \in URLs : exp[v] > now => exp[u] <= exp[v]
      <3>1. Store(w) /\ u # w
        BY <2>3 DEF StoreParams, NoRefetch
      <3> QED
        BY <3>1, StoreEvicts
    <2> QED
      BY <2>1, <2>2, <2>3, CacheSteps
  <1> QED
    BY <1>1, TypeCorrect, NoRefetchCorrect, PTL DEF Spec, EvictsOldestOnly
=============================================================================
