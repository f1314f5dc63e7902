--------------------------- MODULE EthDialProofs ---------------------------
(***************************************************************************)
(* Theorems about negotiation, fork identifiers and the dialler, for every *)
(* set of requests, peers and chains.                                      *)
(***************************************************************************)
EXTENDS EthDial, NaturalsInduction, WellFoundedInduction, TLAPS

(***************************************************************************)
(* Capability negotiation.                                                 *)
(***************************************************************************)

\* A set of supported ETH versions that is not empty has a highest one.
LEMMA HighestEth ==
  ASSUME NEW S \in SUBSET (68..72), S # {}
  PROVE  \E v \in S : \A w \in S : w <= v
<1>1. CASE 72 \in S
  BY <1>1
<1>2. CASE 72 \notin S /\ 71 \in S
  BY <1>2
<1>3. CASE 72 \notin S /\ 71 \notin S /\ 70 \in S
  BY <1>3
<1>4. CASE 72 \notin S /\ 71 \notin S /\ 70 \notin S /\ 69 \in S
  BY <1>4
<1>5. CASE 72 \notin S /\ 71 \notin S /\ 70 \notin S /\ 69 \notin S
  <2>1. \A x \in S : x = 68
    BY <1>5
  <2>2. PICK x \in S : TRUE
    OBVIOUS
  <2>3. x = 68 /\ \A w \in S : w <= x
    BY <2>1, <2>2
  <2> QED BY <2>2, <2>3
<1> QED BY <1>1, <1>2, <1>3, <1>4, <1>5

\* negotiatedCapabilities returns supported versions, and for each name the
\* highest one that both sides have.
THEOREM NegotiationHighest ==
  ASSUME NEW local, NEW remote
  PROVE  /\ negotiatedCapabilities(local, remote) \in Negotiations
         /\ \A n \in Names : \A v \in CommonVersions(local, remote, n) :
              /\ v <= negotiatedCapabilities(local, remote)[n]
              /\ negotiatedCapabilities(local, remote)[n] \in CommonVersions(local, remote, n)
<1> DEFINE common(n) == CommonVersions(local, remote, n)
           f == negotiatedCapabilities(local, remote)
<1>1. ASSUME NEW n \in Names, common(n) # {}
      PROVE  \E v \in common(n) : \A w \in common(n) : w <= v
  <2>1. common(n) \subseteq Versions[n]
    BY DEF CommonVersions
  <2>2. CASE n = "eth"
    BY <1>1, <2>1, <2>2, HighestEth DEF Versions
  <2>3. CASE n = "snap"
    <3>1. common(n) \subseteq 1..2
      BY <2>1, <2>3 DEF Versions
    <3> HIDE DEF common
    <3>2. CASE 2 \in common(n)
      BY <3>1, <3>2
    <3>3. CASE 2 \notin common(n)
      <4>1. common(n) = {1}
        BY <1>1, <3>1, <3>3
      <4> QED BY <4>1
    <3> QED BY <3>2, <3>3
  <2>4. CASE n = "wit"
    <3>1. common(n) \subseteq {1}
      BY <2>1, <2>4 DEF Versions
    <3> QED BY <1>1, <3>1
  <2> QED BY <2>2, <2>3, <2>4 DEF Names
<1>2. ASSUME NEW n \in Names, common(n) # {}
      PROVE  f[n] \in common(n) /\ \A w \in common(n) : w <= f[n]
  BY <1>1, <1>2 DEF negotiatedCapabilities
<1>3. ASSUME NEW n \in Names, common(n) = {}
      PROVE  f[n] = 0
  BY <1>3 DEF negotiatedCapabilities
<1>4. ASSUME NEW n \in Names
      PROVE  f[n] \in Versions[n] \cup {0}
  BY <1>2, <1>3 DEF CommonVersions
<1>5. ASSUME NEW n \in Names PROVE Versions[n] \cup {0} \subseteq Nat
  BY DEF Names, Versions
<1>6. f \in [Names -> Nat]
  <2>1. \A n \in Names : f[n] \in Nat
    BY <1>4, <1>5
  <2>2. f = [n \in Names |-> f[n]]
    BY DEF negotiatedCapabilities
  <2> HIDE DEF f
  <2> QED BY <2>1, <2>2
<1>7. f \in Negotiations
  BY <1>4, <1>6 DEF Negotiations
<1> QED BY <1>2, <1>7

\* Message spaces of a negotiation are disjoint and start behind the base
\* protocol; ETH starts at 16.
LEMMA SpacesOfNegotiation ==
  ASSUME NEW f \in Negotiations, f["eth"] # 0
  PROVE  /\ \A m, n \in Names : m # n => Space(f, m) \cap Space(f, n) = {}
         /\ \A n \in Names : Space(f, n) \cap 0..15 = {}
         /\ capabilityOffset(f, "eth") = 16
<1> DEFINE e == Span(f, "eth")
           s == Span(f, "snap")
<1>1. /\ f["eth"] \in 68..72
      /\ f["snap"] \in {0, 1, 2}
      /\ f["wit"] \in {0, 1}
  BY DEF Negotiations, Names, Versions
<1>2. e \in Nat /\ s \in Nat /\ Span(f, "wit") \in Nat
  BY <1>1 DEF Span, capabilityProtocolLength, ProtocolLength
<1>3. /\ capabilityOffset(f, "eth") = 16
      /\ f["snap"] # 0 => capabilityOffset(f, "snap") = 16 + e
      /\ f["wit"] # 0 => capabilityOffset(f, "wit") = 16 + e + s
  BY <1>1, <1>2 DEF capabilityOffset, baseProtocolLength, Before
<1>4. /\ f["snap"] = 0 => s = 0 /\ capabilityOffset(f, "snap") = 0
      /\ f["wit"] = 0 => Span(f, "wit") = 0 /\ capabilityOffset(f, "wit") = 0
  BY DEF Span, capabilityOffset
<1> HIDE DEF e, s
<1>5. \A x \in Space(f, "eth") : x >= 16 /\ x < 16 + e
  BY <1>2, <1>3 DEF Space, e
<1>6. \A x \in Space(f, "snap") : x >= 16 + e /\ x < 16 + e + s
  <2>1. CASE f["snap"] = 0
    BY <1>4, <2>1 DEF Space, s
  <2>2. CASE f["snap"] # 0
    BY <1>2, <1>3, <2>2 DEF Space, s
  <2> QED BY <2>1, <2>2
<1>7. \A x \in Space(f, "wit") : x >= 16 + e + s
  <2>1. CASE f["wit"] = 0
    BY <1>4, <2>1 DEF Space
  <2>2. CASE f["wit"] # 0
    BY <1>2, <1>3, <2>2 DEF Space
  <2> QED BY <2>1, <2>2
<1>8. \A n \in Names : Space(f, n) \subseteq Nat
  <2>1. \A n \in Names : capabilityOffset(f, n) \in Nat
    BY <1>2, <1>3, <1>4 DEF Names
  <2>2. ASSUME NEW n \in Names, NEW x \in Space(f, n) PROVE x \in Nat
    <3>1. PICK i \in 0..21 : x = capabilityOffset(f, n) + i
      BY <2>2 DEF Space
    <3> QED BY <2>1, <3>1
  <2> QED BY <2>2
<1>9. \A n \in Names : Space(f, n) \cap 0..15 = {}
  BY <1>2, <1>5, <1>6, <1>7, <1>8 DEF Names
<1>10. \A m, n \in Names : m # n => Space(f, m) \cap Space(f, n) = {}
  BY <1>2, <1>5, <1>6, <1>7, <1>8 DEF Names
<1> QED BY <1>3, <1>9, <1>10

(***************************************************************************)
(* Fork identifiers.                                                       *)
(***************************************************************************)

\* A set of naturals that is not empty has a least element.
LEMMA LeastNatural ==
  ASSUME NEW T, T \subseteq Nat, T # {}
  PROVE  \E x \in T : \A y \in T : x <= y
<1>1. PICK x \in T : \A y \in T : ~(<<y, x>> \in OpToRel(<, Nat))
  BY NatLessThanWellFounded, WFMin
<1>2. \A y \in T : ~(y < x)
  BY <1>1 DEF OpToRel
<1> QED BY <1>2

\* Length and elements of two schedules in a row.
LEMMA ConcatFacts ==
  ASSUME NEW S, NEW b \in Seq(S), NEW t \in Seq(S)
  PROVE  /\ Len(b) \in Nat /\ Len(t) \in Nat
         /\ Len(b \o t) = Len(b) + Len(t)
         /\ \A i \in 1..Len(b \o t) : (b \o t)[i] \in S
         /\ \A i \in 1..Len(b) : (b \o t)[i] = b[i]
<1>1. b \o t \in Seq(S)
  OBVIOUS
<1> QED BY <1>1

\* Forks(p) is the block forks and then the time forks.
LEMMA ForksOf ==
  ASSUME NEW p, IsChain(p)
  PROVE  /\ Len(Forks(p)) \in Nat
         /\ Len(p.blocks) \in Nat /\ Len(p.blocks) <= Len(Forks(p))
         /\ Len(p.times) \in Nat
         /\ Len(p.times) = 0 => Len(Forks(p)) = Len(p.blocks)
         /\ \A i \in 1..Len(Forks(p)) : Forks(p)[i] \in Nat \ {0}
         /\ \A i \in 1..Len(p.blocks) : Forks(p)[i] <= Threshold
<1> DEFINE F == Forks(p)
           b == p.blocks
           t == p.times
<1>1. /\ Len(b) \in Nat /\ Len(t) \in Nat
      /\ Len(F) = Len(b) + Len(t)
      /\ \A i \in 1..Len(F) : F[i] \in Nat \ {0}
      /\ \A i \in 1..Len(b) : F[i] = b[i]
  <2>1. b \in Seq(Nat \ {0}) /\ t \in Seq(Nat \ {0})
    BY DEF IsChain
  <2>2. F = b \o t
    BY DEF Forks
  <2> HIDE DEF F, b, t
  <2>3. /\ Len(b) \in Nat /\ Len(t) \in Nat
        /\ Len(b \o t) = Len(b) + Len(t)
        /\ \A i \in 1..Len(b \o t) : (b \o t)[i] \in Nat \ {0}
        /\ \A i \in 1..Len(b) : (b \o t)[i] = b[i]
    BY <2>1, ConcatFacts
  <2> QED BY <2>2, <2>3, Zenon
<1>2. \A i \in 1..Len(b) : b[i] <= Threshold
  BY DEF IsChain
<1> HIDE DEF F, b, t
<1>3. /\ Len(F) \in Nat /\ Len(b) <= Len(F)
      /\ Len(t) = 0 => Len(F) = Len(b)
      /\ \A i \in 1..Len(b) : F[i] <= Threshold
  BY <1>1, <1>2
<1> QED BY <1>1, <1>3, Zenon DEF F, b, t

\* The number of forks that computeForkID passes.
LEMMA PassedExists ==
  ASSUME NEW p, IsChain(p)
  PROVE  \E n \in 0..Len(Forks(p)) : IsPassed(p, n)
<1> DEFINE L == Len(Forks(p))
           T == {n \in 0..L : n < L => ~Reached(p, n + 1)}
<1>1. L \in Nat
  BY ForksOf
<1> HIDE DEF L
<1>2. L \in T /\ T \subseteq Nat
  BY <1>1
<1>3. PICK n \in T : \A m \in T : n <= m
  BY <1>2, LeastNatural
<1>4. ASSUME NEW i \in 1..n PROVE Reached(p, i)
  <2>1. i - 1 \in 0..L /\ i - 1 < L /\ i - 1 < n /\ (i - 1) + 1 = i
    BY <1>1, <1>3
  <2>2. i - 1 \notin T
    BY <1>1, <1>3, <2>1
  <2> QED BY <2>1, <2>2
<1>5. IsPassed(p, n)
  BY <1>3, <1>4 DEF IsPassed, L
<1> QED BY <1>3, <1>5 DEF L

\* What computeForkID returns, in terms of the number of forks passed.
LEMMA ForkIDOf ==
  ASSUME NEW p, IsChain(p)
  PROVE  \E n \in 0..Len(Forks(p)) :
           /\ IsPassed(p, n)
           /\ computeForkID(p).hash = Checksum(p, n)
           /\ computeForkID(p).next = IF n < Len(Forks(p)) THEN Forks(p)[n + 1] ELSE 0
<1>1. \E n \in 0..Len(Forks(p)) : IsPassed(p, n)
  BY PassedExists
<1> DEFINE n == CHOOSE m \in 0..Len(Forks(p)) : IsPassed(p, m)
<1>2. n \in 0..Len(Forks(p)) /\ IsPassed(p, n)
  BY <1>1
<1> QED BY <1>2 DEF computeForkID

\* The fork that ValidateForkID stops at is the one behind the passed ones.
LEMMA CurrentOf ==
  ASSUME NEW p, IsChain(p), NEW n \in 0..Len(Forks(p)), IsPassed(p, n)
  PROVE  IsCurrent(p, n + 1)
<1> DEFINE L == Len(Forks(p))
           B == Len(p.blocks)
<1>1. /\ L \in Nat /\ B \in Nat /\ B <= L
      /\ Len(p.times) = 0 => L = B
      /\ p.number \in Nat /\ p.time \in Nat /\ Sentinel \in Nat
      /\ p.number < Sentinel /\ p.time < Sentinel
      /\ \A i \in 1..L : Forks(p)[i] \in Nat
  BY ForksOf, ForkIdAssumption DEF IsChain
<1>2. ASSUME NEW i \in 1..L
      PROVE  Reached(p, i) <=> HeadFor(p, i) >= ForkAt(p, i)
  <2>1. ForkAt(p, i) = Forks(p)[i]
    BY <1>1 DEF ForkAt
  <2>2. HeadFor(p, i) = IF i <= B THEN p.number ELSE p.time
    <3> DEFINE T == Len(p.times)
    <3>1. blockForkCount(p) = B + (IF T = 0 THEN 1 ELSE 0)
      BY DEF blockForkCount
    <3> HIDE DEF L, B, T
    <3>2. /\ T = 0 => blockForkCount(p) = B + 1
          /\ T # 0 => blockForkCount(p) = B
      BY <1>1, <3>1
    <3>3. T = 0 => i <= B
      BY <1>1 DEF T
    <3> QED BY <1>1, <3>2, <3>3 DEF HeadFor
  <2> QED BY <1>1, <2>1, <2>2 DEF Reached
<1>3. HeadFor(p, n + 1) < ForkAt(p, n + 1)
  <2>1. CASE n < L
    <3>1. n + 1 \in 1..L /\ ~Reached(p, n + 1)
      BY <1>1, <2>1 DEF IsPassed
    <3>2. HeadFor(p, n + 1) \in Nat /\ ForkAt(p, n + 1) \in Nat
      BY <1>1, <3>1 DEF HeadFor, ForkAt
    <3> QED BY <1>2, <3>1, <3>2
  <2>2. CASE n = L
    <3>1. ForkAt(p, n + 1) = Sentinel
      BY <1>1, <2>2 DEF ForkAt
    <3> QED BY <1>1, <3>1 DEF HeadFor
  <2> QED BY <1>1, <2>1, <2>2
<1>4. \A j \in 1..n : HeadFor(p, j) >= ForkAt(p, j)
  BY <1>1, <1>2 DEF IsPassed
<1> QED BY <1>1, <1>3, <1>4 DEF IsCurrent

\* EIP-2124 between honest nodes: whatever the fork schedule, a peer that has
\* the same one is accepted by ValidateForkID, wherever both heads are.  With
\* q = p: a node accepts its own identifier.
THEOREM SameScheduleCompatible ==
  ASSUME NEW p, NEW q, IsChain(p), IsChain(q),
         p.genesis = q.genesis, p.blocks = q.blocks, p.times = q.times
  PROVE  ValidateForkID(p, computeForkID(q))
<1> DEFINE L == Len(Forks(p))
           remote == computeForkID(q)
<1>1. Forks(q) = Forks(p) /\ \A i : Checksum(q, i) = Checksum(p, i)
  BY DEF Forks, Checksum
<1>2. PICK m \in 0..L :
        /\ IsPassed(q, m)
        /\ remote.hash = Checksum(p, m)
        /\ remote.next = IF m < L THEN Forks(p)[m + 1] ELSE 0
  BY <1>1, ForkIDOf
<1>3. PICK n \in 0..L : IsPassed(p, n)
  BY PassedExists
<1>4. IsCurrent(p, n + 1)
  BY <1>3, CurrentOf
<1>5. /\ L \in Nat
      /\ \A i \in 1..L : Forks(p)[i] \in Nat \ {0}
      /\ \A i \in 1..Len(p.blocks) : Forks(p)[i] <= Threshold
      /\ Len(p.blocks) \in Nat
      /\ p.number \in Nat /\ p.time \in Nat /\ Threshold \in Nat
  BY ForksOf, ForkIdAssumption DEF IsChain
<1> HIDE DEF L, remote
<1>6. n + 1 \in 1..(L + 1) /\ (n + 1) - 1 = n
  BY <1>5
<1>7. CASE m = n
  <2>1. ~Stale(p, n + 1, remote)
    <3>1. CASE n = L
      BY <1>2, <1>5, <1>7, <3>1 DEF Stale
    <3>2. CASE n < L
      <4>1. remote.next = Forks(p)[n + 1] /\ n + 1 \in 1..L
        BY <1>2, <1>5, <1>7, <3>2
      <4>2. HeadFor(p, n + 1) < remote.next
        <5>1. ForkAt(p, n + 1) = remote.next
          BY <4>1 DEF ForkAt, L
        <5> QED BY <1>4, <5>1 DEF IsCurrent
      <4>3. ~(remote.next > Threshold /\ p.time >= remote.next)
        <5>1. CASE n + 1 <= Len(p.blocks)
          BY <1>5, <4>1, <5>1
        <5>2. CASE n + 1 > Len(p.blocks)
          <6>1. ~Reached(p, n + 1)
            BY <1>3, <3>2 DEF IsPassed, L
          <6> QED BY <1>5, <4>1, <5>2, <6>1 DEF Reached
        <5> QED BY <1>5, <4>1, <5>1, <5>2
      <4>4. HeadFor(p, n + 1) \in Nat
        BY <1>5 DEF HeadFor
      <4> QED BY <1>5, <4>1, <4>2, <4>3, <4>4 DEF Stale
    <3> QED BY <1>5, <3>1, <3>2
  <2> QED BY <1>2, <1>4, <1>6, <1>7, <2>1 DEF ValidateForkID, L, remote
<1>8. CASE m < n
  <2>1. /\ m + 1 \in 1..((n + 1) - 1)
        /\ (m + 1) - 1 = m
        /\ m + 1 \in 1..L
        /\ m < L
    BY <1>5, <1>8
  <2>2. ForkAt(p, m + 1) = remote.next
    BY <1>2, <1>5, <2>1 DEF ForkAt, L
  <2> QED BY <1>2, <1>4, <1>6, <2>1, <2>2 DEF ValidateForkID, L, remote
<1>9. CASE m > n
  <2>1. m + 1 \in ((n + 1) + 1)..(L + 1) /\ (m + 1) - 1 = m
    BY <1>5, <1>9
  <2> QED BY <1>2, <1>4, <1>6, <2>1 DEF ValidateForkID, L, remote
<1> QED BY <1>5, <1>7, <1>8, <1>9

\* Two sequences that differ in nothing behind a first element are equal.
LEMMA ConsEqual ==
  ASSUME NEW S, NEW g \in S, NEW h \in S, NEW s \in Seq(S), NEW t \in Seq(S),
         <<g>> \o s = <<h>> \o t
  PROVE  g = h /\ s = t
<1> DEFINE u == <<g>> \o s
           v == <<h>> \o t
<1>1. /\ Len(u) = 1 + Len(s) /\ Len(v) = 1 + Len(t)
      /\ Len(s) \in Nat /\ Len(t) \in Nat
  OBVIOUS
<1>2. u[1] = g /\ v[1] = h
  OBVIOUS
<1>3. /\ \A i \in 1..Len(s) : u[i + 1] = s[i]
      /\ \A i \in 1..Len(t) : v[i + 1] = t[i]
  OBVIOUS
<1>4. u = v
  OBVIOUS
<1> HIDE DEF u, v
<1>5. Len(s) = Len(t)
  BY <1>1, <1>4
<1>6. \A i \in 1..Len(s) : s[i] = t[i]
  BY <1>3, <1>4, <1>5
<1>7. s = t
  BY <1>5, <1>6
<1> QED BY <1>2, <1>4, <1>7

\* Equal checksums are taken over the same genesis and the same forks.
LEMMA ChecksumEqual ==
  ASSUME NEW p, NEW q, IsChain(p), IsChain(q),
         NEW i \in 0..Len(Forks(p)), NEW n \in 0..Len(Forks(q)),
         Checksum(p, i) = Checksum(q, n)
  PROVE  /\ i = n /\ p.genesis = q.genesis
         /\ SubSeq(Forks(q), 1, n) = SubSeq(Forks(p), 1, n)
<1> DEFINE S == Nat \cup {p.genesis, q.genesis}
           g == p.genesis
           h == q.genesis
           s == SubSeq(Forks(p), 1, i)
           t == SubSeq(Forks(q), 1, n)
<1>1. Forks(p) \in Seq(S) /\ Forks(q) \in Seq(S)
  BY DEF Forks, IsChain
<1>2. s \in Seq(S) /\ t \in Seq(S) /\ Len(s) = i /\ Len(t) = n
  BY <1>1
<1>3. <<g>> \o s = <<h>> \o t
  BY DEF Checksum
<1>4. g \in S /\ h \in S
  OBVIOUS
<1> HIDE DEF g, h, s, t, S
<1>5. g = h /\ s = t
  BY <1>2, <1>3, <1>4, ConsEqual
<1>6. i = n
  BY <1>2, <1>5
<1> QED BY <1>5, <1>6 DEF g, h, s, t

\* A list of forks has one first fork that the head has not reached.
LEMMA CurrentUnique ==
  ASSUME NEW p, IsChain(p), NEW i, NEW j, IsCurrent(p, i), IsCurrent(p, j)
  PROVE  i = j
<1>1. /\ Len(Forks(p)) \in Nat /\ i \in Nat /\ j \in Nat /\ 1 <= i /\ 1 <= j
      /\ \A k \in Nat \ {0} : HeadFor(p, k) \in Nat /\ ForkAt(p, k) \in Nat
  BY ForksOf, ForkIdAssumption DEF IsCurrent, HeadFor, ForkAt, IsChain
<1>2. ASSUME NEW k \in Nat \ {0}, NEW l \in Nat, IsCurrent(p, k), IsCurrent(p, l)
      PROVE  ~(k < l)
  <2>1. HeadFor(p, k) < ForkAt(p, k) /\ ~(HeadFor(p, k) >= ForkAt(p, k))
    BY <1>1, <1>2 DEF IsCurrent
  <2>2. \A x \in 1..(l - 1) : HeadFor(p, x) >= ForkAt(p, x)
    BY <1>2 DEF IsCurrent
  <2>3. k < l => k \in 1..(l - 1)
    OBVIOUS
  <2> QED BY <2>1, <2>2, <2>3
<1>3. ~(i < j) /\ ~(j < i)
  BY <1>1, <1>2
<1> QED BY <1>1, <1>3

\* EIP-2124 judged by the chains: whoever ValidateForkID accepts has our
\* genesis, its past is the beginning of our schedule, a peer that is behind us
\* announces the fork we passed next, and a peer that is level with us does not
\* announce a time fork that our head has passed.
THEOREM AcceptedSharesHistory ==
  ASSUME NEW p, NEW q, IsChain(p), IsChain(q), ValidateForkID(p, computeForkID(q))
  PROVE  \E n \in 0..Len(Forks(q)), m \in 0..Len(Forks(p)) :
           /\ IsPassed(q, n) /\ IsPassed(p, m)
           /\ q.genesis = p.genesis
           /\ n <= Len(Forks(p))
           /\ SubSeq(Forks(q), 1, n) = SubSeq(Forks(p), 1, n)
           /\ n < m => n < Len(Forks(q)) /\ Forks(q)[n + 1] = Forks(p)[n + 1]
           /\ n = m /\ n < Len(Forks(q)) /\ Forks(q)[n + 1] > Threshold
                => p.time < Forks(q)[n + 1]
<1> DEFINE L == Len(Forks(p))
           K == Len(Forks(q))
           remote == computeForkID(q)
<1>1. PICK n \in 0..K : /\ IsPassed(q, n)
                        /\ remote.hash = Checksum(q, n)
                        /\ remote.next = IF n < K THEN Forks(q)[n + 1] ELSE 0
  BY ForkIDOf
<1>2. PICK m \in 0..L : IsPassed(p, m)
  BY PassedExists
<1>3. PICK i \in 1..(L + 1) :
        /\ IsCurrent(p, i)
        /\ \/ Checksum(p, i - 1) = remote.hash /\ ~Stale(p, i, remote)
           \/ \E j \in 1..(i - 1) :
                Checksum(p, j - 1) = remote.hash /\ ForkAt(p, j) = remote.next
           \/ \E j \in (i + 1)..(L + 1) : Checksum(p, j - 1) = remote.hash
  BY DEF ValidateForkID
<1>4. /\ L \in Nat /\ K \in Nat /\ Threshold \in Nat
      /\ \A k \in 1..L : Forks(p)[k] \in Nat \ {0}
      /\ \A k \in 1..K : Forks(q)[k] \in Nat \ {0}
      /\ p.time \in Nat
  BY ForksOf, ForkIdAssumption DEF IsChain
<1>5. i = m + 1
  BY <1>2, <1>3, CurrentOf, CurrentUnique
<1> DEFINE Same == /\ q.genesis = p.genesis
                   /\ n <= L
                   /\ SubSeq(Forks(q), 1, n) = SubSeq(Forks(p), 1, n)
           Behind == n < m => n < K /\ Forks(q)[n + 1] = Forks(p)[n + 1]
           Level == n = m /\ n < K /\ Forks(q)[n + 1] > Threshold
                      => p.time < Forks(q)[n + 1]
<1> HIDE DEF L, K, remote
<1>6. ASSUME NEW k \in 0..L, Checksum(p, k) = remote.hash PROVE k = n /\ Same
  BY <1>1, <1>4, <1>6, ChecksumEqual DEF L, K
<1> HIDE DEF Same
<1>7. CASE Checksum(p, i - 1) = remote.hash /\ ~Stale(p, i, remote)
  <2>1. i - 1 = m /\ m = n /\ Same
    BY <1>2, <1>4, <1>5, <1>6, <1>7
  <2>2. Level
    <3>1. SUFFICES ASSUME n < K, Forks(q)[n + 1] > Threshold PROVE p.time < Forks(q)[n + 1]
      OBVIOUS
    <3>2. remote.next = Forks(q)[n + 1] /\ Forks(q)[n + 1] \in Nat \ {0}
      BY <1>1, <1>4, <3>1
    <3>3. remote.next > 0
      BY <3>2
    <3>4. ~(p.time >= remote.next)
      BY <1>7, <3>1, <3>2, <3>3 DEF Stale
    <3> QED BY <1>4, <3>2, <3>4
  <2>3. Behind
    BY <1>2, <2>1
  <2> QED BY <1>1, <1>2, <2>1, <2>2, <2>3 DEF Same, L, K
<1>8. CASE \E j \in 1..(i - 1) : Checksum(p, j - 1) = remote.hash /\ ForkAt(p, j) = remote.next
  <2>1. PICK j \in 1..(i - 1) : Checksum(p, j - 1) = remote.hash /\ ForkAt(p, j) = remote.next
    BY <1>8
  <2>2. j \in 1..m /\ j \in 1..L /\ j - 1 \in 0..L
    BY <1>2, <1>4, <1>5
  <2>3. j - 1 = n /\ Same
    BY <1>6, <2>1, <2>2
  <2>4. j = n + 1 /\ n < m
    BY <1>1, <1>2, <1>4, <2>2, <2>3
  <2>5. remote.next = Forks(p)[n + 1] /\ remote.next # 0
    BY <1>4, <2>1, <2>2, <2>4 DEF ForkAt, L
  <2>6. Behind
    BY <1>1, <2>5
  <2>7. Level
    BY <1>1, <1>2, <1>4, <2>4
  <2> QED BY <1>1, <1>2, <2>3, <2>6, <2>7 DEF Same, L, K
<1>9. CASE \E j \in (i + 1)..(L + 1) : Checksum(p, j - 1) = remote.hash
  <2>1. PICK j \in (i + 1)..(L + 1) : Checksum(p, j - 1) = remote.hash
    BY <1>9
  <2>2. j - 1 \in 0..L /\ j - 1 > m
    BY <1>2, <1>4, <1>5
  <2>3. j - 1 = n /\ Same
    BY <1>6, <2>1, <2>2
  <2>4. ~(n < m) /\ n # m
    BY <1>2, <1>4, <2>2, <2>3
  <2> QED BY <1>1, <1>2, <2>3, <2>4 DEF Same, L, K
<1> QED BY <1>3, <1>7, <1>8, <1>9

(***************************************************************************)
(* The dialler.                                                            *)
(***************************************************************************)

\* Before the Status sender of an attempt exists, and while a socket is open.
Early == {"Start", "Connect", "Auth", "WriteHello", "ReadHello"}
Connected == {"Auth", "WriteHello", "ReadHello", "WriteStatus", "ReadStatus",
              "AwaitSend", "PreStatus", "Live"}
AfterHello == {"WriteStatus", "ReadStatus", "AwaitSend", "PreStatus", "Live"}

\* TypeOK in every reachable state of the dialler.
LEMMA InitType == Init => TypeOK
<1>1. [n \in Names |-> 0] \in Negotiations
  BY DEF Negotiations
<1>2. 0 \in 0..MaxPings /\ 1 \in Attempts
  BY DialAssumption DEF Attempts
<1> SUFFICES ASSUME Init PROVE TypeOK
  OBVIOUS
<1>3. negotiated \in Negotiations
  BY <1>1 DEF Init
<1>4. /\ fd \in [Attempts -> {"None", "Open", "Closed"}]
      /\ peerEnd \in [Attempts -> {"Up", "Gone"}]
      /\ sender \in [Attempts -> {"None", "Write", "PutNil", "PutErr", "Done"}]
      /\ sendErr \in [Attempts -> {"Empty", "Nil", "Err"}]
  BY DEF Init
<1>5. wrote \subseteq Attempts /\ attempt \in Attempts /\ pings \in 0..MaxPings
  BY <1>2 DEF Init
<1>6. /\ request \in Requests /\ params \in Chains /\ pc = "Start" /\ cause = "None"
      /\ deadline \in BOOLEAN /\ peer = NoPeer
  BY DEF Init
<1> QED BY <1>3, <1>4, <1>5, <1>6 DEF TypeOK

\* Every step of the dialler, its senders and the peer keeps the types.
LEMMA NextType == TypeOK /\ [Next]_vars => TypeOK'
<1> SUFFICES ASSUME TypeOK, [Next]_vars PROVE TypeOK'
  OBVIOUS
<1> USE DEF TypeOK, callVars, senderVars
<1>1. ASSUME NEW why \in {"Deadline", "Config", "Params", "Connect", "Auth", "Write",
                          "Hello", "Caps", "Status", "ForkID", "SendError"},
             NEW fid, Fail(why, fid),
             UNCHANGED <<callVars, peerEnd, negotiated, senderVars, pings>>,
             peer' \in Peers \cup {NoPeer}
      PROVE  TypeOK'
  <2>1. /\ attempt' \in Attempts
        /\ pc' \in {"Connect", "Failed"}
    BY <1>1 DEF Fail, retries, Attempts
  <2>2. fd' \in [Attempts -> {"None", "Open", "Closed"}]
    BY <1>1 DEF Fail, closeOnError
  <2>3. deadline' \in BOOLEAN /\ cause' = why
    BY <1>1 DEF Fail
  <2> QED BY <1>1, <2>1, <2>2, <2>3
<1>2. ASSUME NEW step, NEW fid,
             NEW why \in {"Deadline", "Config", "Params", "Connect", "Auth", "Write",
                          "Hello", "Caps", "Status", "ForkID", "SendError"},
             Refuse(step, why, fid)
      PROVE  TypeOK'
  BY <1>1, <1>2 DEF Refuse
<1>3. CASE Start \/ Connect \/ Auth \/ WriteHello
  BY <1>3 DEF Start, Connect, Auth, WriteHello
<1>4. CASE StartFails
  BY <1>2, <1>4 DEF StartFails
<1>5. CASE ConnectFails \/ AuthFails \/ WriteHelloFails \/ HelloRefused
           \/ WriteStatusFails \/ StatusRefused
  BY <1>2, <1>5 DEF ConnectFails, AuthFails, WriteHelloFails, HelloRefused,
                    WriteStatusFails, StatusRefused
<1>6. CASE AwaitSendFails \/ DeadlineExpires
  BY <1>2, <1>6 DEF AwaitSendFails, DeadlineExpires
<1>7. ASSUME NEW remote \in PeerCaps, HelloUnsuitable(remote) PROVE TypeOK'
  BY <1>2, <1>7 DEF HelloUnsuitable
<1>8. ASSUME NEW remote \in PeerCaps, HelloAccepted(remote) PROVE TypeOK'
  <2>1. negotiated' \in Negotiations
    BY <1>8, NegotiationHighest DEF HelloAccepted
  <2>2. pc' \in {"ReadStatus", "PreStatus", "WriteStatus"}
    BY <1>8, Zenon DEF HelloAccepted
  <2>3. /\ UNCHANGED <<callVars, attempt, fd, peerEnd, sendErr, wrote, peer, pings, cause>>
        /\ deadline' \in BOOLEAN
        /\ sender' \in [Attempts -> {"None", "Write", "PutNil", "PutErr", "Done"}]
    <3>1. \/ sender' = sender
          \/ sender' = [sender EXCEPT ![attempt] = "Write"]
      BY <1>8, Zenon DEF HelloAccepted
    <3>2. UNCHANGED <<callVars, attempt, fd, peerEnd, sendErr, wrote, peer, pings, cause>>
      BY <1>8 DEF HelloAccepted
    <3>3. deadline' \in BOOLEAN
      BY <1>8, Zenon DEF HelloAccepted
    <3> QED BY <3>1, <3>2, <3>3
  <2> QED BY <2>1, <2>2, <2>3
<1>9. CASE WriteStatus \/ AwaitSend
  BY <1>9 DEF WriteStatus, AwaitSend
<1>14. CASE StatusPing
  <2>1. pings' \in 0..MaxPings
    BY <1>14, DialAssumption DEF StatusPing
  <2> QED BY <1>14, <2>1 DEF StatusPing
<1>10. ASSUME NEW q \in Peers, StatusForkRejected(q) PROVE TypeOK'
  BY <1>1, <1>10 DEF StatusForkRejected
<1>11. ASSUME NEW q \in Peers, StatusAccepted(q) PROVE TypeOK'
  BY <1>11 DEF StatusAccepted
<1>12. ASSUME NEW a \in Attempts, Sender(a) \/ PeerGone(a) PROVE TypeOK'
  BY <1>12 DEF Sender, SenderWrites, SenderFails, SenderPuts, PeerGone
<1>13. CASE UNCHANGED vars
  BY <1>13 DEF vars
<1> QED BY <1>3, <1>4, <1>5, <1>6, <1>7, <1>8, <1>9, <1>10, <1>11, <1>12, <1>13, <1>14
       DEF Next

\* Type correctness of the dialler: in particular there are never more than two
\* attempts, and what was negotiated is supported.
THEOREM TypeCorrect == Spec => []TypeOK
BY InitType, NextType, PTL DEF Spec

(***************************************************************************)
(* Sockets.  The inductive invariant says where the dialler is when the    *)
(* socket of the attempt is open; every error path is a Fail step.         *)
(***************************************************************************)

\* The strengthening of SocketsOwned.
SocketInv ==
  /\ pc \in Connected <=> fd[attempt] = "Open"
  /\ \A a \in Attempts : a # attempt => fd[a] # "Open"

\* Every step keeps SocketInv; all failures do so for the same reason.
LEMMA NextSockets == TypeOK /\ SocketInv /\ [Next]_vars => SocketInv'
<1> SUFFICES ASSUME TypeOK, SocketInv, [Next]_vars PROVE SocketInv'
  OBVIOUS
<1>0. /\ attempt \in Attempts /\ fd \in [Attempts -> {"None", "Open", "Closed"}]
      /\ pc \in {"Start", "Connect", "Auth", "WriteHello", "ReadHello", "WriteStatus",
                 "ReadStatus", "AwaitSend", "PreStatus", "Live", "Failed"}
  BY DEF TypeOK
<1>1. ASSUME NEW why, NEW fid, Fail(why, fid) PROVE SocketInv'
  <2>1. fd'[attempt] # "Open" /\ \A a \in Attempts : a # attempt => fd'[a] = fd[a]
    BY <1>0, <1>1 DEF Fail, closeOnError
  <2>2. \A a \in Attempts : fd'[a] # "Open"
    BY <2>1 DEF SocketInv
  <2>3. attempt' \in Attempts /\ pc' \notin Connected
    BY <1>0, <1>1 DEF Fail, retries, Attempts, Connected
  <2> QED BY <2>2, <2>3 DEF SocketInv
<1>2. ASSUME NEW step, NEW why, NEW fid, Refuse(step, why, fid) PROVE SocketInv'
  BY <1>1, <1>2 DEF Refuse
<1>3. CASE StartFails \/ ConnectFails \/ AuthFails \/ WriteHelloFails \/ HelloRefused
           \/ WriteStatusFails \/ StatusRefused \/ AwaitSendFails \/ DeadlineExpires
  BY <1>2, <1>3 DEF StartFails, ConnectFails, AuthFails, WriteHelloFails, HelloRefused,
                    WriteStatusFails, StatusRefused, AwaitSendFails, DeadlineExpires
<1>4. ASSUME NEW remote \in PeerCaps, HelloUnsuitable(remote) PROVE SocketInv'
  BY <1>2, <1>4 DEF HelloUnsuitable
<1>5. ASSUME NEW q \in Peers, StatusForkRejected(q) PROVE SocketInv'
  BY <1>1, <1>5 DEF StatusForkRejected
<1>6. CASE Connect
  BY <1>0, <1>6 DEF Connect, SocketInv, Connected
<1>7. CASE Start \/ Auth \/ WriteHello \/ WriteStatus \/ StatusPing \/ AwaitSend
  BY <1>0, <1>7 DEF Start, Auth, WriteHello, WriteStatus, StatusPing, AwaitSend,
                    SocketInv, Connected
<1>8. ASSUME NEW remote \in PeerCaps, HelloAccepted(remote) PROVE SocketInv'
  <2>1. pc = "ReadHello" /\ pc' \in {"ReadStatus", "PreStatus", "WriteStatus"}
    BY <1>8, Zenon DEF HelloAccepted
  <2>2. UNCHANGED <<attempt, fd>>
    BY <1>8 DEF HelloAccepted
  <2> QED BY <2>1, <2>2 DEF SocketInv, Connected
<1>9. ASSUME NEW q \in Peers, StatusAccepted(q) PROVE SocketInv'
  BY <1>9 DEF StatusAccepted, SocketInv, Connected
<1>10. ASSUME NEW a \in Attempts, Sender(a) \/ PeerGone(a) PROVE SocketInv'
  BY <1>10 DEF Sender, SenderWrites, SenderFails, SenderPuts, PeerGone, SocketInv
<1>11. CASE UNCHANGED vars
  BY <1>11 DEF vars, SocketInv
<1> QED BY <1>3, <1>4, <1>5, <1>6, <1>7, <1>8, <1>9, <1>10, <1>11 DEF Next

\* No dial leaks a socket: none is open after a failure, and the first one is
\* closed before the second attempt, on every path out of rawDial.
THEOREM SocketsOwnedCorrect == Spec => []SocketsOwned
<1>1. Init => SocketInv
  BY DEF Init, SocketInv, Connected, Attempts
<1>2. TypeOK /\ SocketInv => SocketsOwned
  BY DEF TypeOK, SocketInv, SocketsOwned, Connected
<1> QED BY <1>1, <1>2, TypeCorrect, NextSockets, PTL DEF Spec

(***************************************************************************)
(* Readiness.  A result in the sender's channel means the Status went out, *)
(* and an attempt finds its own channel empty.                             *)
(***************************************************************************)

\* The strengthening of LiveIsReady.
ReadyInv ==
  /\ \A a \in Attempts :
       /\ sender[a] = "PutNil" => a \in wrote
       /\ sendErr[a] # "Empty" => sender[a] = "Done"
       /\ sendErr[a] = "Nil" => a \in wrote
       /\ attempt < a => sender[a] = "None" /\ sendErr[a] = "Empty"
  /\ pc \in Early => sender[attempt] = "None" /\ sendErr[attempt] = "Empty"
  /\ pc = "AwaitSend" => request.mode = "Dial"
  /\ pc = "ReadStatus" /\ request.mode # "Dial" => attempt \in wrote
  /\ pc \in {"AwaitSend", "Live"} => peer # NoPeer
  /\ pc \in {"AwaitSend", "Live", "PreStatus"} => ~deadline
  /\ pc = "Live" => attempt \in wrote
  /\ pc = "Live" /\ request.mode = "Dial" => sender[attempt] = "Done"

\* Every step keeps ReadyInv.
LEMMA NextReady == TypeOK /\ ReadyInv /\ [Next]_vars => ReadyInv'
<1> SUFFICES ASSUME TypeOK, ReadyInv, [Next]_vars PROVE ReadyInv'
  OBVIOUS
<1>0. /\ attempt \in Attempts
      /\ sender \in [Attempts -> {"None", "Write", "PutNil", "PutErr", "Done"}]
      /\ sendErr \in [Attempts -> {"Empty", "Nil", "Err"}]
      /\ Attempts \subseteq Nat
      /\ NoPeer \notin Peers
  BY DialAssumption DEF TypeOK, Attempts
<1>1. ASSUME NEW why, NEW fid, Fail(why, fid), UNCHANGED <<request, senderVars>>
      PROVE  ReadyInv'
  <2>1. CASE pc' = "Failed" /\ attempt' = attempt
    BY <1>1, <2>1 DEF ReadyInv, Early, senderVars
  <2>2. CASE pc' = "Connect" /\ attempt = 1 /\ attempt' = 2
    BY <1>1, <2>2 DEF ReadyInv, Early, senderVars, Attempts
  <2> QED BY <1>1, <2>1, <2>2 DEF Fail, retries
<1>2. ASSUME NEW step, NEW why, NEW fid, Refuse(step, why, fid) PROVE ReadyInv'
  BY <1>1, <1>2 DEF Refuse, callVars
<1>3. CASE StartFails \/ ConnectFails \/ AuthFails \/ WriteHelloFails \/ HelloRefused
           \/ WriteStatusFails \/ StatusRefused \/ AwaitSendFails \/ DeadlineExpires
  BY <1>2, <1>3 DEF StartFails, ConnectFails, AuthFails, WriteHelloFails, HelloRefused,
                    WriteStatusFails, StatusRefused, AwaitSendFails, DeadlineExpires
<1>4. ASSUME NEW remote \in PeerCaps, HelloUnsuitable(remote) PROVE ReadyInv'
  BY <1>2, <1>4 DEF HelloUnsuitable
<1>5. ASSUME NEW q \in Peers, StatusForkRejected(q) PROVE ReadyInv'
  BY <1>1, <1>5 DEF StatusForkRejected, callVars
<1>6. CASE Start \/ Connect \/ Auth \/ WriteHello \/ StatusPing
  BY <1>6 DEF Start, Connect, Auth, WriteHello, StatusPing, ReadyInv, Early, callVars,
              senderVars
<1>7. CASE WriteStatus
  BY <1>7 DEF WriteStatus, ReadyInv, Early, callVars
<1>8. CASE AwaitSend
  BY <1>0, <1>8 DEF AwaitSend, ReadyInv, Early, callVars, senderVars
<1>9. ASSUME NEW remote \in PeerCaps, HelloAccepted(remote) PROVE ReadyInv'
  <2>1. /\ pc = "ReadHello"
        /\ \/ /\ request.mode = "Dial" /\ pc' = "ReadStatus"
              /\ sender' = [sender EXCEPT ![attempt] = "Write"]
           \/ /\ request.mode # "Dial" /\ pc' \in {"PreStatus", "WriteStatus"}
              /\ ~deadline' /\ sender' = sender
    BY <1>9, Zenon DEF HelloAccepted
  <2>2. UNCHANGED <<request, attempt, sendErr, wrote, peer>>
    BY <1>9 DEF HelloAccepted, callVars
  <2> QED BY <1>0, <2>1, <2>2 DEF ReadyInv, Early
<1>10. ASSUME NEW q \in Peers, StatusAccepted(q) PROVE ReadyInv'
  BY <1>0, <1>10 DEF StatusAccepted, ReadyInv, Early, callVars, senderVars
<1>11. ASSUME NEW a \in Attempts, SenderWrites(a) \/ SenderFails(a) PROVE ReadyInv'
  BY <1>0, <1>11 DEF SenderWrites, SenderFails, ReadyInv, Early, callVars
<1>12. ASSUME NEW a \in Attempts, SenderPuts(a) PROVE ReadyInv'
  BY <1>0, <1>12 DEF SenderPuts, ReadyInv, Early, callVars
<1>13. ASSUME NEW a \in Attempts, PeerGone(a) PROVE ReadyInv'
  BY <1>13 DEF PeerGone, ReadyInv, Early, callVars, senderVars
<1>14. CASE UNCHANGED vars
  BY <1>14 DEF vars, ReadyInv
<1> QED BY <1>3, <1>4, <1>5, <1>6, <1>7, <1>8, <1>9, <1>10, <1>11, <1>12, <1>13, <1>14
        DEF Next, Sender

\* A connection is handed out without a deadline, with both Statuses exchanged
\* on the socket it keeps, and with its sender goroutine through, although the
\* sender of a failed first attempt may still be running.
THEOREM LiveIsReadyCorrect == Spec => []LiveIsReady
<1>1. Init => ReadyInv
  BY DEF Init, ReadyInv, Early, Attempts
<1>2. ReadyInv => LiveIsReady
  BY DEF ReadyInv, LiveIsReady
<1> QED BY <1>1, <1>2, TypeCorrect, NextReady, PTL DEF Spec

(***************************************************************************)
(* What a live connection rests on: what was negotiated and who the peer   *)
(* is do not change once they have been checked.                           *)
(***************************************************************************)

\* The strengthening of SharedHistory and SpacesDisjoint.
AgreedInv ==
  /\ pc \in {"AwaitSend", "Live"} => ValidateForkID(params, computeForkID(peer))
  /\ pc \in AfterHello => negotiated["eth"] # 0
  /\ pc \in AfterHello /\ request.mode = "Wit" =>
       negotiated["snap"] = 0 /\ negotiated["wit"] = 1

\* With wit.Dial's capabilities, SNAP is not negotiated and WIT is.
LEMMA WitNegotiation ==
  ASSUME NEW remote, [name |-> "wit", version |-> 1] \in remote
  PROVE  LET f == negotiatedCapabilities(witCapabilities, remote) IN
         f["snap"] = 0 /\ f["wit"] = 1
<1> DEFINE f == negotiatedCapabilities(witCapabilities, remote)
<1>1. "snap" \in Names /\ "wit" \in Names
  BY DEF Names
<1>2. CommonVersions(witCapabilities, remote, "snap") = {}
  BY DEF CommonVersions, witCapabilities, Cap
<1>3. f["snap"] = 0
  BY <1>1, <1>2 DEF negotiatedCapabilities
<1>4. 1 \in CommonVersions(witCapabilities, remote, "wit")
  BY DEF CommonVersions, witCapabilities, Cap, Versions
<1>5. f["wit"] \in CommonVersions(witCapabilities, remote, "wit")
  BY <1>1, <1>4, NegotiationHighest
<1>6. f["wit"] = 1
  BY <1>5 DEF CommonVersions, Versions
<1> QED BY <1>3, <1>6

\* Every step keeps AgreedInv.
LEMMA NextAgreed == AgreedInv /\ [Next]_vars => AgreedInv'
<1> SUFFICES ASSUME AgreedInv, [Next]_vars PROVE AgreedInv'
  OBVIOUS
<1> USE DEF AgreedInv, AfterHello
<1>1. ASSUME NEW why, NEW fid, Fail(why, fid) PROVE AgreedInv'
  BY <1>1 DEF Fail
<1>2. ASSUME NEW step, NEW why, NEW fid, Refuse(step, why, fid) PROVE AgreedInv'
  BY <1>1, <1>2 DEF Refuse
<1>3. CASE StartFails \/ ConnectFails \/ AuthFails \/ WriteHelloFails \/ HelloRefused
           \/ WriteStatusFails \/ StatusRefused \/ AwaitSendFails \/ DeadlineExpires
  BY <1>2, <1>3 DEF StartFails, ConnectFails, AuthFails, WriteHelloFails, HelloRefused,
                    WriteStatusFails, StatusRefused, AwaitSendFails, DeadlineExpires
<1>4. ASSUME NEW remote \in PeerCaps, HelloUnsuitable(remote) PROVE AgreedInv'
  BY <1>2, <1>4 DEF HelloUnsuitable
<1>5. ASSUME NEW q \in Peers, StatusForkRejected(q) PROVE AgreedInv'
  BY <1>1, <1>5 DEF StatusForkRejected
<1>6. CASE Start \/ Connect \/ Auth \/ WriteHello \/ WriteStatus \/ StatusPing \/ AwaitSend
  BY <1>6 DEF Start, Connect, Auth, WriteHello, WriteStatus, StatusPing, AwaitSend,
              callVars
<1>7. ASSUME NEW remote \in PeerCaps, HelloAccepted(remote) PROVE AgreedInv'
  <2>1. /\ negotiated' = negotiatedCapabilities(Offered, remote)
        /\ Suits(remote, negotiatedCapabilities(Offered, remote))
        /\ request' = request
    BY <1>7 DEF HelloAccepted, callVars
  <2>2. pc' \in {"ReadStatus", "PreStatus", "WriteStatus"}
    BY <1>7, Zenon DEF HelloAccepted
  <2>3. negotiated'["eth"] # 0
    BY <2>1 DEF Suits
  <2>4. ASSUME request.mode = "Wit"
        PROVE  negotiated'["snap"] = 0 /\ negotiated'["wit"] = 1
    <3>1. Offered = witCapabilities
      BY <2>4, Zenon DEF Offered
    <3>2. [name |-> "wit", version |-> 1] \in remote
      BY <2>1, <2>4 DEF Suits
    <3> QED BY <2>1, <3>1, <3>2, WitNegotiation
  <2> QED BY <2>1, <2>2, <2>3, <2>4
<1>8. ASSUME NEW q \in Peers, StatusAccepted(q) PROVE AgreedInv'
  BY <1>8 DEF StatusAccepted, validateStatus, callVars
<1>9. ASSUME NEW a \in Attempts, Sender(a) \/ PeerGone(a) PROVE AgreedInv'
  BY <1>9 DEF Sender, SenderWrites, SenderFails, SenderPuts, PeerGone, callVars
<1>10. CASE UNCHANGED vars
  BY <1>10 DEF vars
<1> QED BY <1>3, <1>4, <1>5, <1>6, <1>7, <1>8, <1>9, <1>10 DEF Next

\* AgreedInv holds in every reachable state.
LEMMA Agreed == Spec => []AgreedInv
<1>1. Init => AgreedInv
  BY DEF Init, AgreedInv, AfterHello
<1> QED BY <1>1, NextAgreed, PTL DEF Spec

\* The peer of a live connection shares our history, for every schedule and
\* every pair of heads, also after a second attempt with the peer's fork ID.
THEOREM SharedHistoryCorrect == Spec => []SharedHistory
<1>1. ASSUME TypeOK, ReadyInv, AgreedInv PROVE SharedHistory
  <2>1. SUFFICES ASSUME pc = "Live" PROVE SharedHistory
    BY DEF SharedHistory
  <2>2. IsChain(params) /\ IsChain(peer) /\ ValidateForkID(params, computeForkID(peer))
    BY <1>1, <2>1, DialAssumption DEF TypeOK, ReadyInv, AgreedInv
  <2> QED BY <2>2, AcceptedSharesHistory DEF SharedHistory
<1>2. Init => ReadyInv
  BY DEF Init, ReadyInv, Early, Attempts
<1> QED BY <1>1, <1>2, TypeCorrect, NextReady, Agreed, PTL DEF Spec

\* Whatever the two sides advertise, no wire code of a connection belongs to two
\* protocols, ETH starts at 16, and WIT is where wit.Dial expects it.
THEOREM SpacesDisjointCorrect == Spec => []SpacesDisjoint
<1>1. ASSUME TypeOK, AgreedInv PROVE SpacesDisjoint
  <2>1. SUFFICES ASSUME pc \in {"Live", "PreStatus"}
        PROVE  /\ \A m, n \in Names :
                    m # n => Space(negotiated, m) \cap Space(negotiated, n) = {}
               /\ \A n \in Names : Space(negotiated, n) \cap 0..15 = {}
               /\ capabilityOffset(negotiated, "eth") = 16
               /\ request.mode = "Wit" =>
                    witOffset(negotiated) = capabilityOffset(negotiated, "wit")
    BY DEF SpacesDisjoint
  <2>2. negotiated \in Negotiations /\ negotiated["eth"] # 0
    BY <1>1, <2>1 DEF TypeOK, AgreedInv, AfterHello
  <2>3. /\ \A m, n \in Names :
             m # n => Space(negotiated, m) \cap Space(negotiated, n) = {}
        /\ \A n \in Names : Space(negotiated, n) \cap 0..15 = {}
        /\ capabilityOffset(negotiated, "eth") = 16
    BY <2>2, SpacesOfNegotiation
  <2>4. ASSUME request.mode = "Wit"
        PROVE  witOffset(negotiated) = capabilityOffset(negotiated, "wit")
    <3>1. negotiated["snap"] = 0 /\ negotiated["wit"] = 1
      BY <1>1, <2>1, <2>4 DEF AgreedInv, AfterHello
    <3>2. /\ Span(negotiated, "snap") = 0
          /\ Span(negotiated, "eth") = ProtocolLength(negotiated["eth"])
          /\ ProtocolLength(negotiated["eth"]) \in Nat
      BY <2>2, <3>1 DEF Span, capabilityProtocolLength, ProtocolLength
    <3> QED BY <2>2, <2>3, <3>1, <3>2
            DEF witOffset, capabilityOffset, baseProtocolLength, Before
  <2> QED BY <2>3, <2>4
<1> QED BY <1>1, TypeCorrect, Agreed, PTL

\* No dial refuses a peer for its fork ID that has our genesis and our fork
\* schedule, for every schedule and every pair of heads.
THEOREM SameScheduleAcceptedCorrect == Spec => SameScheduleAccepted
<1> DEFINE A == (fd[attempt] = "Open" /\ fd'[attempt] = "Closed" /\ cause' = "ForkID")
                  => peer'.blocks # params.blocks \/ peer'.times # params.times
<1>1. ASSUME TypeOK, [Next]_vars PROVE [A]_vars
  <2>1. SUFFICES ASSUME fd[attempt] = "Open", fd'[attempt] = "Closed", cause' = "ForkID",
                        Next
        PROVE  peer'.blocks # params.blocks \/ peer'.times # params.times
    BY <1>1
  <2>2. ASSUME NEW q \in Peers, StatusForkRejected(q)
        PROVE  peer'.blocks # params.blocks \/ peer'.times # params.times
    <3>1. IsChain(q) /\ IsChain(params)
      BY <1>1, DialAssumption DEF TypeOK
    <3>2. q.genesis = params.genesis /\ peer' = q
          /\ ~ValidateForkID(params, computeForkID(q))
      BY <2>2 DEF StatusForkRejected, validateStatus
    <3> QED BY <3>1, <3>2, SameScheduleCompatible
  <2>3. ASSUME NEW step, NEW fid, NEW why, why # "ForkID" PROVE ~Refuse(step, why, fid)
    BY <2>1, <2>3 DEF Refuse, Fail
  <2>4. ~(StartFails \/ ConnectFails \/ AuthFails \/ WriteHelloFails \/ HelloRefused
          \/ WriteStatusFails \/ StatusRefused \/ AwaitSendFails \/ DeadlineExpires)
    BY <2>3 DEF StartFails, ConnectFails, AuthFails, WriteHelloFails, HelloRefused,
                WriteStatusFails, StatusRefused, AwaitSendFails, DeadlineExpires
  <2>5. \A remote \in PeerCaps : ~HelloUnsuitable(remote)
    BY <2>3 DEF HelloUnsuitable
  <2>6. fd' # fd /\ ~Connect
    BY <1>1, <2>1 DEF Connect, TypeOK
  <2>7. ~(Start \/ Auth \/ WriteHello \/ WriteStatus \/ StatusPing \/ AwaitSend)
    BY <2>6 DEF Start, Auth, WriteHello, WriteStatus, StatusPing, AwaitSend
  <2>8. /\ \A remote \in PeerCaps : ~HelloAccepted(remote)
        /\ \A q \in Peers : ~StatusAccepted(q)
        /\ \A a \in Attempts : ~(Sender(a) \/ PeerGone(a))
    BY <2>6 DEF HelloAccepted, StatusAccepted, Sender, SenderWrites, SenderFails,
                SenderPuts, PeerGone
  <2> QED BY <2>1, <2>2, <2>4, <2>5, <2>6, <2>7, <2>8 DEF Next
<1> QED BY <1>1, TypeCorrect, PTL DEF Spec, SameScheduleAccepted
=============================================================================
