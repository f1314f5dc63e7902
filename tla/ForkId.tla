------------------------------- MODULE ForkId -------------------------------
(***************************************************************************)
(* EIP-2124 fork identifiers (rpc/chainparams.go): the identifier a node   *)
(* computes for its head, and the check of a peer's identifier.  The       *)
(* CRC32 over the genesis hash and the forks passed is modelled as the     *)
(* sequence it is taken over, so different histories never collide.        *)
(***************************************************************************)
EXTENDS Naturals, Sequences

CONSTANTS Sentinel,   \* ^uint64(0), the fork that is never reached
          Threshold   \* forkTimestampThreshold

ASSUME ForkIdAssumption == Sentinel \in Nat /\ Threshold \in Nat

\* Chain parameters, as far as fork identifiers need them.  A fork is never 0
\* (parseForkSchedule), a block number is below every timestamp, and no head
\* is at the end of time.
IsChain(p) ==
  /\ p.blocks \in Seq(Nat \ {0}) /\ p.times \in Seq(Nat \ {0})
  /\ \A i \in 1..Len(p.blocks) : p.blocks[i] <= Threshold
  /\ p.number \in Nat /\ p.time \in Nat
  /\ p.number < Sentinel /\ p.time < Sentinel

Forks(p) == p.blocks \o p.times

\* sums[i]: the checksum after the first i forks.
Checksum(p, i) == <<p.genesis>> \o SubSeq(Forks(p), 1, i)

\* computeForkID: the first fork that the head has not reached is the next.
Reached(p, i) ==
  IF i <= Len(p.blocks) THEN Forks(p)[i] <= p.number ELSE Forks(p)[i] <= p.time

IsPassed(p, n) ==
  /\ n \in 0..Len(Forks(p))
  /\ \A i \in 1..n : Reached(p, i)
  /\ n < Len(Forks(p)) => ~Reached(p, n + 1)

computeForkID(p) ==
  LET n == CHOOSE m \in 0..Len(Forks(p)) : IsPassed(p, m) IN
  [hash |-> Checksum(p, n), next |-> IF n < Len(Forks(p)) THEN Forks(p)[n + 1] ELSE 0]

\* ValidateForkID.  Its list of forks ends with the sentinel; without a time
\* fork the sentinel is compared with the block number.
ForkAt(p, i) == IF i <= Len(Forks(p)) THEN Forks(p)[i] ELSE Sentinel

\* Mutant: block forks are told from time forks one place too late.
blockForkCountLate(p) == Len(p.blocks) + 1

blockForkCount(p) == Len(p.blocks) + (IF Len(p.times) = 0 THEN 1 ELSE 0)

HeadFor(p, i) == IF i > blockForkCount(p) THEN p.time ELSE p.number

IsCurrent(p, i) ==
  /\ i \in 1..(Len(Forks(p)) + 1)
  /\ HeadFor(p, i) < ForkAt(p, i)
  /\ \A j \in 1..(i - 1) : HeadFor(p, j) >= ForkAt(p, j)

\* The three rules, for the first fork i the local head has not reached.
Stale(p, i, remote) ==
  /\ remote.next > 0
  /\ \/ HeadFor(p, i) >= remote.next
     \/ remote.next > Threshold /\ p.time >= remote.next

\* Mutant: a peer behind us is accepted whatever fork it announces.
ValidateForkIDBehind(p, remote) ==
  \E i \in 1..(Len(Forks(p)) + 1) :
    /\ IsCurrent(p, i)
    /\ \/ Checksum(p, i - 1) = remote.hash /\ ~Stale(p, i, remote)
       \/ \E j \in 1..(Len(Forks(p)) + 1) : j # i /\ Checksum(p, j - 1) = remote.hash

ValidateForkID(p, remote) ==
  \E i \in 1..(Len(Forks(p)) + 1) :
    /\ IsCurrent(p, i)
    /\ \/ Checksum(p, i - 1) = remote.hash /\ ~Stale(p, i, remote)
       \/ \E j \in 1..(i - 1) :
            Checksum(p, j - 1) = remote.hash /\ ForkAt(p, j) = remote.next
       \/ \E j \in (i + 1)..(Len(Forks(p)) + 1) : Checksum(p, j - 1) = remote.hash
=============================================================================
