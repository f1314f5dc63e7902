---------------------------- MODULE BeaconStatus ----------------------------
(***************************************************************************)
(* BeaconStatus (reqresp/status.go): the Status body for a peer, built     *)
(* from five HTTP requests to a beacon node whose head moves on between    *)
(* them: the fork version, the genesis, the head header, the finality      *)
(* checkpoints and the config spec.  The fork digest is computed from the  *)
(* first, the third and the last.                                          *)
(*                                                                         *)
(* Roots are left out.  A fork version is the number of forks it stands    *)
(* after, and a digest is what it is a hash of: the version and, from Fulu *)
(* on, the blob parameters.                                                *)
(***************************************************************************)
EXTENDS Naturals, FiniteSets, Sequences, Functions

CONSTANTS Networks,       \* the fork schedules of the node's network
          SlotsPerEpoch,  \* SLOTS_PER_EPOCH of the network
          MaxSlot,        \* bound: the head's last slot
          NeverEpoch      \* the epoch of a fork that is not scheduled

Entry == [epoch : Nat, max : Nat]

\* The schedule of a network has one entry per epoch.
ASSUME BeaconAssumption ==
  /\ SlotsPerEpoch \in Nat \ {0} /\ MaxSlot \in Nat /\ NeverEpoch \in Nat
  /\ \A slot \in 0..MaxSlot : slot \div SlotsPerEpoch < NeverEpoch
  /\ \A net \in Networks :
       /\ net.fulu \in Nat
       /\ IsFiniteSet(net.blobs) /\ net.blobs \subseteq Entry
       /\ \A e, f \in net.blobs : e.epoch = f.epoch => e = f

VARIABLES
  network,  \* forks (epochs), fulu (epoch), electra (entry), blobs (entries)
  spec,     \* what /eth/v1/config/spec says of it; the schedule in any order
  head,     \* the slot of the node's head
  bpc,      \* the next step of the call: see Steps
  read,     \* what the call has read: version and slot
  turn,     \* the next turn of the loop of blobParameters
  best,     \* its best entry, if found, as a set
  digest,   \* the fork digest it computed
  status    \* "None", "Ok" or "Error"

beaconVars == <<network, spec, head, bpc, read, turn, best, digest, status>>

\* The five requests, and the loop of blobParameters.
Steps == <<"fork", "genesis", "headers", "finality", "config", "blobs">>

NoBlobs == [epoch |-> 0, max |-> 0]
NoDigest == [version |-> 0, masked |-> FALSE, blobs |-> NoBlobs]

epochOf(slot) == slot \div SlotsPerEpoch

\* The version of the head state at an epoch of the node's own chain.
VersionAt(epoch) == Cardinality({f \in network.forks : f <= epoch})

\* All orders of the schedule.
Orders(net) == {s \in [1..Cardinality(net.blobs) -> net.blobs] : Range(s) = net.blobs}

\* A spec may lack FULU_FORK_EPOCH on a network without Fulu, and may have no
\* usable SLOTS_PER_EPOCH.
Specs(net) ==
  {[hasFulu |-> h, slots |-> n, schedule |-> s] :
     h \in {TRUE, net.fulu # NeverEpoch}, n \in {0, SlotsPerEpoch}, s \in Orders(net)}

BeaconInits == UNION {{[network |-> n, spec |-> s] : s \in Specs(n)} : n \in Networks}

BeaconInit(inits) ==
  /\ \E i \in inits : network = i.network /\ spec = i.spec
  /\ head = 0
  /\ bpc = 1
  /\ read = [version |-> 0, slot |-> 0]
  /\ turn = 1 /\ best = {}
  /\ digest = NoDigest
  /\ status = "None"
-----------------------------------------------------------------------------
(* The digest.                                                             *)

\* Mutant: the last entry at or below the epoch, in the order of the schedule.
lastEntry(b, entry, epoch) == IF entry.epoch <= epoch THEN {entry} ELSE b

\* One turn of the loop of blobParameters.
newerEntry(b, entry, epoch) ==
  IF entry.epoch <= epoch /\ \A o \in b : entry.epoch > o.epoch THEN {entry} ELSE b

base(version) == [version |-> version, masked |-> FALSE, blobs |-> NoBlobs]

maskedBy(version, blobs) == [version |-> version, masked |-> TRUE, blobs |-> blobs]

\* The epoch as consensusForkDigest computes it, of the slot read.
specEpoch == read.slot \div spec.slots
-----------------------------------------------------------------------------
(* The call.                                                               *)

\* One slot passes and the head with it.
HeadAdvances ==
  /\ head < MaxSlot
  /\ head' = head + 1
  /\ UNCHANGED <<network, spec, bpc, read, turn, best, digest, status>>

\* A request before the config fails, or its answer does not decode.
RequestFails ==
  /\ status = "None" /\ Steps[bpc] \notin {"config", "blobs"}
  /\ status' = "Error"
  /\ UNCHANGED <<network, spec, head, bpc, read, turn, best, digest>>

ReadFork ==
  /\ status = "None" /\ Steps[bpc] = "fork"
  /\ read' = [read EXCEPT !.version = VersionAt(epochOf(head))]
  /\ bpc' = bpc + 1
  /\ UNCHANGED <<network, spec, head, turn, best, digest, status>>

\* The genesis, and the finality checkpoints: nothing the digest depends on.
ReadOther ==
  /\ status = "None" /\ Steps[bpc] \in {"genesis", "finality"}
  /\ bpc' = bpc + 1
  /\ UNCHANGED <<network, spec, head, read, turn, best, digest, status>>

ReadHead ==
  /\ status = "None" /\ Steps[bpc] = "headers"
  /\ read' = [read EXCEPT !.slot = head]
  /\ bpc' = bpc + 1
  /\ UNCHANGED <<network, spec, head, turn, best, digest, status>>

\* Any failure of the config request keeps the digest without blob parameters.
ConfigFails ==
  /\ status = "None" /\ Steps[bpc] = "config"
  /\ digest' = base(read.version)
  /\ status' = "Ok"
  /\ UNCHANGED <<network, spec, head, bpc, read, turn, best>>

\* consensusForkDigest up to blobParameters; a zero SLOTS_PER_EPOCH fails.
ReadConfig ==
  /\ status = "None" /\ Steps[bpc] = "config"
  /\ \/ /\ ~spec.hasFulu \/ (spec.slots # 0 /\ specEpoch < network.fulu)
        /\ digest' = base(read.version) /\ status' = "Ok"
     \/ /\ spec.hasFulu /\ spec.slots = 0
        /\ status' = "Error" /\ UNCHANGED digest
     \/ /\ spec.hasFulu /\ spec.slots # 0 /\ specEpoch >= network.fulu
        /\ UNCHANGED <<digest, status>>
  /\ bpc' = bpc + 1
  /\ UNCHANGED <<network, spec, head, read, turn, best>>

BlobsTurn ==
  /\ status = "None" /\ Steps[bpc] = "blobs" /\ turn <= Len(spec.schedule)
  /\ best' = newerEntry(best, spec.schedule[turn], specEpoch)
  /\ turn' = turn + 1
  /\ UNCHANGED <<network, spec, head, bpc, read, digest, status>>

\* blobParameters returns, the Electra defaults if it found nothing, and the
\* digest is masked.
BlobsReturn ==
  /\ status = "None" /\ Steps[bpc] = "blobs" /\ turn > Len(spec.schedule)
  /\ digest' = maskedBy(read.version, IF best = {} THEN network.electra ELSE CHOOSE e \in best : TRUE)
  /\ status' = "Ok"
  /\ UNCHANGED <<network, spec, head, bpc, read, turn, best>>

BeaconStep ==
  \/ RequestFails \/ ReadFork \/ ReadOther \/ ReadHead \/ ConfigFails \/ ReadConfig
  \/ BlobsTurn \/ BlobsReturn

BeaconNext == HeadAdvances \/ BeaconStep

BeaconSpec == BeaconInit(BeaconInits) /\ [][BeaconNext]_beaconVars
-----------------------------------------------------------------------------
(* Properties.                                                             *)

\* What a peer at this epoch computes: the newest blob parameters among all that
\* are in force, once Fulu is.
networkDigest(epoch) ==
  LET inForce == {e \in network.blobs : e.epoch <= epoch}
      newest == {e \in inForce : \A o \in inForce : o.epoch <= e.epoch}
  IN IF epoch < network.fulu THEN base(VersionAt(epoch))
     ELSE maskedBy(VersionAt(epoch), IF newest = {} THEN network.electra ELSE CHOOSE e \in newest : TRUE)

\* Wherever the head moves while the five requests are made, the digest is the
\* one the network uses at the epoch of the head that Status reports, unless
\* the chain passed a fork between the first request and the third or the
\* config request failed on a network with Fulu.
DigestAtHead ==
  LET epoch == epochOf(read.slot) IN
  status = "Ok" /\ read.version = VersionAt(epoch) =>
    \/ digest = networkDigest(epoch)
    \/ Steps[bpc] = "config" /\ epoch >= network.fulu
=============================================================================
