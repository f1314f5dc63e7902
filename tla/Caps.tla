------------------------------- MODULE Caps -------------------------------
(***************************************************************************)
(* Capability negotiation of the devp2p Hello (eth/caps.go, and the offset *)
(* wit/conn.go computes for itself).  A list of capabilities is a set of   *)
(* name and version; what two sides negotiate is the highest version they  *)
(* have in common for each name, 0 for none.                               *)
(***************************************************************************)
EXTENDS Naturals

Names == {"eth", "snap", "wit"}

\* The names that come before a name in the lexicographic order.
Before == [eth |-> {}, snap |-> {"eth"}, wit |-> {"eth", "snap"}]

Versions == [eth |-> 68..72, snap |-> 1..2, wit |-> {1}]

baseProtocolLength == 16

supportedCapability(cap) == cap.name \in Names /\ cap.version \in Versions[cap.name]

Cap(name, versions) == {[name |-> name, version |-> v] : v \in versions}

\* Config.validate.  A set holds no duplicates, so they are not looked for.
validate(config) ==
  /\ config.exact # {} => config.max = 0 /\ config.snap = 0
  /\ config.max \in {0} \cup Versions.eth
  /\ config.snap \in {0} \cup Versions.snap
  /\ \A cap \in config.exact : supportedCapability(cap)

ethCapabilities(maxVersion) == Cap("eth", 68..maxVersion)

capabilities(config) ==
  IF config.exact # {} THEN config.exact
  ELSE ethCapabilities(IF config.max = 0 THEN 70 ELSE config.max)
         \cup Cap("snap", {config.snap} \ {0})

\* DialPreStatus does not follow Dial's eth/70 default.
preStatusCapabilities(config) ==
  IF config.max = 0 /\ config.snap = 0 /\ config.exact = {}
  THEN ethCapabilities(69) ELSE capabilities(config)

CommonVersions(local, remote, name) ==
  {v \in Versions[name] : [name |-> name, version |-> v] \in local \cap remote}

\* negotiatedCapabilities: local capabilities are supported ones.
negotiatedCapabilities(local, remote) ==
  [name \in Names |->
     IF CommonVersions(local, remote, name) = {} THEN 0
     ELSE CHOOSE v \in CommonVersions(local, remote, name) :
            \A w \in CommonVersions(local, remote, name) : w <= v]

\* What negotiatedCapabilities may return.
Negotiations ==
  {common \in [Names -> Nat] : \A n \in Names : common[n] \in Versions[n] \cup {0}}

\* The versions are the supported ones.
ProtocolLength(version) ==
  IF version = 68 THEN 17
  ELSE IF version \in {69, 70} THEN 18
  ELSE IF version = 71 THEN 20 ELSE 22

capabilityProtocolLength(name, version) ==
  IF name = "eth" THEN ProtocolLength(version)
  ELSE IF name = "wit" THEN 4
  ELSE IF version = 1 THEN 8 ELSE 10

\* The wire codes a negotiated capability occupies, 0 when it is not negotiated.
Span(negotiated, name) ==
  IF negotiated[name] = 0 THEN 0
  ELSE capabilityProtocolLength(name, negotiated[name])

\* Mutant: the loop adds the length of every capability but the first.
capabilityOffsetSkip(negotiated, name) ==
  IF negotiated[name] = 0 THEN 0
  ELSE baseProtocolLength
       + (IF "snap" \in Before[name] THEN Span(negotiated, "snap") ELSE 0)

\* capabilityOffset walks the negotiated names in order up to the one asked for.
capabilityOffset(negotiated, name) ==
  IF negotiated[name] = 0 THEN 0
  ELSE baseProtocolLength
       + (IF "eth"  \in Before[name] THEN Span(negotiated, "eth")  ELSE 0)
       + (IF "snap" \in Before[name] THEN Span(negotiated, "snap") ELSE 0)

\* wit.DialWithKey puts WIT right behind ETH.
witCapabilities == Cap("eth", 68..69) \cup Cap("wit", {1})
witOffset(negotiated) ==
  capabilityOffset(negotiated, "eth") + ProtocolLength(negotiated["eth"])

\* The absolute wire codes of a negotiated capability.
Space(negotiated, name) ==
  {capabilityOffset(negotiated, name) + i : i \in {j \in 0..21 : j < Span(negotiated, name)}}
============================================================================
