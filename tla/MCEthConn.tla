----------------------------- MODULE MCEthConn -----------------------------
(* EthConn on small instances. *)
EXTENDS EthConn, TLC

CONSTANTS c1, c2, k1, k2

MCClients == {c1, c2}
MCOneClient == {c1}
MCCodes == {k1, k2}
MCOneCode == {k1}
MCAnyCode == MCCodes \cup BaseCodes
MCOneCodeOrBase == MCOneCode \cup BaseCodes
MCMessageOrPing == {k1, "Ping"}

ClientSymmetry == Permutations({c1, c2})
CodeSymmetry == Permutations({k1, k2})
Symmetry == ClientSymmetry \cup CodeSymmetry
=============================================================================
