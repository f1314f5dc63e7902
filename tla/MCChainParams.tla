--------------------------- MODULE MCChainParams ---------------------------
(* ChainParams on small instances. *)
EXTENDS ChainParams, TLC

CONSTANTS a, b

CallerSymmetry == Permutations({a, b})
=============================================================================
