----------------------------- MODULE MCEthDial -----------------------------
(* EthDial on small instances. *)
EXTENDS EthDial

Config(max, snap, exact) == [max |-> max, snap |-> snap, exact |-> exact]

MCRequests ==
  {[mode |-> "Dial", config |-> Config(0, 0, {})],
   [mode |-> "Dial", config |-> Config(72, 2, {})],
   [mode |-> "Dial", config |-> Config(73, 0, {})],
   [mode |-> "Dial", config |-> Config(0, 0, Cap("eth", {68, 71}) \cup Cap("snap", {1})
                                               \cup Cap("wit", {1}))],
   [mode |-> "PreStatus", config |-> Config(0, 0, {})],
   [mode |-> "Ready", config |-> Config(69, 0, {})],
   [mode |-> "Wit", config |-> Config(0, 0, {})]}

MCPeerCaps ==
  {Cap("eth", {67, 68, 69}) \cup Cap("snap", {1}),
   Cap("eth", {68, 71, 72, 73}) \cup Cap("snap", {1, 2}) \cup Cap("wit", {1, 2}),
   Cap("aaa", {1}) \cup Cap("snap", {1})}

\* Block fork 2, time fork 12 (times are above the threshold).
Chain(genesis, blocks, times, number, time) ==
  [genesis |-> genesis, blocks |-> blocks, times |-> times, number |-> number,
   time |-> time]

\* The last chain has passed time 12 without knowing the fork there.
MCChains ==
  {Chain(100, <<2>>, <<12>>, 1, 11), Chain(100, <<2>>, <<12>>, 2, 11),
   Chain(100, <<2>>, <<12>>, 2, 12), Chain(100, <<2>>, << >>, 3, 12)}

\* Peers on our chain, on one with another time fork, and on a foreign one.
MCPeers ==
  MCChains \cup {Chain(100, <<2>>, <<13>>, 2, 11), Chain(100, <<2>>, <<13>>, 2, 13),
                Chain(101, <<2>>, <<12>>, 2, 12)}
=============================================================================
