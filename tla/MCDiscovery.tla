---------------------------- MODULE MCDiscovery ----------------------------
EXTENDS Discovery

\* The peer, and another port of its host.
MCPeerAddr == [ip |-> 1, port |-> 1]
MCOtherAddrs == {[ip |-> 1, port |-> 2]}
MCCtxDeadlines == {1, Never}
=============================================================================
