SPECIFICATION Spec
CONSTANTS
  Requests <- MCRequests
  PeerCaps <- MCPeerCaps
  Chains <- MCChains
  Peers <- MCPeers
  Sentinel = 99
  Threshold = 10
  MaxPings = 0
PROPERTY
  RetryOnlyAfterForkRejection
CHECK_DEADLOCK FALSE
