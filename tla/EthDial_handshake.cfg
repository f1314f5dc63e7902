SPECIFICATION FairSpec
CONSTANTS
  Requests <- MCRequests
  PeerCaps <- MCPeerCaps
  Chains <- MCChains
  Peers <- MCPeers
  Sentinel = 99
  Threshold = 10
  MaxPings = 1
INVARIANTS
  TypeOK
  SocketsOwned
  LiveIsReady
  SharedHistory
  SpacesDisjoint
PROPERTIES
  SameScheduleAccepted
  DialReturns
CHECK_DEADLOCK FALSE
