SPECIFICATION FairSpec
CONSTANTS
  c1 = c1
  c2 = c2
  k1 = k1
  k2 = k2
  Clients <- MCClients
  Codes <- MCCodes
  PeerCodes <- MCMessageOrPing
  QueueCap = 1
  SendBuf = 1
  MaxFrames = 1
  SnapNegotiated = FALSE
PROPERTY
  EndReleasesAll
  WaitsReturn
  PingAnswered
CHECK_DEADLOCK FALSE
