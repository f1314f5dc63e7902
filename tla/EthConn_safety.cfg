SPECIFICATION Spec
CONSTANTS
  c1 = c1
  c2 = c2
  k1 = k1
  k2 = k2
  Clients <- MCClients
  Codes <- MCCodes
  PeerCodes <- MCAnyCode
  QueueCap = 1
  SendBuf = 1
  MaxFrames = 2
  SnapNegotiated = TRUE
SYMMETRY Symmetry
INVARIANTS
  TypeOK
  ReaderCause
  NoSilentLoss
PROPERTY
  ImplementsFeed
CHECK_DEADLOCK FALSE
