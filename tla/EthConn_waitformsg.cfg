SPECIFICATION Spec
CONSTANTS
  c1 = c1
  c2 = c2
  k1 = k1
  k2 = k2
  Clients <- MCOneClient
  Codes <- MCOneCode
  PeerCodes <- MCOneCodeOrBase
  QueueCap = 1
  SendBuf = 1
  MaxFrames = 2
  SnapNegotiated = FALSE
PROPERTY
  WaitedMessageIsReturned
CHECK_DEADLOCK FALSE
