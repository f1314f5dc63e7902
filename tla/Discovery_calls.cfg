SPECIFICATION FairSpec
CONSTANTS
  Never = Never
  PeerAddr <- MCPeerAddr
  OtherAddrs <- MCOtherAddrs
  CtxDeadlines <- MCCtxDeadlines
  Timeout = 1
  MaxNonce = 2
  MaxChallenge = 2
INVARIANTS
  TypeOK
  FromThePeer
  SessionAgreement
CHECK_DEADLOCK FALSE
PROPERTIES
 CallsEnd
