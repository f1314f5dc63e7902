SPECIFICATION FairSpec
CONSTANTS
  MaxSends = 2
  MaxPings = 2
  SendBuf = 1
INVARIANTS
  TypeOK
  FramesInOrder
PROPERTIES
  ClosedIsJustified
  WaitReturns
CHECK_DEADLOCK FALSE
