SPECIFICATION FairSpec
CONSTANTS
  Calls <- MCCalls
  Responses <- MCResponses
  MaxAttempts = 3
  HardPayload = 3
  HardTotal = 4
  HardChunks = 3
INVARIANTS
  TypeOK
  SentOnce
  NothingLeft
  WarmBeforeRequest
  WithinCeilings
  AllOrError
PROPERTY
  CallReturns
CHECK_DEADLOCK FALSE
