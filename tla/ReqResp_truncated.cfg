SPECIFICATION Spec
CONSTANTS
  Calls <- MCCalls
  Responses <- MCResponses
  MaxAttempts = 3
  HardPayload = 3
  HardTotal = 4
  HardChunks = 3
INVARIANT
  TruncatedIsAnError
CHECK_DEADLOCK FALSE
