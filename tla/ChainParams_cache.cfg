SPECIFICATION Spec
CONSTANTS
  a = a
  b = b
  Callers = {a, b}
  URLs = {1, 2, 3}
  Limit = 2
  TTL = 2
  MaxTime = 3
SYMMETRY CallerSymmetry
INVARIANTS
  TypeOK
  NoRefetch
  NoOrphanWaiter
PROPERTIES
  EvictsOldestOnly
CHECK_DEADLOCK FALSE
