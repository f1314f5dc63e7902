SPECIFICATION FairSpec
CONSTANTS
  a1 = a1
  a2 = a2
  p1 = p1
  p2 = p2
  j1 = j1
  j2 = j2
  j3 = j3
  t1 = t1
  Accepts = {a1, a2}
  AcceptSets <- MCAcceptSets
  MaxStreams = 2
  Protocols = {t1}
  MaxPayload = 1
  NoCall = NoCall
  Publishers = {p1, p2}
  Topics = {t1}
  Jobs = {j1, j2, j3}
  JobSets <- MCJobSets
  SubQueue = 1
  NoPublisher = NoPublisher
  Networks <- MCNetworks
  SlotsPerEpoch = 2
  MaxSlot = 7
  NeverEpoch = 99
  MaxFrame = 2
  SendCap = 3
  MaxPeer = 2
  MaxSent = 2
  MaxDrains = 2
  NameCount = 3
  EntryKinds <- MCEntryKinds
  MaxChildren = 2
  Depths = {1, 2}
  Callers = {a1, a2}
  URLs = {1}
  Limit = 1
  TTL = 1
  MaxTime = 3
INVARIANTS
  StreamsAccounted
  RouterMatches
  DigestAtHead
  FramesRecovered
  WalkVerdict
PROPERTIES
  CallsReturn
  SharedFetchServes
CHECK_DEADLOCK FALSE
