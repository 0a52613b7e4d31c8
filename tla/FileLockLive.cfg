CONSTANTS
  Proc = {p1, p2}
  Id = {i1, i2}
  NoId = NoId
  OneHost = TRUE
  Alike = {}
  Host <- HostOf
  Mortal = {p1}
  Expiring = TRUE
  Renewing = TRUE
SPECIFICATION LockFairSpec
INVARIANT NoLeak
PROPERTIES DeadRecordYields AcquireEnds
CHECK_DEADLOCK FALSE
