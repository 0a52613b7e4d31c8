CONSTANTS
  Proc = {p1, p2, p3}
  Id = {i1, i2, i3}
  NoId = NoId
  OneHost = TRUE
  Alike = {p2, p3}
  Host <- HostOf
  Mortal = {p1}
  Expiring = TRUE
  Renewing = FALSE
SPECIFICATION LockSpec
INVARIANTS SuccessIsExclusive LostOnlyToAnother
SYMMETRY Symmetry
CHECK_DEADLOCK FALSE
