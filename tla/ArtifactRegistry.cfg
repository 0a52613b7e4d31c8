SPECIFICATION MCSpec
CONSTANTS
  Artifact = {"take", "mix", "master"}
  Irreplaceable = {"take"}
  Bytes = {"b1", "b2", "b3"}
  NoRecord = NoRecord
  Path = {p1, p2}
  Session = {s1, s2}
  Archivers = {s1}
  Derivations <- MCDerivations
  Absent = "absent"
  MaxWrites = 3
INVARIANTS CustodyHolds LineageIsClosure
PROPERTY RemovalIsSafe
SYMMETRY Paths
CHECK_DEADLOCK FALSE
