CONSTANTS
  Writer = {w1, w2}
  Batch <- Batches
  MaxRevision = 2
  Leased = TRUE
  Client = {c1, c2}
  Operations <- Calls
  KnowsTop <- Schemas
  KnowsPack <- PackSchemas
  MaxCalls = 4
  MaxOverruns = 1
  MaxFaults = 1
  Absent = Absent
  Torn = Torn
  None = None
  Abandoned = Abandoned
SPECIFICATION MCSpec
INVARIANTS NoGap OneFactPerIdentity AppendedSurvives RecordsSurvive
PROPERTY StreamSpec
CHECK_DEADLOCK FALSE
