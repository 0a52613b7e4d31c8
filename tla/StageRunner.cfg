SPECIFICATION Spec
CONSTANTS
    s1 = s1
    s2 = s2
    Stage = {s1, s2}
    NoStage = NoStage
    Proc = {r1}
    NoProc = NoProc
    MaxAttempts <- MCMaxAttempts
    NotIdempotent = {s2}
    PriorEvents = 1
    MaxCalls = 2
    MaxDeaths = 1
INVARIANTS CacheIsReplayedPrefix OrdinalsAreUnique StartsAreLicensed
CHECK_DEADLOCK FALSE
