CONSTANTS
  Operator = {o1, o2}
  Decision <- Several
  N = 2
  NoObs = NoObs
  NoDecision = NoDecision
  MaxCrashes = 1
SPECIFICATION FairSpec
INVARIANTS FindingsNeverOverwritten NoReleaseWhilePending
PROPERTY DecisionsResolve
