SPECIFICATION Spec
CONSTANTS
  Gate = {"publication", "mix", "freeze"}
  Registry <- MCRegistry
  DependsOn <- MCDependsOn
  Enforced = {"publication", "mix", "freeze"}
  HumanOnly = {"publication", "freeze"}
  Binds <- MCBinds
  Grants <- MCGrants
  Lasting = {"freeze"}
  Key = {"script", "render"}
  Missing = "missing"
  Values <- MCValues
  Verdicts <- MCVerdicts
  Session = {s1}
  Plan <- MCPlan
  Required = {"upload"}
  Repeatable = {"tidy"}
  Queryable = {"upload", "notice"}
  Authority <- MCAuthority
  None = "none"
  Released = "render"
INVARIANT AuthorityIsEarned
PROPERTIES OneShotNotRepeated BestEffortLast
CHECK_DEADLOCK FALSE
