SPECIFICATION Spec
CONSTANTS
  Gate = {"take", "script"}
  Registry <- MCRegistry
  DependsOn <- MCDependsOn
  Enforced = {"take", "script"}
  HumanOnly = {"take"}
  Binds <- MCBinds
  Grants <- MCGrants
  Lasting = {}
  Key = {"text"}
  Missing = "missing"
  Values <- MCValues
  Verdicts <- MCVerdicts
  Stage = {"draft", "read"}
  Candidates <- MCCandidates
  DefinitionGates <- MCDefinitionGates
  Requests <- MCRequests
  Default = {"default"}
  Produces <- MCProduces
  Asks <- MCAsks
  Paid = {"read"}
  Session = {s1, s2}
  None = "none"
  MaxTrouble = 2
INVARIANTS PlanIsHonest StartedWasCleared
PROPERTY PlanLeadsOn
CHECK_DEADLOCK FALSE
