CONSTANTS
  Malformed = Malformed
  Supported <- MCSupported
  NoPrecedence = NoPrecedence
  Documents <- MCDocuments
  Rank <- MCRank
  Ladder <- MCLadder
  Context <- MCContext
  Resources = {"guide"}
  MaxPacks = 3
  ByDimension = ByDimension
  Groupings = ByDimension
  Unstated = Unstated
  CaseRecords <- MCCaseRecords
  OutcomeRecords <- MCOutcomeRecords
  SpotRecords <- MCSpotRecords
  Policies <- MCPolicies
  Versions <- MCVersions
  Evaluator = "e"
  MaxCases = 3
  MaxOutcomes = 2
  Unrecorded = Unrecorded
  NoPolicy = NoPolicy
  Digest = {"A", "B"}
  First = "A"
  Declarations <- MCDeclarations
  Reports <- MCReports
  ReworkPolicies <- MCReworkPolicies
  MaxEvaluations = 3
  MaxRepairs = 2
  Unset = Unset
  McpSession = {"s"}
  Identities <- MCIdentities
  CapabilitySets <- MCCapabilitySets
  Definitions <- MCDefinitions
  StageArgs <- MCStageArgs
  MaxToolCalls = 2
  NotGiven = NotGiven
  Invocation <- MCInvocation
  Environments <- MCEnvironments
  PermittedKinds <- MCPermittedKinds
  MaxInvocations = 2
  InRun = {"held"}
SPECIFICATION Spec
INVARIANT DeclaredKindsDecide
CHECK_DEADLOCK FALSE
