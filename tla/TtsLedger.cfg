SPECIFICATION MCSpec
CONSTANTS
  NoTake = 0
  Segment = {seg1, seg2}
  Session = {s1, s2}
  Operator = {s2}
  Scope = {plan1, plan2}
  None = None
  Outcome = {"charged", "diverged", "silent"}
  Local = {s2}
  Verdict = {"accepted"}
  MaxTotal = 2
  PlanTotal = 1
  MaxDecisions = 1
  MaxPlans = 1
  MaxTakes = 2
INVARIANTS NotPaidAgain TakesRestOnTheirPlan LineageIsTotal
SYMMETRY Symmetry
CHECK_DEADLOCK FALSE
