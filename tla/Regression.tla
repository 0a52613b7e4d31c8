----------------------------- MODULE Regression -----------------------------
(***************************************************************************)
(* Whether an evaluator may become blocking (packages/aldus-regression):    *)
(* a corpus of cases labelled by humans, a run of the evaluator over it, a  *)
(* registry of what the evaluator is known to miss, and a policy; the run   *)
(* is compared with the labels, sliced by scope, and each slice is measured *)
(* against the bar.                                                         *)
(*                                                                         *)
(* A case has an id, a scope (a function on the dimensions it declares), a  *)
(* label, a severity and a correction class (or None), the categories of    *)
(* the findings and the labeller; an outcome names a case, says whether it  *)
(* was flagged, under which categories, and whether sites can be measured   *)
(* (or None).  A rate is a fraction, a record [num, den].                   *)
(***************************************************************************)
EXTENDS SchemaVersion, SequencesExt, FiniteSetsExt

CONSTANTS
  CaseRecords,     \* cases a labeller may write down, well formed or not
  OutcomeRecords,  \* outcomes the evaluator may report
  SpotRecords,     \* blind spots somebody may register
  Policies,        \* policies an adopter may configure
  Versions,        \* schema versions a corpus and a run may declare, in pairs
  Groupings,       \* dimensions to slice by together, or ByDimension
  ByDimension,
  Evaluator,
  Unstated,
  MaxCases,
  MaxOutcomes

ASSUME RegressionAssumption ==
  \A p \in Policies : \A rate \in {p.minRecall, p.maxFalsePositives} : rate.num \in Int /\ rate.den \in Int

VARIABLES
  corpus,    \* the corpus file: its version and its cases, in order
  run,       \* the evaluator's run: its version and its outcomes, in order
  registry,  \* BlindSpotRegistry: the records, by id
  policy     \* the policy in use

corpusVars == <<corpus, run, registry, policy>>

-----------------------------------------------------------------------------
(* defectCaseSchema's refinements, parseDefectCorpus and parseEvaluatorRun. *)
WellFormedCase(c) == (c.defective <=> c.severity # Unstated) /\ (c.defective \/ c.categories = {})

HasTwice(s, key(_)) == \E i, j \in DOMAIN s : i # j /\ key(s[i]) = key(s[j])

ParseDefectCorpus ==
  IF DeclaresNewer(corpus.schema) THEN "SCHEMA_VERSION_UNSUPPORTED"
  ELSE IF corpus.schema = Malformed \/ \E c \in Range(corpus.cases) : ~WellFormedCase(c) THEN "CORPUS_MALFORMED"
  ELSE IF HasTwice(corpus.cases, LAMBDA c : c.id) THEN "CORPUS_DUPLICATE_CASE"
  ELSE "parsed"

ParseEvaluatorRun ==
  IF DeclaresNewer(run.schema) THEN "SCHEMA_VERSION_UNSUPPORTED"
  ELSE IF run.schema = Malformed THEN "CORPUS_MALFORMED"
  ELSE IF HasTwice(run.outcomes, LAMBDA o : o.case) THEN "OUTCOME_DUPLICATE"
  ELSE "parsed"

(* assertPolicyValid.                                                       *)
IsRate(r) == 0 <= r.num /\ r.num <= r.den
PolicyValid(p) ==
  /\ IsRate(p.minRecall) /\ IsRate(p.minWeightedRecall) /\ IsRate(p.maxFalsePositives)
  /\ p.minCases >= 0 /\ p.minDefective >= 0 /\ p.minClean >= 0 /\ p.minLabellers >= 0
  /\ p.minDefective + p.minClean <= p.minCases
  /\ p.maxHarm.num >= 0

-----------------------------------------------------------------------------
(* scope.ts: a selector is the function of the values it holds fixed.       *)
ObservedDimensions == UNION {DOMAIN c.scope : c \in Range(corpus.cases)}

ScopeMatches(scope, selector) ==
  \A d \in DOMAIN selector : d \in DOMAIN scope /\ scope[d] = selector[d]

(* A case that does not declare every dimension is in no slice of them.     *)
DeriveScopeSelectors ==
  LET effective == IF Groupings = ByDimension THEN {{d} : d \in ObservedDimensions} ELSE Groupings \ {{}}
  IN  UNION {{[d \in dims |-> c.scope[d]] : c \in {e \in Range(corpus.cases) : dims \subseteq DOMAIN e.scope}} :
               dims \in effective}

WholeCorpus == <<>>

-----------------------------------------------------------------------------
(* compareCase: a case the run does not report on counts as unflagged.      *)
OutcomesOf(c) == {o \in Range(run.outcomes) : o.case = c.id}
Flagged(c) == \E o \in OutcomesOf(c) : o.flagged
EvaluatorCategories(c) == UNION {o.categories : o \in OutcomesOf(c)}

CaseVerdict(c) ==
  IF c.defective THEN (IF Flagged(c) THEN "truePositive" ELSE "falseNegative")
  ELSE IF Flagged(c) THEN "falsePositive" ELSE "trueNegative"

CategoryMismatch(c) ==
  /\ CaseVerdict(c) = "truePositive"
  /\ c.categories # {} /\ EvaluatorCategories(c) # {} /\ c.categories \cap EvaluatorCategories(c) = {}

SiteMetricsMeasurable(c) ==
  IF \E o \in OutcomesOf(c) : o.measurable # Unstated
  THEN \E o \in OutcomesOf(c) : o.measurable = TRUE
  ELSE ~ (Flagged(c) /\ EvaluatorCategories(c) = {})

CorrectionClass(c) == IF c.correction = Unstated THEN policy.defaultCorrection ELSE c.correction

(* compareRun throws over an outcome for a case that is not there, and over *)
(* a severity or a correction class without a weight.                       *)
Comparable ==
  /\ {o.case : o \in Range(run.outcomes)} \subseteq {c.id : c \in Range(corpus.cases)}
  /\ \A c \in Range(corpus.cases) :
       /\ c.defective => c.severity \in DOMAIN policy.severityWeights
       /\ CaseVerdict(c) = "falsePositive" => CorrectionClass(c) \in DOMAIN policy.harmWeights

Matching(selector) == {c \in Range(corpus.cases) : ScopeMatches(c.scope, selector)}

Total(weights) == FoldFunction(+, 0, weights)

(* summarise: what is counted in a slice.                                   *)
Summarise(selector) ==
  LET cases == Matching(selector)
      of(v) == {c \in cases : CaseVerdict(c) = v}
      weights(S) == [c \in S |-> policy.severityWeights[c.severity]]
  IN  [selector |-> selector,
       cases |-> Cardinality(cases),
       defective |-> Cardinality({c \in cases : c.defective}),
       clean |-> Cardinality({c \in cases : ~c.defective}),
       labellers |-> Cardinality({c.labelledBy : c \in cases}),
       truePositives |-> Cardinality(of("truePositive")),
       falsePositives |-> Cardinality(of("falsePositive")),
       agreed |-> Cardinality(of("truePositive") \cup of("trueNegative")),
       mismatches |-> Cardinality({c \in cases : CategoryMismatch(c)}),
       unmeasurable |-> Cardinality({c \in cases : ~SiteMetricsMeasurable(c)}),
       caughtWeight |-> Total(weights(of("truePositive"))),
       defectiveWeight |-> Total(weights({c \in cases : c.defective})),
       harm |-> Total([c \in of("falsePositive") |-> policy.harmWeights[CorrectionClass(c)]])]

-----------------------------------------------------------------------------
(* Mutant of OpenFor: a spot is matched like a case, so that one scoped to  *)
(* a dimension the slice leaves open does not count.                        *)
OpenForHeldOnly(selector) ==
  {b \in Range(registry) :
     b.evaluator = Evaluator /\ b.status = "open" /\ ScopeMatches(selector, b.scope)}

(* BlindSpotRegistry.openFor.                                               *)
OpenFor(selector) ==
  {b \in Range(registry) :
     /\ b.evaluator = Evaluator /\ b.status = "open"
     /\ \A d \in DOMAIN b.scope \cap DOMAIN selector : selector[d] = b.scope[d]}

Below(num, den, rate) == num * rate.den < rate.num * den

(* A rate over nothing is a reason against a slice, never a pass.           *)
Unmeasurable(m) == m.defective = 0 \/ m.defectiveWeight = 0 \/ m.clean = 0

(* assessSlice: every reason a slice does not clear the bar.                *)
Shortfalls(m) ==
  (IF m.cases < policy.minCases THEN {"insufficient_cases"} ELSE {})
  \cup (IF m.defective < policy.minDefective THEN {"insufficient_defective_cases"} ELSE {})
  \cup (IF m.clean < policy.minClean THEN {"insufficient_clean_cases"} ELSE {})
  \cup (IF m.labellers < policy.minLabellers THEN {"insufficient_labellers"} ELSE {})
  \cup (IF Unmeasurable(m) THEN {"unmeasurable"} ELSE {})
  \cup (IF Below(m.truePositives, m.defective, policy.minRecall) THEN {"recall_below_threshold"} ELSE {})
  \cup (IF Below(m.caughtWeight, m.defectiveWeight, policy.minWeightedRecall)
        THEN {"severity_weighted_recall_below_threshold"} ELSE {})
  \cup (IF policy.maxFalsePositives.num * m.clean < m.falsePositives * policy.maxFalsePositives.den
        THEN {"false_positive_rate_above_threshold"} ELSE {})
  \cup (IF policy.maxHarm.num * m.clean < m.harm * policy.maxHarm.den
        THEN {"unnecessary_correction_harm_above_threshold"} ELSE {})
  \cup (IF policy.openBlindSpotDisqualifies /\ OpenFor(m.selector) # {} THEN {"open_blind_spot"} ELSE {})

(* The files parse and the run can be compared.                             *)
Assessable == ParseDefectCorpus = "parsed" /\ ParseEvaluatorRun = "parsed" /\ Comparable

(* assessPromotion.                                                         *)
Slices == {Summarise(selector) : selector \in DeriveScopeSelectors}
PromotableScopes == {m.selector : m \in {s \in Slices : Shortfalls(s) = {}}}

LessAgreed(m, n) == m.agreed * n.cases < n.agreed * m.cases

AggregateFlatters ==
  \E m \in Slices : m.cases # 0 /\ LessAgreed(m, Summarise(WholeCorpus))

IsPromotableEverywhereMeasured == Slices # {} /\ PromotableScopes = {m.selector : m \in Slices}

-----------------------------------------------------------------------------
CorpusInit ==
  /\ \E v \in Versions : corpus = [schema |-> v[1], cases |-> <<>>] /\ run = [schema |-> v[2], outcomes |-> <<>>]
  /\ registry = <<>>
  /\ policy \in {p \in Policies : PolicyValid(p)}

(* A labeller adds a case to the file.                                      *)
Label(c) ==
  /\ Len(corpus.cases) < MaxCases
  /\ corpus' = [corpus EXCEPT !.cases = Append(@, c)]
  /\ UNCHANGED <<run, registry, policy>>

(* The evaluator, elsewhere, reports on a case.                             *)
Report(o) ==
  /\ Len(run.outcomes) < MaxOutcomes
  /\ run' = [run EXCEPT !.outcomes = Append(@, o)]
  /\ UNCHANGED <<corpus, registry, policy>>

(* BlindSpotRegistry.record: an id is registered once.                      *)
RecordSpot(b) ==
  /\ \A i \in DOMAIN registry : registry[i].id # b.id
  /\ registry' = Append(registry, b)
  /\ UNCHANGED <<corpus, run, policy>>

CorpusNext ==
  \/ \E c \in CaseRecords : Label(c)
  \/ \E o \in OutcomeRecords : Report(o)
  \/ \E b \in SpotRecords : RecordSpot(b)

CorpusSpec == CorpusInit /\ [][CorpusNext]_corpusVars

-----------------------------------------------------------------------------
(* An evaluator is promoted only where it was seen at work (promotion.ts):  *)
(* in a scope that clears a bar asking for any recall and not allowing      *)
(* every flag, however low its counts, it caught a defect a human had       *)
(* labelled and let pass something a human had called clean.                *)
PromotionIsEarned ==
  Assessable /\ policy.minRecall.num > 0 /\ policy.maxFalsePositives.num < policy.maxFalsePositives.den =>
    \A selector \in PromotableScopes :
      /\ \E c \in Range(corpus.cases) : ScopeMatches(c.scope, selector) /\ c.defective /\ Flagged(c)
      /\ \E c \in Range(corpus.cases) : ScopeMatches(c.scope, selector) /\ ~c.defective /\ ~Flagged(c)

(* An open blind spot is evidence the corpus cannot give (blindspots.ts):   *)
(* no promoted scope has a case that lies in an open spot of the evaluator, *)
(* whichever dimensions the scope and the spot hold fixed.                  *)
BlindSpotsHold ==
  Assessable /\ policy.openBlindSpotDisqualifies =>
    \A selector \in PromotableScopes : \A b \in Range(registry) : \A c \in Matching(selector) :
      ~ (b.evaluator = Evaluator /\ b.status = "open" /\ ScopeMatches(c.scope, b.scope))

(* The whole-corpus figure misleads nobody unwarned (metrics.ts, report.ts): *)
(* where every case declares a dimension that is sliced alone and no        *)
(* warning is given, all its slices agree with the labels to the degree the *)
(* whole corpus does.                                                       *)
NoSilentFlattery ==
  Assessable /\ ~AggregateFlatters =>
    \A d \in ObservedDimensions :
      (Groupings = ByDimension /\ \A c \in Range(corpus.cases) : d \in DOMAIN c.scope) =>
        \A m \in {s \in Slices : DOMAIN s.selector = {d}} :
          m.agreed * Summarise(WholeCorpus).cases = Summarise(WholeCorpus).agreed * m.cases

(* An evaluator is promoted on evidence that reaches where it is promoted,  *)
(* and the figures it is judged by mislead nobody unwarned.                 *)
PromotionIsWarranted == PromotionIsEarned /\ BlindSpotsHold /\ NoSilentFlattery
=============================================================================
