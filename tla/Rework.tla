------------------------------- MODULE Rework -------------------------------
(***************************************************************************)
(* A bounded rework loop: an evaluating stage judges a candidate, a         *)
(* declared policy says what a repair may be asked to fix and how often,    *)
(* and rounds are read off the attempts both stages left on record          *)
(* (aldus-services: rework.ts, rework-rounds.ts, reworkStatus; the          *)
(* classification of an evaluator's observations is the stage runner's).    *)
(*                                                                         *)
(* Nothing in the code carries a policy out.  Here somebody acts on the     *)
(* decision: a repair is run when a round is asked for and on the artifact  *)
(* it names, while evaluations are run, taken over and finish at any time.  *)
(* reworkStatus leaves the approvals decideRework looks at out; that what    *)
(* the gate approved is passed is the same somebody's doing.                *)
(*                                                                         *)
(* An observation is a record [class, kind]; a report is a sequence of      *)
(* them, or Unrecorded when the stage returned a value and no evaluation.   *)
(***************************************************************************)
EXTENDS SequencesExt, FiniteSetsExt

CONSTANTS
  Digest,        \* artifacts of the candidate kind
  First,         \* the one the loop starts from
  Declarations,  \* sets of channels an evaluating stage may be declared with
  Reports,
  Unrecorded,
  ReworkPolicies, NoPolicy,
  MaxEvaluations, MaxRepairs

ASSUME ReworkAssumption ==
  NoPolicy \notin ReworkPolicies /\ \A p \in ReworkPolicies : p.maxRounds \in Nat

VARIABLES
  channels,  \* what the evaluating stage declares
  rule,      \* the policy in force, or NoPolicy
  evals,     \* attempts of the evaluating stage, in record order
  repairs,   \* attempts of the repair stage, in record order
  approved   \* artifacts the escalation gate approved continuing from

reworkVars == <<channels, rule, evals, repairs, approved>>

-----------------------------------------------------------------------------
(* validateQualityClaim finds nothing, and register accepts the channels.   *)
SoundClaim(ch) ==
  /\ ch.level = "model_assisted" /\ ch.enforcement = "blocking" => ch.promoted # "no"
  /\ ~ (ch.level = "advisory_signal" /\ ch.enforcement = "blocking")
  /\ ch.promoted \in {"no", "yes"}

Declarable(declared) ==
  /\ declared # {}
  /\ \A a, b \in declared : a.class = b.class => a = b
  /\ \A ch \in declared : SoundClaim(ch)

Channel(class) == {ch \in channels : ch.class = class}

(* Each observation has a channel, and is of the kind the channel declares. *)
Acceptable(report) ==
  \A o \in Range(report) : \E ch \in Channel(o.class) : ch.evidence = o.kind

BlockingClasses(report) ==
  {o.class : o \in {x \in Range(report) : \E ch \in Channel(x.class) : ch.enforcement = "blocking"}}

(* countEvaluationEvidence: one report among them, and there is no count.   *)
CountOf(report) ==
  IF \E o \in Range(report) : o.kind = "report" THEN Unrecorded ELSE Len(report)

(* How the attempt e settles: a blocking observation fails it, and so does  *)
(* one that no channel accepts, which leaves nothing on record.             *)
SettledAs(e, report) ==
  IF report = Unrecorded THEN [e EXCEPT !.status = "succeeded"]
  ELSE IF ~Acceptable(report) THEN [e EXCEPT !.status = "failed"]
  ELSE [e EXCEPT !.status = IF BlockingClasses(report) = {} THEN "succeeded" ELSE "failed",
                 !.observed = {o.class : o \in Range(report)},
                 !.count = CountOf(report)]

BlockingOnRecord(e) ==
  {c \in e.observed : \E ch \in Channel(c) : ch.enforcement = "blocking"}

-----------------------------------------------------------------------------
(* onlyOfKind: zero and several are the same answer.                        *)
Only(artifacts) == Cardinality(artifacts) = 1
TheOnly(artifacts) == CHOOSE a \in artifacts : TRUE

(* Mutant of JudgedBy: the newest evaluation is taken for the one that      *)
(* opened the round.                                                        *)
JudgedByNewest(digest) ==
  SelectLastInSeq(evals, LAMBDA e : e.status = "succeeded" /\ digest \in e.inputs)

(* judgedBy and latestJudged: where in evals, or 0.                         *)
JudgedBy(digest) ==
  SelectInSeq(evals, LAMBDA e : e.status = "succeeded" /\ digest \in e.inputs)
LatestJudged == SelectLastInSeq(evals, LAMBDA e : e.status = "succeeded" /\ Only(e.inputs))

(* runningEvaluation: the newest attempt recorded as running.               *)
RunningEvaluation == SelectLastInSeq(evals, LAMBDA e : e.status = "running")

Refusal(repair) ==
  IF repair.status # "succeeded" THEN "repair_unsuccessful"
  ELSE IF ~Only(repair.inputs) THEN "candidate_input_ambiguous"
  ELSE IF ~Only(repair.outputs) THEN "candidate_output_ambiguous"
  ELSE IF JudgedBy(TheOnly(repair.inputs)) = 0 THEN "no_evaluation_judged_this_candidate"
  ELSE IF evals[JudgedBy(TheOnly(repair.inputs))].observed = Unrecorded
       THEN "consumed_classes_unrecorded"
  ELSE "none"

(* deriveReworkRounds: the rounds; a round's index is its place.            *)
RoundOf(repair) ==
  LET opened == evals[JudgedBy(TheOnly(repair.inputs))]
  IN  [input    |-> TheOnly(repair.inputs),
       consumed |-> opened.observed \cap rule.covers,
       count    |-> opened.count,
       output   |-> TheOnly(repair.outputs)]

Rounds ==
  LET read[n \in 0 .. Len(repairs)] ==
        IF n = 0 THEN <<>>
        ELSE IF rule # NoPolicy /\ Refusal(repairs[n]) = "none"
        THEN Append(read[n - 1], RoundOf(repairs[n])) ELSE read[n - 1]
  IN  read[Len(repairs)]

-----------------------------------------------------------------------------
(* The verdict reworkStatus reads off the record.                           *)
NothingJudged == [kind |-> "none"]

Verdict ==
  IF RunningEvaluation # 0 THEN
    (LET e == evals[RunningEvaluation]
     IN  IF Only(e.inputs) THEN [kind |-> "attempt_running", digest |-> TheOnly(e.inputs)]
         ELSE NothingJudged)
  ELSE IF LatestJudged = 0 THEN NothingJudged
  ELSE LET e == evals[LatestJudged]
       IN  IF e.observed = Unrecorded THEN [kind |-> "not_evaluated", digest |-> TheOnly(e.inputs)]
           ELSE [kind |-> "evaluated", digest |-> TheOnly(e.inputs), observed |-> e.observed,
                 blocking |-> BlockingOnRecord(e), count |-> e.count]

Escalate(reason, digest) == [kind |-> "escalate", reason |-> reason, digest |-> digest]

Worse(verdict, rounds) ==
  /\ rounds # <<>>
  /\ verdict.count # Unrecorded /\ Last(rounds).count # Unrecorded
  /\ verdict.count > Last(rounds).count

Returns(verdict, rounds) == \E round \in Range(rounds) : round.input = verdict.digest

(* Mutant of Spent: one round more than was authorised.                     *)
SpentAndMore(rounds) == Len(rounds) > rule.maxRounds

Spent(rounds) == Len(rounds) >= rule.maxRounds

(* Mutant of Stop: a candidate that was repaired before may be again.       *)
StopUnlessReturned(verdict, rounds) ==
  IF Worse(verdict, rounds) THEN "regression"
  ELSE IF Spent(rounds) THEN "bounds_exhausted"
  ELSE "none"

(* What stops a loop that has work left, unless an approval clears it.      *)
Stop(verdict, rounds) ==
  IF Worse(verdict, rounds) THEN "regression"
  ELSE IF Returns(verdict, rounds) THEN "oscillation"
  ELSE IF Spent(rounds) THEN "bounds_exhausted"
  ELSE "none"

Clean(verdict) ==
  /\ verdict.blocking = {}
  /\ rule # NoPolicy => verdict.observed \cap rule.covers = {}

(* decideRework, with the approvals its caller passes on.                   *)
DecideRework(verdict, rounds, continuing) ==
  CASE verdict.kind = "none"            -> [kind |-> "unavailable"]
    [] verdict.kind = "attempt_running" -> [kind |-> "reconciliation_required", digest |-> verdict.digest]
    [] verdict.kind = "not_evaluated"   -> Escalate("no_evaluation", verdict.digest)
    [] OTHER ->
         IF Clean(verdict) THEN [kind |-> "converged", digest |-> verdict.digest]
         ELSE IF rule = NoPolicy THEN Escalate("no_policy", verdict.digest)
         ELSE IF ~ verdict.blocking \subseteq rule.covers THEN Escalate("unknown_finding_class", verdict.digest)
         ELSE IF verdict.digest \notin continuing /\ Stop(verdict, rounds) # "none"
              THEN Escalate(Stop(verdict, rounds), verdict.digest)
         ELSE [kind |-> "rework", digest |-> verdict.digest, consume |-> verdict.observed \cap rule.covers]

Decision == DecideRework(Verdict, Rounds, approved)

-----------------------------------------------------------------------------
ReworkInit ==
  /\ channels \in {d \in Declarations : Declarable(d)}
  /\ rule \in ReworkPolicies \cup {NoPolicy}
  /\ evals = <<>> /\ repairs = <<>> /\ approved = {}

Known == {First} \cup UNION {r.outputs : r \in Range(repairs)}

(* The evaluating stage is run.  While its newest attempt is running this   *)
(* takes --force, and the attempt taken over stays on record as running.    *)
StartEvaluation(inputs) ==
  /\ Len(evals) < MaxEvaluations
  /\ evals' = Append(evals, [status |-> "running", inputs |-> inputs,
                             observed |-> Unrecorded, count |-> Unrecorded])
  /\ UNCHANGED <<channels, rule, repairs, approved>>

(* It reports, or fails without having judged.                              *)
FinishEvaluation(i, report) ==
  /\ evals[i].status = "running"
  /\ evals' = [evals EXCEPT ![i] = SettledAs(@, report)]
  /\ UNCHANGED <<channels, rule, repairs, approved>>

FailEvaluation(i) ==
  /\ evals[i].status = "running"
  /\ evals' = [evals EXCEPT ![i].status = "failed"]
  /\ UNCHANGED <<channels, rule, repairs, approved>>

(* A round is asked for, and the repair is run on the artifact it names: it *)
(* produces one candidate, two, or fails.                                   *)
Repair(status, outputs) ==
  /\ Len(repairs) < MaxRepairs
  /\ LET asked == Decision
     IN  /\ asked.kind = "rework"
         /\ repairs' = Append(repairs, [status |-> status, inputs |-> {asked.digest}, outputs |-> outputs])
  /\ UNCHANGED <<channels, rule, evals, approved>>

(* Somebody decides at the gate to continue from the artifact it stopped on. *)
ApproveContinuing ==
  /\ LET stopped == Decision
     IN  stopped.kind = "escalate" /\ stopped.digest \notin approved /\ approved' = approved \cup {stopped.digest}
  /\ UNCHANGED <<channels, rule, evals, repairs>>

ReworkNext ==
  \/ \E inputs \in (SUBSET Known) \ {{}} : StartEvaluation(inputs)
  \/ \E i \in DOMAIN evals :
       FailEvaluation(i) \/ \E report \in Reports \cup {Unrecorded} : FinishEvaluation(i, report)
  \/ Repair("failed", {})
  \/ \E outputs \in (SUBSET Digest) \ {{}} : Repair("succeeded", outputs)
  \/ ApproveContinuing

ReworkSpec == ReworkInit /\ [][ReworkNext]_reworkVars

-----------------------------------------------------------------------------
(* The bound is compared with the number of rounds, which is derived, so the  *)
(* record must never be read as fewer or other rounds than before            *)
(* (rework-rounds.ts: "a process with no memory of the previous ones        *)
(* derives the same numbers from the same records"): whatever is evaluated  *)
(* again, taken over or refused later, a round once established keeps its   *)
(* number, its input, the classes it consumed and its count.                *)
RoundsEndure ==
  LET before == Rounds after == Rounds'
  IN  Len(before) <= Len(after) /\ SubSeq(after, 1, Len(before)) = before

Licensed ==
  LET rounds == Rounds
  IN  \A i \in DOMAIN rounds :
        \/ rounds[i].input \in approved
        \/ i <= rule.maxRounds /\ \A j \in 1 .. i - 1 : rounds[j].input # rounds[i].input

(* A loop that nobody overrules stays within what was authorised in advance *)
(* and never repairs the same artifact twice, although the decision looks   *)
(* at the newest evaluation and the rounds at the first of each candidate   *)
(* (decideRework, deriveReworkRounds); and its rounds stay what they were.   *)
RoundsAreLicensed == [][RoundsEndure /\ Licensed']_reworkVars
=============================================================================
