------------------------------ MODULE Workflow ------------------------------
(***************************************************************************)
(* A Run seen from the services layer (packages/aldus-services): what the   *)
(* workflow graph and the stage definitions say of a stage, the plan that   *)
(* `status` prints from gates, stages and money (nextaction.ts), the state  *)
(* derived for the Run (runstate.ts), and the verbs an operator has:        *)
(* runStage and retryStage, the gate decisions, settleSpend and cancelRun.  *)
(*                                                                         *)
(* Several operators work at once.  runStage reads the gates, then the      *)
(* stages, then lets the runner claim; what it read may be out of date by   *)
(* then.  The runner's own steps are taken apart in StageRunner.tla and are *)
(* one claim and one outcome here; the gates are those of GateEngine.tla.   *)
(***************************************************************************)
EXTENDS GateEngine, SequencesExt

CONSTANTS
  Stage,           \* stage ids in the registry
  Candidates,      \* workflow graphs an adopter might supply
  DefinitionGates, \* DefinitionGates[st]: gates the stage's definition requires
  Requests,        \* what startRun may be asked for as goalStages
  Default,         \* the request that names no goals
  Produces,        \* Produces[st]: the subject keys the stage writes
  Asks,            \* Asks[st]: gates the stage's body stops at until they pass
  Paid,            \* stages that dispatch paid work
  Session,         \* operators' processes
  None,
  MaxTrouble       \* edits, failures, refusals, crashes and detours per behaviour

ASSUME WorkflowAssumption ==
  /\ Produces \in [Stage -> SUBSET Key] /\ Asks \in [Stage -> SUBSET Gate]
  /\ Paid \subseteq Stage /\ MaxTrouble \in Nat /\ Default \in Requests
  /\ None \notin Stage /\ \A g \in Gate : "approved" \in Verdicts[g]

VARIABLES
  graph,      \* the workflow graph of this context, a sequence of nodes
  goals,      \* RunManifest.goalStages
  cancelled,  \* RunManifest.cancellation: who abandoned the Run, or None
  stages,     \* stages[st]: status, the gate it halted at, whether to retry
  unresolved, \* reservations whose charge needs reconciling
  session,    \* what each operator's process is doing
  report,     \* what `status` prints of all this
  past,       \* what has stood at some moment since each operator asked
  trouble     \* troubles so far

vars == <<gates, graph, goals, cancelled, stages, unresolved, session, report, past, trouble>>

-----------------------------------------------------------------------------
(* The graph: nodes [stage, after, declares, requires]; declares says       *)
(* whether the node states requiredGates at all.                            *)
NodeIds(g) == {g[i].stage : i \in DOMAIN g}
Node(g, st) == g[CHOOSE i \in DOMAIN g : g[i].stage = st /\ \A j \in 1 .. i - 1 : g[j].stage # st]

PredecessorsOf(st, g) == IF st \in NodeIds(g) THEN Node(g, st).after ELSE {}

HasEdges(g) == \E i \in DOMAIN g : g[i].after # {}

TerminalStagesOf(g) ==
  IF HasEdges(g) THEN NodeIds(g) \ UNION {g[i].after : i \in DOMAIN g} ELSE {}

(* findCycle: a set of nodes each of which waits on another of the set.     *)
FindCycle(g) ==
  \E C \in SUBSET NodeIds(g) : C # {} /\ \A st \in C : PredecessorsOf(st, g) \cap C # {}

(* Mutant of ValidateWorkflowGraph: cycles are not looked for.              *)
ValidateShallow(g) ==
  {"duplicate-stage" : p \in {i \in DOMAIN g : \E j \in DOMAIN g \ {i} : g[i].stage = g[j].stage}}
  \cup {"self-edge" : p \in {i \in DOMAIN g : g[i].stage \in g[i].after}}
  \cup {"unknown-stage" : p \in {i \in DOMAIN g : ~ g[i].after \subseteq NodeIds(g)}}

ValidateWorkflowGraph(g) ==
  {"duplicate-stage" : p \in {i \in DOMAIN g : \E j \in DOMAIN g \ {i} : g[i].stage = g[j].stage}}
  \cup {"self-edge" : p \in {i \in DOMAIN g : g[i].stage \in g[i].after}}
  \cup {"unknown-stage" : p \in {i \in DOMAIN g : ~ g[i].after \subseteq NodeIds(g)}}
  \cup {"cycle" : p \in {q \in {g} : FindCycle(q)}}

(* resolveRequiredGates: the graph's node first, then the definition.       *)
RequiredGatesFor(st, g) ==
  IF st \in NodeIds(g) /\ Node(g, st).declares
  THEN [declared |-> TRUE, gates |-> Node(g, st).requires]
  ELSE DefinitionGates[st]

(* #resolveGoalStages: a request must name stages of the graph; without one *)
(* the terminals are meant, or every stage when there are no edges.         *)
GoalsFor(request, g) ==
  IF request # Default THEN request
  ELSE IF TerminalStagesOf(g) # {} THEN TerminalStagesOf(g) ELSE NodeIds(g)

-----------------------------------------------------------------------------
(* What is read of the gates: GateEngine.evaluate, one status per gate.     *)
GateStatuses(blocking) ==
  [g \in Gate |->
    [state |-> StateBehind(g, blocking),
     blocking |-> g \in blocking,
     missing |-> IF OwnState(g) = "pending" THEN {k \in Binds[g] : content[k] = Missing} ELSE {},
     blockedBy |-> DependsOn[g] \cap blocking]]

GateIsSettled(state) == state \in {"satisfied", "waived"}

Outstanding(st) ==
  {p \in PredecessorsOf(st, graph) : p \notin Stage \/ stages[p].status # "succeeded"}

NoBlocker == [kind |-> "none", gate |-> None, enforced |-> FALSE]

OrderingBlocker(st) ==
  IF Outstanding(st) = {} THEN NoBlocker
  ELSE [kind |-> "ordering", gate |-> None, enforced |-> TRUE]

(* blockerFor: an undeclared stage is held, in word only, by any blocking   *)
(* gate; a declared one by the first of its gates that is unregistered or   *)
(* blocking.                                                                *)
GateBlocker(st, blocking) ==
  LET required == RequiredGatesFor(st, graph)
      order    == IF required.declared THEN required.gates ELSE Registry
      Clear(i) == order[i] \in Gate \ blocking
      first    == CHOOSE i \in DOMAIN order : ~Clear(i) /\ \A j \in 1 .. i - 1 : Clear(j)
  IN  IF \A i \in DOMAIN order : Clear(i) THEN NoBlocker
      ELSE [kind |-> "gate", gate |-> order[first], enforced |-> required.declared]

(* What decideActions consults for display: ordering first, then gates.     *)
Blocker(st, blocking) ==
  IF OrderingBlocker(st) # NoBlocker THEN OrderingBlocker(st) ELSE GateBlocker(st, blocking)

(* Mutant of EnforcedBlockerFor: predecessors are not looked at.            *)
EnforcedBlockerGatesOnly(st, blocking) == GateBlocker(st, blocking).enforced

(* enforcedBlockerFor: what runStage refuses on.                            *)
EnforcedBlockerFor(st, blocking) == Blocker(st, blocking).enforced

-----------------------------------------------------------------------------
(* decideActions, loop by loop, over the gates' statuses and what holds each *)
(* stage.                                                                   *)
PolicyInput(blocking) ==
  [gates |-> GateStatuses(blocking), held |-> [st \in Stage |-> Blocker(st, blocking)]]

Action(kind, about, priority) == [kind |-> kind, about |-> about, priority |-> priority]
Withheld(kind, about, gate, enforced) ==
  [kind |-> kind, about |-> about, gate |-> gate, enforced |-> enforced]

(* 1. Approvals that drifted.                                               *)
StaleGates(v) == {g \in Gate : v.gates[g].state = "stale"}

(* 2. Stages halted at a gate: released once the gate is settled.           *)
Parked == {st \in Stage : stages[st].status = "waiting_for_gate"}

ReleasedParks(v) ==
  {st \in Parked : stages[st].gate \in Gate /\ GateIsSettled(v.gates[stages[st].gate].state)}

HaltedGates == {stages[st].gate : st \in Parked}

HaltedDecidable(v) ==
  {st \in Parked \ ReleasedParks(v) :
     v.gates[stages[st].gate].state \in {"pending", "changes_requested"}}

HaltedUpstream(v) ==
  {st \in Parked \ ReleasedParks(v) : v.gates[stages[st].gate].state = "blocked_upstream"}

(* 3. Failed stages.                                                        *)
FailedStages == {st \in Stage : stages[st].status = "failed"}

(* Mutant of Retries: a failure is offered again whatever stands before it. *)
RetriesAnyway(v) == {st \in FailedStages : stages[st].retryable}

Retries(v) ==
  {st \in FailedStages : stages[st].retryable /\ ~v.held[st].enforced}

(* 4. Stages that could run.                                                *)
Ready(v) ==
  {st \in Stage : stages[st].status \in {"never_run", "queued"}} \cup ReleasedParks(v)

Unblocked(v) == {st \in Ready(v) : v.held[st] = NoBlocker}

RunOffers(v) == IF unresolved = 0 THEN Unblocked(v) ELSE {}

(* 5. The gates that hold a stage, walked up to what can be decided.        *)
StandingInTheWay(v) ==
  {v.held[st].gate : st \in Ready(v)} \cap Gate

DecidableRoots(start, v) ==
  LET up[n \in 0 .. Cardinality(Gate)] ==
        IF n = 0 THEN start
        ELSE up[n - 1] \cup UNION {v.gates[g].blockedBy : g \in {u \in up[n - 1] :
                                                            v.gates[u].state = "blocked_upstream"}}
  IN  {g \in Gate \cap up[Cardinality(Gate)] : v.gates[g].state # "blocked_upstream"}

UrgedByLoops1To4(v) ==
  {g \in StaleGates(v) : v.gates[g].blocking} \cup {stages[st].gate : st \in HaltedDecidable(v)}
                                        \cup {stages[st].gate : st \in RunOffers(v) \cap ReleasedParks(v)}

RootsAtHand(v) ==
  {g \in DecidableRoots(StandingInTheWay(v), v) \ UrgedByLoops1To4(v) :
     v.gates[g].state \in {"pending", "changes_requested"}}

RootsDecidable(v) == {g \in RootsAtHand(v) : v.gates[g].missing = {}}

(* 6. Gates nobody has authorized anything by.                              *)
Unauthorizing(v) == {g \in Gate \ HaltedGates : v.gates[g].state \notin {"satisfied", "stale"}}

NextActions(v) ==
  {Action("approve-gate", g, 10) : g \in {h \in StaleGates(v) : v.gates[h].blocking}}
  \cup {Action("approve-gate", stages[st].gate, 20) : st \in HaltedDecidable(v)}
  \cup {Action("retry-stage", st, 30) : st \in Retries(v)}
  \cup {Action("run-stage", st, 40) : st \in RunOffers(v)}
  \cup {Action("approve-gate", g, 20) : g \in RootsDecidable(v)}

Blocked(v) ==
  {Withheld("approve-gate", g, g, FALSE) : g \in {h \in StaleGates(v) : ~v.gates[h].blocking}}
  \cup {Withheld("approve-gate", st, stages[st].gate, FALSE) : st \in HaltedUpstream(v)}
  \cup {Withheld("retry-stage", st, v.held[st].gate, v.held[st].enforced) :
          st \in FailedStages \ Retries(v)}
  \cup {Withheld("run-stage", st, None, FALSE) : st \in {s \in Stage : stages[s].status = "running"}}
  \cup {Withheld("run-stage", st, v.held[st].gate, v.held[st].enforced) :
          st \in Ready(v) \ Unblocked(v)}
  \cup {Withheld("run-stage", st, None, TRUE) : st \in Unblocked(v) \ RunOffers(v)}
  \cup {Withheld("approve-gate", g, g, FALSE) : g \in RootsAtHand(v) \ RootsDecidable(v)}
  \cup {Withheld("gate-not-satisfied", g, g, FALSE) : g \in Unauthorizing(v)}

-----------------------------------------------------------------------------
(* deriveRunState.                                                          *)
DeriveRunState(v) ==
  LET inFlight == {st \in Stage : stages[st].status \in {"running", "queued"}}
  IN  IF cancelled # None THEN "cancelled"
      ELSE IF inFlight # {} THEN "running"
      ELSE IF Parked \ ReleasedParks(v) # {} THEN "waiting"
      ELSE IF goals # {} /\ \A st \in goals : st \in Stage /\ stages[st].status = "succeeded"
           THEN "completed"
      ELSE IF FailedStages # {} THEN "failed"
      ELSE IF \E st \in Stage : stages[st].status # "never_run" THEN "running" ELSE "created"

(* #runReport; a cancelled Run has no plan.                                 *)
RunReport(v) ==
  [status  |-> DeriveRunState(v),
   gates   |-> v.gates,
   next    |-> IF cancelled # None THEN {} ELSE NextActions(v),
   blocked |-> IF cancelled # None THEN {} ELSE Blocked(v)]

-----------------------------------------------------------------------------
Idle == [pc |-> "idle", stage |-> None, force |-> FALSE, blocking |-> {}]

NeverRun == [status |-> "never_run", gate |-> None, retryable |-> FALSE]

Settle(st, status, gate, retryable) ==
  stages' = [stages EXCEPT ![st] = [status |-> status, gate |-> gate, retryable |-> retryable]]

Blocking == {g \in Gate : report.gates[g].blocking}

Nothing == [stages |-> {}, gates |-> {}]

Trouble == trouble < MaxTrouble /\ trouble' = trouble + 1

Succeeded == {st \in Stage : stages[st].status = "succeeded"}

Live(st) == \E s \in Session : session[s].pc = "running" /\ session[s].stage = st

(* A running stage whose session is gone.                                   *)
Orphaned(st) == stages[st].status = "running" /\ ~Live(st)

(* A run or retry the plan offers, or reports without enforcing: what stops *)
(* it is a guess, a cause to be fixed, or a claim that needs --force.       *)
Advised(st) ==
  \/ \E a \in report.next : a.kind \in {"run-stage", "retry-stage"} /\ a.about = st
  \/ /\ \E b \in report.blocked :
          b.kind \in {"run-stage", "retry-stage"} /\ b.about = st /\ ~b.enforced
     /\ ~Live(st)

(* runStage and retryStage: #policyInput reads the gates first.  --force is *)
(* given for a stage whose session is known to be gone.                     *)
RunStage(s, st) ==
  /\ session[s] = Idle
  /\ IF Advised(st) /\ \A other \in Session : session[other] = Idle
     THEN UNCHANGED trouble ELSE Trouble
  /\ session' = [session EXCEPT ![s] = [pc |-> "asking", stage |-> st, force |-> Orphaned(st),
                                        blocking |-> Blocking]]
  /\ UNCHANGED <<gates, graph, goals, cancelled, stages, unresolved>>

(* Then it reads the stages, and refuses or goes on to the runner.          *)
CheckStage(s) ==
  /\ session[s].pc = "asking"
  /\ session' = [session EXCEPT ![s] =
                   IF EnforcedBlockerFor(session[s].stage, session[s].blocking) THEN Idle
                   ELSE [@ EXCEPT !.pc = "cleared", !.blocking = {}]]
  /\ UNCHANGED <<gates, graph, goals, cancelled, stages, unresolved, trouble>>

(* #assertClaimable with context.ts's gateHasDecision: any decision counts. *)
Claimable(st, force) ==
  CASE stages[st].status = "waiting_for_gate" -> latest[stages[st].gate].verdict # "none"
    [] stages[st].status = "running" -> force
    [] OTHER -> TRUE

Claim(s) ==
  LET st == session[s].stage
  IN  /\ session[s].pc = "cleared"
      /\ IF Claimable(st, session[s].force)
         THEN /\ Settle(st, "running", None, FALSE)
              /\ session' = [session EXCEPT ![s].pc = "running"]
         ELSE session' = [session EXCEPT ![s] = Idle] /\ UNCHANGED stages
      /\ UNCHANGED <<gates, graph, goals, cancelled, unresolved, trouble>>

(* What an attempt leaves of the subjects it produces: a rewrite of one     *)
(* that exists is a trouble for whoever approved it.                        *)
Write(st) ==
  /\ \E value \in [Produces[st] -> UNION {Values[k] : k \in Key}] :
       /\ \A k \in Produces[st] : value[k] \in Values[k]
       /\ content' = [k \in Key |-> IF k \in Produces[st] THEN value[k] ELSE content[k]]
  /\ IF \E k \in Produces[st] : content[k] \notin {Missing, content'[k]}
     THEN Trouble ELSE UNCHANGED trouble
  /\ UNCHANGED latest

Running(s, st) == session[s].pc = "running" /\ session[s].stage = st

Succeed(s, st) ==
  /\ Running(s, st) /\ \A g \in Asks[st] : report.gates[g].state \in Passing
  /\ st \in Paid => unresolved = 0
  /\ Write(st) /\ Settle(st, "succeeded", None, FALSE)
  /\ session' = [session EXCEPT ![s] = Idle]
  /\ UNCHANGED <<graph, goals, cancelled, unresolved>>

HaltAtGate(s, st) ==
  /\ Running(s, st)
  /\ \E g \in Asks[st] : report.gates[g].state \notin Passing /\ Settle(st, "waiting_for_gate", g, FALSE)
  /\ Write(st) /\ session' = [session EXCEPT ![s] = Idle]
  /\ UNCHANGED <<graph, goals, cancelled, unresolved>>

(* A failure, which may leave a charge nobody can account for.              *)
Fail(s, st) ==
  /\ Running(s, st) /\ Trouble
  /\ \E retryable \in BOOLEAN : Settle(st, "failed", None, retryable)
  /\ \E charge \in {0} \cup {1 : p \in {st} \cap Paid} : unresolved' = unresolved + charge
  /\ session' = [session EXCEPT ![s] = Idle]
  /\ UNCHANGED <<gates, graph, goals, cancelled>>

(* A paid dispatch is refused while a charge is unresolved.                 *)
DispatchRefused(s, st) ==
  /\ Running(s, st) /\ st \in Paid /\ unresolved > 0
  /\ Settle(st, "failed", None, FALSE)
  /\ session' = [session EXCEPT ![s] = Idle]
  /\ UNCHANGED <<gates, graph, goals, cancelled, unresolved, trouble>>

(* The attempt is aborted by its signal, or its process dies.               *)
Abort(s, st) ==
  /\ Running(s, st) /\ Trouble /\ Settle(st, "cancelled", None, FALSE)
  /\ session' = [session EXCEPT ![s] = Idle]
  /\ UNCHANGED <<gates, graph, goals, cancelled, unresolved>>

Crash(s) ==
  /\ session[s].pc = "running" /\ Trouble
  /\ session' = [session EXCEPT ![s] = Idle]
  /\ UNCHANGED <<gates, graph, goals, cancelled, stages, unresolved>>

(* approve, reject, requestChanges and waive, through GateEngine.decide.    *)
Approve(g) ==
  /\ \E a \in report.next : a.kind = "approve-gate" /\ a.about = g
  /\ Decide(g, "human", "approved", TRUE)
  /\ UNCHANGED <<graph, goals, cancelled, stages, unresolved, session, trouble>>

OtherDecision(g) ==
  /\ \E kind \in ActorKind, verdict \in Verdicts[g] \ {"approved"} :
       Decide(g, kind, verdict, TRUE)
  /\ Trouble
  /\ UNCHANGED <<graph, goals, cancelled, stages, unresolved, session>>

AdopterEdits(k) ==
  /\ Edit(k) /\ Trouble
  /\ UNCHANGED <<graph, goals, cancelled, stages, unresolved, session>>

(* settleSpend resolves one charge.                                         *)
SettleSpend ==
  /\ unresolved > 0 /\ unresolved' = unresolved - 1
  /\ UNCHANGED <<gates, graph, goals, cancelled, stages, session, trouble>>

(* cancelRun reads the manifest, refuses a Run that is cancelled, and then  *)
(* records the cancellation whatever was recorded in between.               *)
CancelRun(s) ==
  /\ session[s] = Idle /\ cancelled = None /\ Trouble
  /\ session' = [session EXCEPT ![s].pc = "cancelling"]
  /\ UNCHANGED <<gates, graph, goals, cancelled, stages, unresolved>>

RecordCancellation(s) ==
  /\ session[s].pc = "cancelling"
  /\ cancelled' = s
  /\ session' = [session EXCEPT ![s] = Idle]
  /\ UNCHANGED <<gates, graph, goals, stages, unresolved, trouble>>

-----------------------------------------------------------------------------
(* AldusContext refuses a graph with a problem; startRun fixes the goals.   *)
Init ==
  /\ GateInit
  /\ graph \in {g \in Candidates : ValidateWorkflowGraph(g) = {}}
  /\ \E request \in {r \in Requests : r # Default => r \subseteq NodeIds(graph)} :
       goals = GoalsFor(request, graph)
  /\ cancelled = None
  /\ stages = [st \in Stage |-> NeverRun]
  /\ unresolved = 0
  /\ session = [s \in Session |-> Idle]
  /\ \E blocking \in {CurrentlyBlocking} :
       \E v \in {PolicyInput(blocking)} : report = RunReport(v)
  /\ past = [s \in Session |-> Nothing]
  /\ trouble = 0

Step ==
  \/ \E s \in Session, st \in Stage :
       \/ RunStage(s, st) \/ Succeed(s, st) \/ HaltAtGate(s, st)
       \/ Fail(s, st) \/ DispatchRefused(s, st) \/ Abort(s, st)
  \/ \E s \in Session :
       CheckStage(s) \/ Claim(s) \/ Crash(s) \/ CancelRun(s) \/ RecordCancellation(s)
  \/ \E g \in Gate : Approve(g) \/ OtherDecision(g)
  \/ \E k \in Key : AdopterEdits(k)
  \/ SettleSpend

(* What `status` shows after the step, and what has stood at some moment    *)
(* since a session asked to run its stage.                                  *)
Observe ==
  \E blocking \in {CurrentlyBlocking'} :
    /\ \E v \in {PolicyInput(blocking)'} : report' = RunReport(v)'
    /\ past' = [s \in Session |->
                 IF session'[s].stage = None THEN Nothing
                 ELSE [stages |-> past[s].stages \cup Succeeded',
                       gates  |-> past[s].gates \cup (Gate \ blocking)]]

Next == Step /\ Observe

(* A process goes on with what it began.                                    *)
Proceed(s) ==
  \/ CheckStage(s) \/ Claim(s) \/ RecordCancellation(s)
  \/ \E st \in Stage : Succeed(s, st) \/ HaltAtGate(s, st) \/ DispatchRefused(s, st)

(* Operators act on what the plan says, and reconcile charges.              *)
Fairness ==
  /\ \A s \in Session : WF_vars(Proceed(s) /\ Observe)
  /\ \A st \in Stage : WF_vars((\E s \in Session : Advised(st) /\ RunStage(s, st)) /\ Observe)
  /\ \A g \in Gate : WF_vars(Approve(g) /\ Observe)
  /\ WF_vars(SettleSpend /\ Observe)

Spec == Init /\ [][Next]_vars /\ Fairness

-----------------------------------------------------------------------------
TypeOK ==
  /\ GateTypeOK
  /\ graph \in Candidates /\ cancelled \in Session \cup {None}
  /\ \A st \in Stage :
       /\ stages[st].status \in {"never_run", "running", "waiting_for_gate", "failed",
                                 "succeeded", "cancelled"}
       /\ stages[st].gate \in IF stages[st].status = "waiting_for_gate" THEN Asks[st] ELSE {None}
       /\ stages[st].retryable \in BOOLEAN
  /\ unresolved \in 0 .. MaxTrouble /\ trouble \in 0 .. MaxTrouble
  /\ \A s \in Session :
       /\ session[s].pc \in {"idle", "asking", "cleared", "running", "cancelling"}
       /\ session[s].pc \in {"idle", "cancelling"} <=> session[s].stage = None
       /\ session[s].stage \in Stage \cup {None} /\ session[s].blocking \subseteq Gate

(* What `status` offers, `run` and `retry` accept: of two computations of   *)
(* the same question, over ordering, gates, a settled park and the runner's *)
(* own rule, neither is ahead of the other; and a stage reported as held by *)
(* an enforced gate or predecessor would indeed be refused (ADR-0024).      *)
OfferedIsAccepted ==
  /\ \A a \in report.next : a.kind \in {"run-stage", "retry-stage"} =>
       Claimable(a.about, FALSE) /\ ~EnforcedBlockerFor(a.about, Blocking)
  /\ \A b \in report.blocked : b.enforced /\ unresolved = 0 =>
       EnforcedBlockerFor(b.about, Blocking)

(* A first decision the plan asks for can be taken, and stays taken: the    *)
(* gate's subjects exist, so the approval is not refused, and nothing       *)
(* upstream voids it at once.  (Gates decided before, and gates a stage     *)
(* halts at, are urged without regard to either.)                           *)
OffersAreDecidable ==
  \A a \in report.next : a.kind = "approve-gate" =>
    OwnState(a.about) # "pending"
    \/ /\ DependsOn[a.about] \cap Blocking = {}
       /\ a.about \notin HaltedGates => \A k \in Binds[a.about] : content[k] # Missing

(* Of every stage that has not succeeded the plan says something, of the    *)
(* stage or of the gate it halted at, so that an operator never wonders     *)
(* why it is not offered: except an attempt that was cancelled and a park   *)
(* whose gate was rejected, of which the code says nothing.                 *)
Silent(st) ==
  \/ stages[st].status \in {"succeeded", "cancelled"}
  \/ stages[st].status = "waiting_for_gate" /\ report.gates[stages[st].gate].state = "rejected"

NothingUnspoken ==
  cancelled = None =>
    \A st \in Stage : ~Silent(st) =>
      \E a \in report.next \cup report.blocked : a.about \in {st, stages[st].gate}

(* The plan promises nothing that would be refused, and hides nothing.      *)
PlanIsHonest == OfferedIsAccepted /\ OffersAreDecidable /\ NothingUnspoken

(* A stage is started only once each predecessor had succeeded and each of  *)
(* its declared gates had stood at some moment since its operator asked,    *)
(* though other operators decide, edit, re-run and abandon meanwhile.       *)
StartedWasCleared ==
  \A s \in Session : session[s].pc \in {"cleared", "running"} =>
    LET st == session[s].stage
    IN  /\ PredecessorsOf(st, graph) \subseteq past[s].stages
        /\ RequiredGatesFor(st, graph).declared =>
             ToSet(RequiredGatesFor(st, graph).gates) \subseteq past[s].gates

(* Operators who follow the plan get the Run completed once the troubles    *)
(* are over, whatever was edited, failed, went stale or crashed: unless it  *)
(* was abandoned, somebody rejected a gate, a stage's attempt was cancelled *)
(* (of which the plan says nothing), or what a stage needs is not there.    *)
Unregistered(st) ==
  \/ ~ PredecessorsOf(st, graph) \subseteq Stage
  \/ RequiredGatesFor(st, graph).declared /\ ~ ToSet(RequiredGatesFor(st, graph).gates) \subseteq Gate

RetryHeld(st) ==
  /\ stages[st].status \in {"failed", "running"}
  /\ Outstanding(st) = {} /\ GateBlocker(st, Blocking).enforced

Stuck ==
  \/ \E g \in Gate : report.gates[g].state = "rejected"
  \/ \E st \in Stage : stages[st].status = "cancelled" \/ Unregistered(st) \/ RetryHeld(st)

PlanLeadsOn == []<>(report.status \in {"completed", "cancelled"} \/ Stuck)

(* nextaction.ts: "A gate blocking a stage whose ordering is already        *)
(* satisfied is the thing standing in the way, and deciding it is the       *)
(* operator's next action."  Only the loop over stages that never ran       *)
(* records it: a failed stage held by the same gate is reported as blocked  *)
(* ("Decide it first") and nothing offers the decision.                     *)
HeldGatesAreOffered ==
  cancelled = None =>
    \A b \in report.blocked :
      b.kind \in {"run-stage", "retry-stage"} /\ b.enforced /\ b.gate \in Gate =>
        \/ Outstanding(b.about) # {}
        \/ report.gates[b.gate].state \notin {"pending", "changes_requested"}
        \/ report.gates[b.gate].missing # {} \/ report.gates[b.gate].blockedBy # {}
        \/ \E a \in report.next : a.kind = "approve-gate" /\ a.about = b.gate
=============================================================================
