-------------------------------- MODULE Cli --------------------------------
(***************************************************************************)
(* The aldus command (packages/aldus-cli/src/cli.ts): one process parses an   *)
(* argument vector, folds the operator's config module into what its host      *)
(* injected, builds the services of one workspace and calls one verb of them;   *)
(* every end of it is an exit code (exit.ts).  The verbs whose record says       *)
(* that somebody decided, which the services pass to the gate engine, the        *)
(* spend service and the take ledger, are modelled with the rules those apply;   *)
(* of the others, that they need an actor and what may come of them.            *)
(*                                                                         *)
(* Several processes run at once and the runtime moves the reservation below    *)
(* them; a process reads its arguments and its config before it acts, and a      *)
(* settlement, an abandonment and a judgement of a take read the record before   *)
(* they write it, with nothing held in between.                                *)
(***************************************************************************)
EXTENDS Naturals, FiniteSets

CONSTANTS
  Invocation,     \* argument vectors: [command, sub, id, given, workspace, actor, decidedBy, verbatim]
  Environments,   \* what a host injects and a config module exports, [stages, takeKinds]
                  \* each, and the shell's [workspace, actor, cwd]
  PermittedKinds, \* PermittedKinds[g]: the actor kinds gate g accepts, whose subjects are at hand
  InRun,          \* the ids the Run has a reservation or a take under
  NotGiven,
  MaxInvocations

VARIABLES
  host, config, shell,  \* fixed for a behaviour
  reservation, take,    \* the reservation and the take of the Run
  calls,                \* invocations whose verb has been called and has not answered
  checked,              \* those of them that have read the record and not yet written it
  trail,                \* what is recorded, and from which invocation
  exits,                \* how invocations ended
  started

settings == <<host, config, shell>>
cliVars == <<settings, reservation, take, calls, checked, trail, exits, started>>

-----------------------------------------------------------------------------
(* The commands: what each needs, the flags its parser knows, the verb it calls.  *)
Row(command, sub, verb, needs, flags) ==
  [command |-> command, sub |-> sub, verb |-> verb, needs |-> needs, flags |-> flags]

EpisodeFlags == {"episode-id", "slug", "title", "legacy-ref"}
Dispositions == {"amount", "uncharged", "investigation-ended"}
Synthesis == {"file", "plan", "segment", "take", "reason", "rejected-authorization"}
Release == {"bundle", "dry-run"}

RunCommands ==
  {Row("init", NotGiven, "init", {}, EpisodeFlags \cup {"show", "force"}),
   Row("start", NotGiven, "startRun", {"workflow"}, {"workflow", "workflow-version", "code-revision"}),
   Row("status", NotGiven, "status", {}, {}), Row("inspect", NotGiven, "inspect", {}, {}),
   Row("run", NotGiven, "runStage", {"id", "run"}, {"force", "stage-version", "input"}),
   Row("retry", NotGiven, "retryStage", {"id", "run"}, {"force", "stage-version", "input"})}

GateCommands ==
  {Row("approve", NotGiven, "approve", {"id", "run"}, {"comment"}), Row("reject", NotGiven, "reject", {"id", "run"}, {"comment"}),
   Row("waive", NotGiven, "waive", {"id", "run"}, {"reason"}), Row("cancel", NotGiven, "cancelRun", {"run"}, {"reason"})}

RecordCommands ==
  {Row("artifacts", "list", "artifacts", {"run"}, {}), Row("artifacts", "lineage", "artifactLineage", {"id"}, {}),
   Row("artifacts", "cleanup-plan", "planArtifactCleanup", {"run"}, {}),
   Row("artifacts", "archive", "archiveIrreplaceable", {"run"}, {}), Row("costs", "show", "costs", {"run"}, {})}

SpendCommands ==
  {Row("costs", "settle", "settleSpend", {"id", "run"}, Dispositions \cup {"evidence", "currency", "observation"}),
   Row("costs", "abandon", "abandonDispatch", {"id", "run"}, {"reason"})}

ReleaseCommands ==
  {Row("rework", "status", "reworkStatus", {"run"}, {}), Row("release", "status", "releaseStatus", {"run"}, Release),
   Row("release", "plan", "releaseBundleStatus", {"bundle"}, Release),
   Row("release", "reconcile", "reconcileRelease", {"bundle"}, Release),
   Row("release", "execute", "executeRelease", {"bundle"}, Release)}

TtsCommands ==
  {Row("script", "record", "recordPerformanceScript", {"file"}, {"file"}),
   Row("synthesis", "plan", "recordSynthesisPlan", {"file"}, Synthesis),
   Row("synthesis", "run", "synthesiseSegment", {"plan", "segment"}, Synthesis),
   Row("synthesis", "charge", "recordUnauthorizedCharge", {"plan", "segment", "take", "reason"}, Synthesis)}

TakeCommands ==
  {Row("takes", "list", "takes", {"run"}, {"decision", "reason"}),
   Row("takes", "decide", "decideTake", {"id", "decision", "run"}, {"decision", "reason"})}

Commands ==
  RunCommands \cup GateCommands \cup RecordCommands \cup SpendCommands \cup ReleaseCommands \cup TtsCommands
    \cup TakeCommands

DefaultSub ==
  [artifacts |-> "list", rework |-> "status", costs |-> "show", release |-> "status",
   script |-> "record", synthesis |-> "plan", takes |-> "list"]

Reads ==
  {"status", "inspect", "artifacts", "artifactLineage", "planArtifactCleanup", "reworkStatus", "costs",
   "releaseStatus", "releaseBundleStatus", "takes"}
Transcribing == {"approve", "reject", "settleSpend", "abandonDispatch"}
GateVerbs == {"approve", "reject", "waive"}
SpendVerbs == {"settleSpend", "abandonDispatch"}
Judgements == GateVerbs \cup SpendVerbs \cup {"decideTake"}

(* costs is costs show whatever else follows it, and a command without            *)
(* subcommands does not look at what it has no use for.                        *)
Defaulted(i) == i.sub = NotGiven \/ (i.command = "costs" /\ i.sub \notin {"settle", "abandon"})
SubOf(i) ==
  IF i.command \notin DOMAIN DefaultSub THEN NotGiven
  ELSE IF Defaulted(i) THEN DefaultSub[i.command] ELSE i.sub
RowsOf(i) == {row \in Commands : row.command = i.command /\ row.sub = SubOf(i)}
RowOf(i) == CHOOSE row \in RowsOf(i) : TRUE

(* release execute --dry-run shows what release plan shows.                  *)
DryRun(i, verb) == verb = "executeRelease" /\ "dry-run" \in i.given
VerbOf ==
  [i \in Invocation |->
     IF RowsOf(i) = {} THEN "none"
     ELSE IF DryRun(i, RowOf(i).verb) THEN "releaseBundleStatus" ELSE RowOf(i).verb]

-----------------------------------------------------------------------------
(* What an invocation resolves to.                                          *)
Either(first, second) == IF first # NotGiven THEN first ELSE second

(* takeLeadingGlobals: a --workspace anywhere in the vector, the first of them, *)
(* is the one the config module is loaded for.                                *)
FlagValue(i) == Either(i.workspace.leading, i.workspace.after)
BoundWorkspace(i) == Either(FlagValue(i), Either(shell.workspace, shell.cwd))

(* Mutant of Workspace: a flag before the command is lost on the way.          *)
WorkspaceUnbound(i) == Either(i.workspace.after, Either(shell.workspace, shell.cwd))

(* parseCommon sees what was not stripped, and otherwise what bindWorkspace put  *)
(* in the environment.                                                       *)
Workspace(i) == Either(i.workspace.after, BoundWorkspace(i))

ActorOf(i) == Either(i.actor, shell.actor)
Kinds == {"human", "agent", "worker", "system"}
ActorParses(actor) == actor = NotGiven \/ actor.kind \in Kinds

(* withConfig: what the host injected always wins, except over who may decide   *)
(* takes.                                                                  *)
Merged ==
  [stages |-> Either(host.stages, config.stages),
   takeKinds |-> Either(config.takeKinds, host.takeKinds)]

(* servicesFor hands the context everything but takeKinds, so the ledger's      *)
(* default stands.                                                         *)
TakeKinds == {"human"}

-----------------------------------------------------------------------------
(* What a command refuses before it calls anything.                            *)
EpisodeUnnamed(i) == i.command = "init" /\ "show" \notin i.given /\ i.given \cap EpisodeFlags # {}

(* inspect takes its subject as an argument or from --run.                      *)
SubjectMissing(i) == i.command = "inspect" /\ i.given \cap {"id", "run"} = {}

StagesUnconfigured(i) == i.command \in {"run", "retry"} /\ Merged.stages \in {NotGiven, {}}

(* Mutant of HalfTranscribed: a decider is accepted without their words.       *)
HalfTranscribedQuietly(i) == i.decidedBy = NotGiven /\ i.verbatim # NotGiven

(* --decided-by and --verbatim are required together.                         *)
HalfTranscribed(i) ==
  \/ i.decidedBy # NotGiven /\ i.verbatim \in {NotGiven, ""}
  \/ i.decidedBy = NotGiven /\ i.verbatim # NotGiven

TranscriptionRefused(i) == VerbOf[i] \in Transcribing /\ HalfTranscribed(i)

DispositionUnclear(i) ==
  VerbOf[i] = "settleSpend" /\ Cardinality(i.given \cap Dispositions) # 1

(* parseArgs, strict: every option is one of the command's or of all of them.    *)
Unknown(i) ==
  \/ ~\E row \in RowsOf(i) : i.given \subseteq row.flags \cup {"id", "run"}
  \/ VerbOf[i] \notin Transcribing /\ (i.decidedBy # NotGiven \/ i.verbatim # NotGiven)
  \/ ~ActorParses(ActorOf(i))

(* Checked between the decision and the Run, and the one refusal here that is a *)
(* policy answer.                                                          *)
TakeUnattributed(i) ==
  ~Unknown(i) /\ VerbOf[i] = "decideTake" /\ {"id", "decision"} \subseteq i.given /\ ActorOf(i) = NotGiven

Invalid(i) ==
  \/ Unknown(i)
  \/ ~\E row \in RowsOf(i) : row.needs \subseteq i.given
  \/ EpisodeUnnamed(i) \/ SubjectMissing(i) \/ StagesUnconfigured(i)
  \/ TranscriptionRefused(i) \/ ~ActorParses(i.decidedBy) \/ DispositionUnclear(i)

-----------------------------------------------------------------------------
(* exit.ts, emit and reportError.                                           *)
ExitCodes == [success |-> 0, refused |-> 1, error |-> 2, unsuccessful |-> 3]

Exit(call, outcome) == exits' = exits \cup {[call |-> call, code |-> ExitCodes[outcome]]}
Answer(call, outcome) == Exit(call, outcome) /\ calls' = calls \ {call} /\ checked' = checked \ {call}

CliInit ==
  /\ \E e \in Environments : host = e[1] /\ config = e[2] /\ shell = e[3]
  /\ reservation = "reserved" /\ take = "undecided"
  /\ calls = {} /\ checked = {} /\ trail = {} /\ exits = {} /\ started = 0

(* A process starts: it ends at once with a rendered error, or calls its verb.  *)
Run(i) ==
  /\ started < MaxInvocations
  /\ started' = started + 1
  /\ LET call == [number |-> started, of |-> i]
     IN \/ TakeUnattributed(i) /\ Exit(call, "refused") /\ UNCHANGED calls
        \/ ~TakeUnattributed(i) /\ Invalid(i) /\ Exit(call, "error") /\ UNCHANGED calls
        \/ /\ ~TakeUnattributed(i) /\ ~Invalid(i)
           /\ calls' = calls \cup {call} /\ UNCHANGED exits
  /\ UNCHANGED <<settings, reservation, take, checked, trail>>

-----------------------------------------------------------------------------
(* The verbs.  What one records says who decided and, where the words of          *)
(* another were transcribed, who wrote them down.                             *)
Decider(i) == Either(i.decidedBy, ActorOf(i))
Recorder(i) == ActorOf(i)

Record(call, effect) ==
  trail' = trail \cup {[call |-> call, effect |-> effect, decidedBy |-> Decider(call.of),
                        recordedBy |-> Recorder(call.of), workspace |-> Workspace(call.of)]}

OwnTranscriber(i) == i.decidedBy # NotGiven /\ i.decidedBy = ActorOf(i)

(* requireActor: a change is somebody's.                                     *)
Unattributed(call) ==
  /\ VerbOf[call.of] \notin Reads
  /\ ActorOf(call.of) = NotGiven
  /\ Answer(call, "refused")
  /\ UNCHANGED <<reservation, take, trail>>

(* Nothing a read reports is unsuccessful; what it asks about may not exist.    *)
Read(call) ==
  /\ VerbOf[call.of] \in Reads
  /\ \E outcome \in {"success", "error"} : Answer(call, outcome)
  /\ UNCHANGED <<reservation, take, trail>>

Unreasoned(i) == VerbOf[i] = "waive" /\ "reason" \notin i.given

(* Mutant of NotPermitted: the reason is looked at before the actor.            *)
NotPermittedLate(i) == Decider(i).kind \notin PermittedKinds[i.id] /\ ~Unreasoned(i)

(* decide: who may decide comes first, then who wrote it down, then why a check   *)
(* was bypassed.  The decision is in the log before the gates are read again.    *)
NotPermitted(i) == Decider(i).kind \notin PermittedKinds[i.id]

DecideGate(call) ==
  LET i == call.of
  IN /\ VerbOf[i] \in GateVerbs /\ ActorOf(i) # NotGiven
     /\ \/ NotPermitted(i) /\ Answer(call, "refused") /\ UNCHANGED trail
        \/ ~NotPermitted(i) /\ (OwnTranscriber(i) \/ Unreasoned(i)) /\ Answer(call, "error") /\ UNCHANGED trail
        \/ /\ ~NotPermitted(i) /\ ~OwnTranscriber(i) /\ ~Unreasoned(i)
           /\ Record(call, "decision")
           /\ \E outcome \in {"success", "error"} : Answer(call, outcome)
     /\ UNCHANGED <<reservation, take>>

(* Any other change: done, refused or failed with or without part of it done, or  *)
(* successful with nothing left to do.                                       *)
Change(call) ==
  /\ VerbOf[call.of] \notin Reads \cup Judgements /\ ActorOf(call.of) # NotGiven
  /\ Record(call, "change") \/ UNCHANGED trail
  /\ \E outcome \in DOMAIN ExitCodes : Answer(call, outcome)
  /\ UNCHANGED <<reservation, take>>

(* openOperatorConsole: reconciliation is a human decision.                    *)
NotHuman(i) == Decider(i).kind # "human"

(* What a judgement is refused on the record it reads first.                    *)
SettlementRefused(i) == i.id \notin InRun \/ NotHuman(i)
SettlementFaulty(i) == OwnTranscriber(i) \/ "evidence" \notin i.given

(* Nobody asks whether who abandons is also who wrote it down.                  *)
AbandonmentRefused(i) ==
  "reason" \notin i.given \/ i.id \notin InRun \/ reservation # "reserved" \/ NotHuman(i)

TakeRefused(i) == ActorOf(i).kind \notin TakeKinds
TakeFaulty(i) == i.id \notin InRun \/ take = "decided"

Refused(i) ==
  \/ VerbOf[i] = "settleSpend" /\ SettlementRefused(i)
  \/ VerbOf[i] = "abandonDispatch" /\ AbandonmentRefused(i)
  \/ VerbOf[i] = "decideTake" /\ TakeRefused(i)
Faulty(i) ==
  \/ VerbOf[i] = "settleSpend" /\ SettlementFaulty(i)
  \/ VerbOf[i] = "decideTake" /\ TakeFaulty(i)

Check(call) ==
  LET i == call.of
  IN /\ VerbOf[i] \in Judgements \ GateVerbs /\ ActorOf(i) # NotGiven /\ call \notin checked
     /\ \/ Refused(i) /\ Answer(call, "refused")
        \/ ~Refused(i) /\ Faulty(i) /\ Answer(call, "error")
        \/ ~Refused(i) /\ ~Faulty(i) /\ checked' = checked \cup {call} /\ UNCHANGED <<calls, exits>>
     /\ UNCHANGED <<reservation, take, trail>>

(* A process that was let through fails before it has written anything.         *)
Stops(call) == call \in checked /\ Answer(call, "error") /\ UNCHANGED <<reservation, take, trail>>

(* What a decision about the reservation says, every field of its digest.  The     *)
(* command names all of them settle:<reservation>, so one says what another said   *)
(* or contradicts it.                                                        *)
Says(i) == [decidedBy |-> Decider(i), found |-> i.given \cap (Dispositions \cup {"observation"})]
OnRecord(effect) == {Says(e.call.of) : e \in {f \in trail : f.effect = effect}}

(* Mutant of Contradicted: the same person's other finding passes for a repeat.  *)
ContradictedByOthers(i) == \E d \in OnRecord("finding") : d.decidedBy # Decider(i)
Contradicted(i) == \E d \in OnRecord("finding") : d # Says(i)

(* Of an investigation that ended the words and who typed them count as well.    *)
Detail(i) == <<Says(i), Recorder(i), i.verbatim>>
SaidDifferently(i) == \E e \in trail : e.effect = "investigation" /\ Detail(e.call.of) # Detail(i)

SaidOnce(call, effect) == IF Says(call.of) \in OnRecord(effect) THEN UNCHANGED trail ELSE Record(call, effect)

(* With other charges still pending the reservation stays unresolved, and what was  *)
(* charged before makes a finding of no charge a settlement.                    *)
Concluded(i) ==
  (IF "amount" \in i.given THEN {"settled"} ELSE {"released"})
  \cup (IF "observation" \in i.given THEN {"billing_unknown", "settled"} ELSE {})

(* reconcile, which reads the record anew: a finding of another decision stands, a   *)
(* repeat resumes what it began, and the decision is on record before the cost and    *)
(* before the reservation moves.                                              *)
CliSettleSpend(call) ==
  LET i == call.of
      noted == IF "investigation-ended" \in i.given THEN "investigation" ELSE "finding"
  IN /\ VerbOf[i] = "settleSpend" /\ call \in checked
     /\ \/ /\ Contradicted(i) \/ (Says(i) \notin OnRecord("finding") /\ reservation # "billing_unknown")
              \/ (noted = "investigation" /\ SaidDifferently(i))
           /\ Answer(call, "error") /\ UNCHANGED <<reservation, trail>>
        \/ /\ ~Contradicted(i) /\ reservation # "billing_unknown" /\ Says(i) \in OnRecord("finding")
           /\ Answer(call, "success") /\ UNCHANGED <<reservation, trail>>
        \/ /\ ~Contradicted(i) /\ reservation = "billing_unknown"
           /\ noted = "investigation" => ~SaidDifferently(i)
           /\ SaidOnce(call, noted)
           /\ \/ Answer(call, "error") /\ UNCHANGED reservation
              \/ /\ Answer(call, "success")
                 /\ IF noted = "finding" THEN reservation' \in Concluded(i) ELSE UNCHANGED reservation
     /\ UNCHANGED take

(* Mutant of MayBeAbandoned: what was checked is taken for what is.             *)
MayBeAbandonedStill == TRUE

(* isLegalSuccessor, asked again of the stream the transition is appended to.     *)
MayBeAbandoned == reservation = "reserved"

CliAbandonDispatch(call) ==
  /\ VerbOf[call.of] = "abandonDispatch" /\ call \in checked
  /\ \/ ~MayBeAbandoned /\ Answer(call, "error") /\ UNCHANGED <<reservation, trail>>
     \/ /\ MayBeAbandoned
        /\ Record(call, "abandonment") /\ reservation' = "billing_unknown"
        /\ \E outcome \in {"success", "error"} : Answer(call, outcome)
  /\ UNCHANGED take

(* Nobody looks at the take again: of two judgements the later one stands, and      *)
(* each has its event.                                                       *)
CliDecideTake(call) ==
  /\ VerbOf[call.of] = "decideTake" /\ call \in checked
  /\ Record(call, "judgement") /\ take' = "decided"
  /\ \E outcome \in {"success", "error"} : Answer(call, outcome)
  /\ UNCHANGED reservation

ServeInvocation(call) ==
  /\ \/ Unattributed(call) \/ Read(call) \/ DecideGate(call) \/ Change(call)
     \/ Check(call) \/ Stops(call)
     \/ CliSettleSpend(call) \/ CliAbandonDispatch(call) \/ CliDecideTake(call)
  /\ UNCHANGED <<settings, started>>

(* The dispatch the reservation is for comes to an end of its own, if need be      *)
(* after somebody gave it up.                                                *)
DispatchEnds ==
  /\ \/ reservation = "reserved" /\ reservation' \in {"settled", "released", "billing_unknown"}
     \/ reservation = "billing_unknown" /\ reservation' \in {"settled", "released"}
  /\ UNCHANGED <<settings, take, calls, checked, trail, exits, started>>

CliNext ==
  \/ \E i \in Invocation : Run(i)
  \/ \E call \in calls : ServeInvocation(call)
  \/ DispatchEnds

CliSpec == CliInit /\ [][CliNext]_cliVars

-----------------------------------------------------------------------------
(* The record tells a person who decided from a machine that typed it: whoever    *)
(* typed is named, a decision of somebody else comes with their words, and no     *)
(* money is unblocked but by a human.  A take is one's own judgement.            *)
TrailIsHonest ==
  \A e \in trail :
    /\ e.recordedBy # NotGiven
    /\ e.decidedBy # e.recordedBy => e.call.of.verbatim \notin {NotGiven, ""}
    /\ e.effect \in {"finding", "investigation", "abandonment", "judgement"} => e.decidedBy.kind = "human"
    /\ e.effect \in {"judgement", "change"} => e.decidedBy = e.recordedBy

Previewed(i) == i.command = "release" /\ SubOf(i) = "execute" /\ "dry-run" \in i.given

(* A script branches on the code: 0 of a judgement means that it is on record (of a  *)
(* settlement, that what it found is, whoever recorded it first), 1 that it is not,  *)
(* whatever else happened to the reservation and the take meanwhile; a preview of a  *)
(* release leaves nothing behind, and an actor who may not decide a gate is told so   *)
(* and not to find a better reason.                                           *)
ExitsTellTheTruth ==
  \A x \in exits :
    LET i == x.call.of
        recorded == \E e \in trail : e.call = x.call
    IN /\ x.code = ExitCodes.success /\ VerbOf[i] \in Judgements \ {"settleSpend"} => recorded
       /\ x.code = ExitCodes.success /\ VerbOf[i] = "settleSpend"
            => Says(i) \in OnRecord("finding") \cup OnRecord("investigation")
       /\ Previewed(i) => ~recorded
       /\ recorded => RowsOf(i) # {} /\ VerbOf[i] \notin Reads
       /\ recorded /\ VerbOf[i] \in Judgements => x.code # ExitCodes.refused
       /\ ~Invalid(i) /\ VerbOf[i] \in GateVerbs /\ ActorOf(i) # NotGiven
            /\ Decider(i).kind \notin PermittedKinds[i.id] => x.code = ExitCodes.refused

(* However many people look into one reservation at once: one of them gives its      *)
(* dispatch up, and no two findings contradict each other.                      *)
ReservationIsDecidedOnce ==
  \A e, f \in trail :
    /\ e.effect = "abandonment" /\ f.effect = "abandonment" => e = f
    /\ e.effect = "finding" /\ f.effect = "finding" => Says(e.call.of) = Says(f.call.of)

(* What is done is done to the workspace the config module was loaded for,         *)
(* wherever --workspace was written (and if it was written once).                *)
OneWorkspace ==
  \A e \in trail :
    LET given == e.call.of.workspace
    IN given.leading = NotGiven \/ given.after = NotGiven => e.workspace = BoundWorkspace(e.call.of)

InvocationsAreHonest == TrailIsHonest /\ ExitsTellTheTruth /\ ReservationIsDecidedOnce /\ OneWorkspace

(* "Actor kinds that may accept or reject a take": a kind the config module         *)
(* declares is not refused (config.ts:117-129, ledger.ts:427-429).               *)
DeclaredKindsDecide ==
  \A x \in exits :
    VerbOf[x.call.of] = "decideTake" /\ config.takeKinds # NotGiven /\ ActorOf(x.call.of) # NotGiven
      /\ ActorOf(x.call.of).kind \in config.takeKinds => x.code # ExitCodes.refused
=============================================================================
