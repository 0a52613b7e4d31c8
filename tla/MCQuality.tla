----------------------------- MODULE MCQuality -----------------------------
(***************************************************************************)
(* Knowledge, Regression, Rework, McpSurface and Cli for TLC.  They answer   *)
(* one question, whose word counts, and share no state: part says which of   *)
(* them a behaviour is about, so that one run checks all.                    *)
(***************************************************************************)
EXTENDS Knowledge, Regression, Rework, Doors

VARIABLE part

MCSupported == [major |-> 1, minor |-> 15]

-----------------------------------------------------------------------------
(* Knowledge.                                                               *)
Pack(id, authority, scope, precedence, dependencies) ==
  [packId |-> id, version |-> "text", schema |-> [major |-> 1, minor |-> 0],
   authority |-> authority, scope |-> scope, precedence |-> precedence,
   dependencies |-> dependencies, provides |-> {"pronunciation"}, resources |-> {"guide"}]
Anywhere == <<>>
Show(s) == [show |-> s]
MCDocuments ==
  {Pack("house", "normative", Anywhere, NoPrecedence, <<"style">>),
   Pack("style", "normative", Show("s1"), NoPrecedence, <<"lexicon">>),
   [Pack("lexicon", "normative", Anywhere, 100, <<>>) EXCEPT !.version = "number"],
   Pack("lexicon", "advisory", [show |-> "s1", voice |-> "v1"], NoPrecedence, <<"house">>),
   Pack("tips", "advisory", Show("s2"), NoPrecedence, <<>>),
   [Pack("tips", "example", Anywhere, NoPrecedence, <<>>) EXCEPT !.resources = {"lost"}, !.schema.major = 2],
   Pack("old", "deprecated", Anywhere, 900, <<>>),
   [Pack("old", "normative", Anywhere, NoPrecedence, <<>>) EXCEPT !.schema = Malformed]}
MCRank == [house |-> 1, lexicon |-> 2, old |-> 3, style |-> 4, tips |-> 5]
MCLadder == <<{}, {"show"}, {"host"}>>
MCContext == [show |-> "s1", voice |-> "v1"]

-----------------------------------------------------------------------------
(* Regression.                                                              *)
Bad(id, scope, severity) ==
  [id |-> id, scope |-> scope, defective |-> TRUE, severity |-> severity, categories |-> {"claim"},
   correction |-> Unstated, labelledBy |-> "ann"]
Good(id, scope, correction) ==
  [id |-> id, scope |-> scope, defective |-> FALSE, severity |-> Unstated, categories |-> {},
   correction |-> correction, labelledBy |-> "bob"]
Host(h) == [host |-> h]
In(h, v) == [host |-> h, voice |-> v]
MCCaseRecords ==
  {Bad("c1", In("h1", "v1"), "major"), Bad("c2", Host("h2"), "minor"), Bad("c2", In("h1", "v2"), "minor"),
   Good("c3", In("h1", "v1"), Unstated), Good("c4", In("h1", "v2"), "rewrite"), Good("c4", Host("h2"), Unstated),
   [Good("c5", Host("h1"), Unstated) EXCEPT !.categories = {"claim"}]}
Said(c, flagged, categories, measurable) ==
  [case |-> c, flagged |-> flagged, categories |-> categories, measurable |-> measurable]
MCOutcomeRecords ==
  {Said(c, TRUE, {"claim"}, Unstated) : c \in {"c1", "c2", "c3", "c4"}}
  \cup {Said("c1", TRUE, {}, Unstated), Said("c2", TRUE, {"tone"}, TRUE)}
Spot(evaluator, scope, status) == [id |-> "b1", evaluator |-> evaluator, scope |-> scope, status |-> status]
MCSpotRecords ==
  {Spot("e", [voice |-> "v1"], "open"), Spot("e", <<>>, "accepted"), Spot("other", <<>>, "open")}
Rate(n, d) == [num |-> n, den |-> d]
Strict ==
  [minCases |-> 2, minDefective |-> 1, minClean |-> 1, minLabellers |-> 2, minRecall |-> Rate(1, 1),
   minWeightedRecall |-> Rate(1, 1), maxFalsePositives |-> Rate(0, 1), maxHarm |-> Rate(1, 10),
   severityWeights |-> [major |-> 3, minor |-> 1], harmWeights |-> [advisory |-> 0, rewrite |-> 10],
   defaultCorrection |-> "advisory", openBlindSpotDisqualifies |-> TRUE]
Lenient ==
  [Strict EXCEPT !.minCases = 0, !.minDefective = 0, !.minClean = 0, !.minLabellers = 0, !.minRecall = Rate(1, 2),
                 !.minWeightedRecall = Rate(1, 2), !.maxFalsePositives = Rate(1, 2), !.maxHarm = Rate(5, 1)]
Partial == [Lenient EXCEPT !.severityWeights = [major |-> 3], !.openBlindSpotDisqualifies = FALSE]
MCPolicies == {Strict, Lenient, Partial, [Strict EXCEPT !.minCases = 1], [Strict EXCEPT !.minRecall = Rate(3, 2)]}
MCVersions == {<<MCSupported, MCSupported>>, <<[major |-> 1, minor |-> 16], MCSupported>>, <<MCSupported, Malformed>>}

-----------------------------------------------------------------------------
(* Rework.                                                                  *)
Declared(class, level, enforcement, evidence) ==
  [class |-> class, level |-> level, enforcement |-> enforcement, evidence |-> evidence, promoted |-> "no"]
MCDeclarations ==
  {{Declared("tone", "model_assisted", "advisory", "finding"),
    Declared("lint", "advisory_signal", "advisory", "report"),
    Declared("claim", "hard_gate", "blocking", "finding")},
   {Declared("tone", "model_assisted", "blocking", "finding")}}
Found(class) == [class |-> class, kind |-> "finding"]
MCReports ==
  {<<>>, <<Found("tone")>>, <<Found("tone"), Found("tone")>>,
   <<Found("tone"), [class |-> "lint", kind |-> "report"]>>, <<Found("claim")>>, <<Found("typo")>>}

MCReworkPolicies == {[covers |-> {"tone"}, maxRounds |-> n] : n \in {1, 2}}

-----------------------------------------------------------------------------
(* McpSurface.                                                              *)
Stage(version, requires) ==
  [id |-> "cast", version |-> version, requiresAuthorization |-> requires, produces |-> "declared",
   keyScope |-> "stage", effectKey |-> TRUE, evaluation |-> Unset]
Evaluates(class, sound) == [class |-> class, sound |-> sound]
MCDefinitions ==
  {Stage(1, FALSE), [Stage(1, TRUE) EXCEPT !.evaluation = <<Evaluates("tone", TRUE)>>], Stage(2, TRUE), [Stage(2, FALSE) EXCEPT !.effectKey = FALSE],
   [Stage(2, FALSE) EXCEPT !.produces = "nothing said"], [Stage(2, FALSE) EXCEPT !.evaluation = <<>>],
   [Stage(2, FALSE) EXCEPT !.evaluation = <<Evaluates("tone", FALSE)>>],
   [Stage(2, FALSE) EXCEPT !.evaluation = <<Evaluates("tone", TRUE), Evaluates("tone", TRUE)>>]}
Operator(confirmation) == [kind |-> "human", id |-> "ann", confirmation |-> confirmation]
MCIdentities ==
  {[agent |-> "a", operator |-> Unset], [agent |-> "a", operator |-> Operator("ambient_configuration")],
   [agent |-> "a", operator |-> Operator("per_call_confirmed")], [agent |-> "", operator |-> Unset],
   [agent |-> "a", operator |-> [Operator("per_call_confirmed") EXCEPT !.kind = "system"]]}

MCCapabilitySets ==
  {{"read"}, {"read", "stage:run"}, {"stage:run", "stage:force", "gate:decide", "run:start"},
   {"stage:run", "spend", "tts:record", "workspace:init"}, {"publish", "artifact:archive"}}
MCStageArgs == [id : {"cast"}, version : {Unset, 1, 2}, force : BOOLEAN]

-----------------------------------------------------------------------------
(* Cli.                                                                     *)
Ann == [kind |-> "human", id |-> "ann"]
Bob == [kind |-> "human", id |-> "bob"]
Bot == [kind |-> "agent", id |-> "bot"]
Clerk == [kind |-> "clerk", id |-> "carl"]
Once == [leading |-> "w1", after |-> NotGiven]
Line(command, sub, id, given, workspace, actor, decidedBy, verbatim) ==
  [command |-> command, sub |-> sub, id |-> id, given |-> given, workspace |-> workspace,
   actor |-> actor, decidedBy |-> decidedBy, verbatim |-> verbatim]
Plain(command, sub, given) == Line(command, sub, NotGiven, given, Once, Bot, NotGiven, NotGiven)
Words == {<<NotGiven, NotGiven>>, <<Ann, "said">>, <<Bob, "said">>, <<Ann, "">>, <<NotGiven, "said">>, <<Clerk, "said">>}
Target == {"id", "run"}
MCInvocation ==
  {Plain("init", NotGiven, {"title"}), Plain("start", NotGiven, {}), Plain("status", NotGiven, {}), Plain("run", NotGiven, Target),
   Plain("cancel", NotGiven, {"run", "reason"}), Plain("cancel", NotGiven, {"run", "dry-run"}), Plain("rework", "start", {"run"}),
   Plain("costs", "owed", {"run"}), Plain("inspect", "more", {"run"}), Plain("inspect", NotGiven, {}),
   Plain("release", "execute", {"bundle", "dry-run"}), Plain("release", "reconcile", {"bundle", "dry-run"}), Plain("synthesis", "charge", {"plan"})}
  \cup {Line("approve", NotGiven, "freeze", Target, Once, actor, w[1], w[2]) : actor \in {Ann, Bot}, w \in Words}
  \cup {Line("approve", NotGiven, "lint", Target, Once, Bot, w[1], w[2]) : w \in {<<NotGiven, NotGiven>>, <<Ann, "said">>}}
  \cup {Line("waive", NotGiven, gate, Target \cup given, Once, Bot, NotGiven, NotGiven) :
          gate \in {"freeze", "lint"}, given \in {{}, {"reason"}}}
  \cup {Line("costs", "settle", "held", Target \cup given, Once, Bot, Ann, "said") :
          given \in {{"evidence", "amount"}, {"amount"}, {"evidence"}, {"evidence", "amount", "uncharged"},
                     {"evidence", "investigation-ended"}, {"evidence", "uncharged", "observation"}}}
  \cup {Line("costs", "settle", "held", Target \cup {"evidence", "uncharged"}, Once, Bot, who, "said") : who \in {Ann, Bob}}
  \cup {Line("costs", "settle", "held", Target \cup {"evidence", "investigation-ended"}, Once, Ann, NotGiven, NotGiven)}
  \cup {Line("costs", "settle", "gone", Target \cup {"evidence", "uncharged"}, Once, Ann, NotGiven, NotGiven),
        Line("takes", "decide", "gone", Target \cup {"decision"}, Once, Ann, NotGiven, NotGiven)}
  \cup {Line("costs", "settle", "held", Target \cup {"evidence", "uncharged"}, Once, actor, NotGiven, NotGiven) : actor \in {NotGiven, Bot}}
  \cup {Line("costs", "abandon", "held", Target \cup {"reason"}, Once, actor, w, "said") : actor \in {Ann, Bot}, w \in {Ann, NotGiven}}
  \cup {Line("takes", "decide", "held", Target \cup {"decision"}, Once, actor, NotGiven, NotGiven) : actor \in {NotGiven, Bot}}
  \cup {Line("takes", "decide", "held", Target \cup {"decision"}, w, Ann, NotGiven, NotGiven) :
          w \in {[leading |-> NotGiven, after |-> "w2"], [leading |-> NotGiven, after |-> NotGiven], [leading |-> "w1", after |-> "w2"]}}

Bare == [stages |-> NotGiven, takeKinds |-> NotGiven]
Full == [stages |-> {"cast"}, takeKinds |-> {"human", "agent"}]
Shell(workspace, actor) == [workspace |-> workspace, actor |-> actor, cwd |-> "here"]

MCEnvironments == {<<Bare, Full, Shell("w3", NotGiven)>>, <<Bare, Bare, Shell(NotGiven, Ann)>>}
MCPermittedKinds == [freeze |-> {"human"}, lint |-> {"human", "agent"}]

-----------------------------------------------------------------------------
NoCorpus ==
  /\ corpus = [schema |-> Supported, cases |-> <<>>] /\ run = [schema |-> Supported, outcomes |-> <<>>]
  /\ registry = <<>> /\ policy = Strict
NoLoop == channels = {} /\ rule = NoPolicy /\ evals = <<>> /\ repairs = <<>> /\ approved = {}
NoHost == grant = <<>> /\ identity = <<>> /\ registered = {} /\ inflight = {} /\ log = {} /\ toolCalls = 0
NoShell ==
  /\ host = Bare /\ config = Bare /\ shell = Shell("w3", NotGiven)
  /\ reservation = "reserved" /\ take = "undecided"
  /\ calls = {} /\ checked = {} /\ trail = {} /\ exits = {} /\ started = 0

QualityInit ==
  /\ part \in {"packs", "corpus", "rework", "surface", "console"}
  /\ PackInit
  /\ IF part = "corpus" THEN CorpusInit ELSE NoCorpus
  /\ IF part = "rework" THEN ReworkInit ELSE NoLoop
  /\ IF part = "surface" THEN SurfaceInit ELSE NoHost
  /\ IF part = "console" THEN CliInit ELSE NoShell

QualityNext ==
  \/ part = "packs" /\ PackNext /\ UNCHANGED <<part, corpusVars, reworkVars, surfaceVars, cliVars>>
  \/ part = "corpus" /\ CorpusNext /\ UNCHANGED <<part, packVars, reworkVars, surfaceVars, cliVars>>
  \/ part = "rework" /\ ReworkNext /\ UNCHANGED <<part, packVars, corpusVars, surfaceVars, cliVars>>
  \/ part = "surface" /\ SurfaceNext /\ UNCHANGED <<part, packVars, corpusVars, reworkVars, cliVars>>
  \/ part = "console" /\ CliNext /\ UNCHANGED <<part, packVars, corpusVars, reworkVars, surfaceVars>>

Spec == QualityInit /\ [][QualityNext]_<<part, packVars, corpusVars, reworkVars, surfaceVars, cliVars>>
=============================================================================
