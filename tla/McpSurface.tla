----------------------------- MODULE McpSurface -----------------------------
(***************************************************************************)
(* The Production MCP of packages/aldus-mcp/src: sessions bound to one        *)
(* workspace, each with the capabilities and the identity its host gave it    *)
(* (capabilities.ts, identity.ts), calling the tools of tools.ts through       *)
(* AldusToolSurface (surface.ts), beside the stage registry and the runner's    *)
(* resolution of a stage (aldus-stage-runner registry.ts, runner.ts).          *)
(*                                                                         *)
(* A call is admitted on what the surface reads of the registry, and its       *)
(* stage is resolved again by the runner after several awaits; a host may       *)
(* register definitions in between.                                          *)
(***************************************************************************)
EXTENDS Naturals, FiniteSets

CONSTANTS
  McpSession,
  Identities,      \* what a host may say of a caller: [agent, operator]
  CapabilitySets,  \* sets of capabilities a host may configure
  Definitions,     \* stage definitions a host may register
  StageArgs,       \* arguments of the stage tools: [id, version, force]
  Unset,
  MaxToolCalls

VARIABLES
  grant, identity,  \* [McpSession -> ...], fixed when the surface is constructed
  registered,       \* the stage registry's definitions
  inflight,         \* calls admitted and not yet served
  log,              \* what was done, as which actor and in which session
  toolCalls

sessionVars == <<grant, identity>>
surfaceVars == <<sessionVars, registered, inflight, log, toolCalls>>

-----------------------------------------------------------------------------
(* identity.ts.                                                            *)

(* assertCallerIdentity.                                                    *)
ValidIdentity(i) == i.agent # "" /\ (i.operator = Unset \/ i.operator.kind = "human")

(* resolveActor: an operator is the actor when the host attests that they       *)
(* confirmed this call, and the agent is otherwise.                           *)
Confirmed(i) == i.operator # Unset /\ i.operator.confirmation = "per_call_confirmed"
ResolveActor(i) ==
  IF Confirmed(i) THEN [kind |-> i.operator.kind, id |-> i.operator.id]
                  ELSE [kind |-> "agent", id |-> i.agent]

-----------------------------------------------------------------------------
(* tools.ts: what each tool requires, and what the service it calls does.      *)

ReadTools ==
  {"aldus_status", "aldus_inspect", "aldus_artifacts", "aldus_costs", "aldus_release_status", "aldus_artifact_lineage",
   "aldus_plan_artifact_cleanup", "aldus_release_bundle_status", "aldus_takes"}
StageTools == {"aldus_run_stage", "aldus_retry_stage"}

Verb(capability, effect) == [capability |-> capability, effect |-> effect]
Verbs ==
  [aldus_init |-> Verb("workspace:init", "episode"), aldus_start_run |-> Verb("run:start", "run"),
   aldus_approve_gate |-> Verb("gate:decide", "decision"), aldus_reject_gate |-> Verb("gate:decide", "decision"),
   aldus_request_changes |-> Verb("gate:decide", "decision"), aldus_decide_take |-> Verb("gate:decide", "decision"),
   aldus_archive_irreplaceable |-> Verb("artifact:archive", "custody"),
   aldus_reconcile_release |-> Verb("publish", "destination"), aldus_execute_release |-> Verb("publish", "destination"),
   aldus_record_performance_script |-> Verb("tts:record", "record"),
   aldus_record_synthesis_plan |-> Verb("tts:record", "record"),
   aldus_synthesise_segment |-> Verb("spend", "charge"), aldus_record_unauthorized_charge |-> Verb("spend", "charge")]

Tools == ReadTools \cup StageTools \cup DOMAIN Verbs

RequiredCapability ==
  [tool \in Tools |-> IF tool \in ReadTools THEN "read"
                     ELSE IF tool \in StageTools THEN "stage:run" ELSE Verbs[tool].capability]

EffectOf ==
  [tool \in Tools \ ReadTools |-> IF tool \in StageTools THEN "stage" ELSE Verbs[tool].effect]

-----------------------------------------------------------------------------
(* The stage registry, and the two places that read a version from it.         *)

VersionsOf(id) == {d.version : d \in {e \in registered : e.id = id}}
Get(id, version) == {d \in registered : d.id = id /\ d.version = version}

(* #soleVersionOf and the runner's #resolve: the version stated, or the only     *)
(* one registered; as a set, empty when there is none to run.                  *)
Resolved(args) ==
  IF args.version # Unset THEN Get(args.id, args.version)
  ELSE {d \in registered : d.id = args.id /\ Cardinality(VersionsOf(args.id)) = 1}

(* Mutant of Resolve: of several versions the runner takes the latest.          *)
ResolveLatest(args) ==
  IF args.version # Unset THEN Get(args.id, args.version)
  ELSE {d \in registered : d.id = args.id /\ \A v \in VersionsOf(args.id) : v <= d.version}

Resolve(args) == Resolved(args)

(* Mutant of RequiresSpendAuthorization: a stage nobody can identify is free.   *)
FreeUnlessResolved(args) == \E d \in Resolved(args) : d.requiresAuthorization

(* #requiresSpendAuthorization: what cannot be resolved is not free.            *)
RequiresSpendAuthorization(args) ==
  Resolved(args) = {} \/ \E d \in Resolved(args) : d.requiresAuthorization

(* stageExtras.                                                            *)
StageExtras(args) ==
  (IF args.force THEN {"stage:force"} ELSE {})
  \cup (IF RequiresSpendAuthorization(args) THEN {"spend"} ELSE {})

Required(tool, args) ==
  {RequiredCapability[tool]} \cup (IF tool \in StageTools THEN StageExtras(args) ELSE {})

(* An evaluator claims something, one thing of each class of finding, with the    *)
(* evidence its level asks for.                                              *)
SoundClaims(channels) ==
  /\ channels # <<>>
  /\ \A i, j \in DOMAIN channels : channels[i].sound /\ (channels[i].class = channels[j].class => i = j)

(* register: the second definition of a version is refused, and so is one that   *)
(* says nothing of its artifacts, derives no key for the effects it repeats, or    *)
(* claims to evaluate what it does not.                                       *)
Registrable(definition) ==
  /\ Get(definition.id, definition.version) = {}
  /\ definition.produces \in {"none", "declared"}
  /\ definition.keyScope = "stage" => definition.effectKey
  /\ definition.evaluation # Unset => SoundClaims(definition.evaluation)

-----------------------------------------------------------------------------
SurfaceInit ==
  /\ grant \in [McpSession -> CapabilitySets]
  /\ identity \in [McpSession -> {i \in Identities : ValidIdentity(i)}]
  /\ registered = {} /\ inflight = {} /\ log = {} /\ toolCalls = 0

Register(definition) ==
  /\ Registrable(definition)
  /\ registered' = registered \cup {definition}
  /\ UNCHANGED <<sessionVars, inflight, log, toolCalls>>

(* callTool up to the service: the arguments satisfy the tool's schema, the       *)
(* session holds every capability, and the actor is the session's.             *)
CallTool(s, tool, args) ==
  /\ toolCalls < MaxToolCalls
  /\ tool \in StageTools <=> args # Unset
  /\ Required(tool, args) \subseteq grant[s]
  /\ toolCalls' = toolCalls + 1
  /\ inflight' = IF tool \in ReadTools THEN inflight
                 ELSE inflight \cup {[session |-> s, tool |-> tool, args |-> args,
                                      actor |-> ResolveActor(identity[s])]}
  /\ UNCHANGED <<sessionVars, registered, log>>

Done(call, definition, tookOver) ==
  log' = log \cup {[session |-> call.session, effect |-> EffectOf[call.tool], actor |-> call.actor,
                    definition |-> definition, tookOver |-> tookOver]}

(* runStage and retryStage reach the runner; only force takes a stage over.     *)
ServeStage(call) ==
  /\ call.tool \in StageTools
  /\ \/ \E d \in Resolve(call.args), took \in {FALSE, call.args.force} : Done(call, d, took)
     \/ Resolve(call.args) = {} /\ UNCHANGED log

(* Every other verb, whether it succeeds or refuses.                          *)
ServeOther(call) ==
  /\ call.tool \notin StageTools
  /\ Done(call, Unset, FALSE) \/ UNCHANGED log

SurfaceNext ==
  \/ \E d \in Definitions : Register(d)
  \/ \E s \in McpSession, tool \in Tools, args \in StageArgs \cup {Unset} : CallTool(s, tool, args)
  \/ \E call \in inflight :
       /\ ServeStage(call) \/ ServeOther(call)
       /\ inflight' = inflight \ {call}
       /\ UNCHANGED <<sessionVars, registered, toolCalls>>

SurfaceSpec == SurfaceInit /\ [][SurfaceNext]_surfaceVars

-----------------------------------------------------------------------------
(* What each effect takes, whichever tool or stage it came through.            *)
Takes ==
  [stage |-> "stage:run", episode |-> "workspace:init", run |-> "run:start", decision |-> "gate:decide",
   custody |-> "artifact:archive", destination |-> "publish", record |-> "tts:record", charge |-> "spend"]

(* Nothing is done in a session that its host did not grant it, also when the     *)
(* registry changed between the check of a call and the run of its stage: a       *)
(* stage that requires authorization runs where aldus:spend is held, a takeover    *)
(* where aldus:stage:force is.  And what reads as a person's act is the act of      *)
(* the operator whose confirmation the host attested (§10.1, §18.1).               *)
SessionsStayWithinGrant ==
  \A e \in log :
    /\ Takes[e.effect] \in grant[e.session]
    /\ e.definition # Unset /\ e.definition.requiresAuthorization => "spend" \in grant[e.session]
    /\ e.tookOver => "stage:force" \in grant[e.session]
    /\ e.actor.kind = "human" => /\ Confirmed(identity[e.session])
                                 /\ e.actor.id = identity[e.session].operator.id
=============================================================================
