# A specification of Aldus

Aldus runs podcast production as a sequence of stages with human gates, paid
external effects and a release at the end. Everything it knows is in files under
`.aldus/`; there is no server. Several processes (CLI sessions, MCP servers,
workers started by stages) work on one workspace at once, and any of them may be
killed at any time. What has to be right is therefore what happens *between*
file operations: who may write, what a crash leaves behind, whether money is
spent that nobody authorized or recorded, and whose word a decision rests on.

This directory holds TLA+ models of those parts, TLC configurations for small
instances, and TLAPS proofs for all instances.

## The system

| component | state | operations | what must be right |
|---|---|---|---|
| file lock (`aldus-file-store/src/lock.ts`, `atomic.ts`) | one JSON file per resource | `acquire`, `withLock`, `renew`, `release`, `#reclaim` | nobody is told a critical section succeeded that was not exclusive; no record blocks the workspace for ever |
| reservation store (`reservation-store.ts`) | per grant, numbered commit files | `readGrant`, `compareAndAppend` | atomic conditional append without relying on the lock; durable once acknowledged |
| record stores (`stores.ts`, `document.ts`, `collections.ts`) | one file per document or collection | `create`, `update`, `put`, `add` | whole after any crash; an old build keeps what a newer one wrote |
| spend lifecycle (`aldus-core/src/schema/reservation.ts`) | none | `isLegalSuccessor`, `reduceReservations` | terminal is final |
| spend service (`spend-service.ts`, `agent-execution.ts`) and the ledger (`aldus-gate-engine/src/spend.ts`) | the grant's stream, the cost records | `reserve`, `prepareDispatch`, `identifyDispatch`, `settle`, `markUnknown`, the releases, `abandonDispatch` | never beyond the ceiling, one call per reservation, no charge lost, an unknown charge blocks |
| paid calls of a stage (`runner.ts` with `paid-dispatch.ts`, `agent-dispatch.ts`) | counters of an attempt, its record of invocations | `runWorker`, `runAgent` | a billing key is called for once; what is called was declared, reserved and recorded |
| reconciliation (`SpendService.reconcile`) | the same | an operator's decision about an unresolved charge | audit before effect, resumable, no finding overwritten, nothing released while undecided |
| event log (`stores.ts`, `jsonl.ts`) | `events.jsonl` | `append`, `read` under the run lock | a total order of events, recovery from a torn tail |
| stage state (`aldus-stage-runner/src/state.ts`) | a cache of the log with a watermark | `applyLifecycleEvent`, `reconcileStageState` | the cache equals the log's reduction |
| stage runner (`runner.ts`) | stage executions and attempts | `run`, claim, retry, gates, cancel | one runner per stage, bounded retries, every attempt recorded |
| gate engine (`aldus-gate-engine/src/engine.ts`) | gate decisions bound to artifact hashes | `decide`, `evaluate`, `authorize` | a stale approval authorizes nothing; invalidation cascades |
| release executor (`aldus-release/src/executor.ts`) | receipts | `reconcile`, `execute` | nothing published twice or unauthorised |
| TTS ledger (`aldus-tts-ledger/src`) and `synthesis.ts` | plans, takes | `recordPlan`, `permitSynthesis`, `synthesise`, `recordTake`, `decideTake` | no segment paid twice under one grant, takes rest on the plan that was approved |
| artifact registry (`aldus-artifact-registry/src`) | artifact records, archive objects | `register`, `archive`, `planCleanup`, `executeCleanup`, lineage | nothing deleted that is not archived and verified |
| services facade (`aldus-services/src`) | none of its own | start, run, retry, decide, settle, cancel, status, rework | status tells what can be done and what cannot |
| knowledge packs (`aldus-core/src/knowledge`) | none | parse, precedence, resolve, snapshot | independent of the order of the packs; ties reported |
| regression corpus (`aldus-regression/src`) | cases, outcomes, blind spots | parse, measure, promote | a promotion rests on evidence where it holds |
| CLI (`aldus-cli/src`) | none | verbs, exit codes | the record says who decided; the exit code whether |
| MCP server (`aldus-mcp/src`) | grants and identity of a session | tools | nothing beyond the granted capabilities |
| core schemas, test kit, scripts | none | validation, redaction | not modelled |

They interact as follows. Every store takes the file lock, except that the
reservation store does not rely on it. The stage runner and the services call
the spend service before and after each paid call; the spend service keeps its
reservations in the reservation store and its cost records in a collection; the
gate engine's ledger computes what a grant still authorizes from both. Gate
decisions, takes, receipts and stage transitions are each a record *and* an
event, written one after the other. The services read gates, stages and money to
decide what may be done next; the CLI and the MCP server are two doors to the
services, one for people and one for agents.

The hard behaviours: processes interleave at every `await`; checks and the
writes that follow them are separate system calls; a crash may fall between any
two; retries repeat a step whose answer was lost; clocks agree to the millisecond
or do not; deadlines pass; content changes under approvals; what is derived from
records (rounds, plans, lineage, the state of a gate) is derived again from
records that have changed. `PROJECT.json` lists these hazards by line.

## The modules

### Files

**`FileLock`** is the lock on one resource. `file` is the file the path leads to
and `text` what is in each file, both named by `lockId`; `at` is where each session is
inside `acquire`, the body and `release`. One action is one system call: `OpenNew`
and `WriteRecord` are the two halves of `createExclusive`, `ReclaimCheck` and `Reclaim` of
`#reclaim`, `ReleaseHeld` and `Remove` of `release`, `RenewCheck`,
`RenewTruncate` and `RenewWrite` of `renew`. `Expire` lets a record grow older than its
TTL at any moment, its holder alive or not; `Kill` kills a session, after which a
contender on the same host sees its pid gone. `overlap` and `succeeded` are
history: which sections ran at the same time, and which were told all was well.

**`ReservationStore`** is `compareAndAppend` on one grant's commit directory `dir`: the
check of identities and revision, `link()` of a file written beforehand, `fsync` of the
directory, the answer, and the second look when `withLock` throws `LOCK_LOST`. Each caller
may die and retry the same call; `PowerLoss` drops any directory entry not synced.
**`CommitStream`** is the abstract specification: a sequence of batches, one
atomic conditional append, and which answer is justified when.

**`RecordStore`** is the documents beside it: the Episode, a Run's manifest and a
collection, each rewritten whole by two builds of the program of which one knows fields the other has
no schema for. A call reads, strips what its build does not know, applies the caller's mutation,
merges over what it had read (`MergeForWrite`), writes a temporary file, syncs it, renames it and syncs the
directory, one step each; `Die`, `PowerFails` and a lease that runs out may fall anywhere. The lock is `FileLock`'s reduced to
what its users see. `owed` is history: what acknowledged calls wrote and nobody meant to change since.
`OperationAssumption` says which calls there are: whole documents where documents belong, and updates that touch the packs only by appending
to them, in a build that knows what a pack's id is.

**`EventLog`** is one run's `events.jsonl`: `lines` is what `parseJsonLines` returns, `tail` the
condition of the last line. `AppendLine` is an append under the run lock, `TornAppend` one whose
process dies before the newline.

### Money

**`SpendLifecycle`** holds the transition table and the reduction as operators.
**`SpendService`** composes it with the stream (an append is atomic, which is what
`CommitStream` promises) and the cost records, and follows each gateway call from
`reserve` through `dispatch_prepared`, the provider call, the cost record and
the settlement. `AppendRead` and the `cas` actions are `#appendOne`, split
where the code awaits; `RecordCheck` and `RecordAdd` are the unlocked check and the locked
append of `RunStoreCostRecordStore`. The provider may charge, not charge, throw,
be silent, report an unknown amount or declare that nothing was dispatched.

**`Invocations`** is the side of the stage: up to `Calls` calls of `runWorker` and `runAgent` within an attempt, none of them awaited,
and a second attempt that bills the same keys while calls of the first are still out. `at` follows a call from its declarations
(`InvokeUndeclared`, `InvokeExceeding`, `Invoke`: all before the first await, where `effects` counts) through `Checked`,
`Reserve`, `Prepare` and `Calling` to what came back, the records (`Record`, `RecordRefused`), the settlement (`Resolve`, `ResolveFails`) and what the
stage is told. A reservation is its last transition here. `Settles` ends the attempt with the invocations it had recorded.

**`Reconciliation`** takes one reservation left `billing_unknown`, in every state
`settle` or `markUnknown` can leave it in, and follows `reconcile` await by await:
status read, second read, the durable decision, the cost record, what remains, the terminal
transition.

**`TtsLedger`** follows a segment from an approval (which opens a grant of its own) through the permit,
the reservation, the adapter's call, the settlement and the take, with processes between any two of these, people
recording takes of their own, approvals withdrawn and plans recorded anew under one plan id. A call of the spend service is one step here.
**`TakeLineage`** holds what is read off a list of takes: the chain of a segment, its heads, acceptance. A take is named by its position in the list, and each walk is an iteration over one number, as many steps as there are takes.

### Stages, gates, releases

**`StageState`** holds the operators of `state.ts`: the reduction
of lifecycle events, the watermark, the replay. **`StageRunner`** composes it with `EventLog`. `pc` follows a session
through `run`: `stageState` (`ReadCache`, `ReadLog`, `Repair`, no lock) for `#assertClaimable` and
again for `#nextOrdinal`, then per attempt three events, each recorded by `#write` under the
stage-state lock (`RecordEvent` takes the lock and appends, `ReadState`, `WriteState`), with
`Execute` between the second and the third. `Execute` chooses among the outcomes the code
distinguishes; `Degrade` is the reduced record after a refused one; `Retry` and `Return` are the loop of `run`.
`Die` is a killed process or a throwing write.

**`GateEngine`** keeps, per gate, its last decision in the log, and per subject the digest of its
current `content`; `Edit` is whatever makes that digest another one. `Decide` binds the digests as a
multiset, as `toSubjectHashes` does. `OwnState`, `Cascade` and `State` are the evaluation, with the cascade as the
code computes it: passes over the registry in its order. It has no specification of its own.
**`Release`** extends it with `ReleaseExecutor`: `pc` and `at` follow one `execute` through its two
loops. In the first, `NotQueried`, `LookupAbsent`, `LookupExists` with `Repair`, and `LookupUnanswered` are
what reconciliation does about an operation; in the second, `PassOver`, the two refusals, `Permit`, `Perform` and `Record`.
`receipt` is the latest receipt of each idempotency key; `remote` and `flying` are the destination: the
effects it holds and the requests it has accepted and not yet worked off (`Land`). `Perform` chooses among the answers of an adapter,
one that throws included; `Die` is a killed process.

**`Workflow`** extends `GateEngine` with the services: `ValidateWorkflowGraph` and `startRun`, `runStage` and `retryStage` taken apart into the
read of the gates, the read of the stages, the runner's claim and the outcome, the gate decisions, `settleSpend`,
`cancelRun`; and with the plan of `nextaction.ts` and the run state of `runstate.ts`, as operators whose value `report` is what `status`
would print in every state. The runner's own steps are one claim and one outcome here.

**`ArtifactRegistry`** has working files that producers overwrite, the index, and the archive addressed by digest:
`register` with supersession, `archive` as look-up, hash, copy, rename and verification, cleanup as plan, verification and
one `Unlink` per file. **`ArtifactLineage`** holds ancestry over digests and the search for cycles.

### Whose word counts

**`Knowledge`** resolves packs: parse, precedence, claims, conflicts, load order, snapshot; packs
are handed over one after the other (`Supply`) and in another order (`Reorder`). **`SchemaVersion`** says which version of a record is newer than this build.
**`Regression`** collects cases, outcomes and blind spots, compares and measures them slice by slice in
fractions, and applies the promotion policy. **`Rework`** runs an evaluating and a repairing stage by the decision of
`decideRework`, with attempts taken over, failed and refused, and reads the rounds off the attempts as `deriveReworkRounds` does.
The approvals `DecideRework` looks at are a parameter of `decideRework` that `reworkStatus` leaves out; whoever passes what the gate approved stands outside the code.
**`McpSurface`** admits a tool call by capability and by what the stage is found to require, and runs it on what the runner then
resolves, while the host registers definitions. **`Cli`** parses an argument vector, folds the config module in, binds a workspace, and calls
a verb; `trail` is what is recorded and `exits` how each command ended. A settlement, an abandonment and a judgement of a take are two steps, as the
code has an `await` and no lock between them: `Check` reads the record and refuses, and a command in `checked` writes later, over a record that may have moved on. **`Doors`** puts the two together.

`MC*` modules give the constants; `*_proofs` modules hold the theorems. Five of them join models, or instances of one model, that share no state, so that one
run asks a question of all of them: a variable `part` says which a behaviour is about, and the rest stand still.
`MCReservationStore` has the parts `reservations` and `records`, `MCSpendService` the parts `dispatch`, `race` and `stage`,
`MCTtsLedger` the parts `approved once`, `approved again` and `people's takes`, `MCArtifactRegistry` the parts `custody` and `lineage`, `MCQuality` the parts `packs`, `corpus`, `rework`, `surface` and `console`.

## The runs

| run | instance | shows |
|---|---|---|
| `FileLock` | 3 sessions, 3 lockIds, expiry, one may be killed | `SuccessIsExclusive`, `LostOnlyToAnother`: of two overlapping sections at most one is told it succeeded; no lease is reported lost that nobody took |
| `FileLockLive` | 2 sessions, 2 lockIds, expiry, renewal, fair | `NoLeak`, `DeadRecordYields`, `AcquireEnds` |
| `ReservationStore` | 2 writers, 3 overlapping batches, calls from revisions 0 and 1; 4 record calls of two builds, 1 fault, 1 lapse of a lease | refines `CommitStream` (`StreamSpec`); `NoGap`, `OneFactPerIdentity`; `AppendedSurvives` and `RecordsSurvive` power loss |
| `SpendService` | 2 processes, 2 effects, ceiling 3, charges up to 3; 3 processes racing for 1 effect with equal clocks and early release; 2 calls of a stage over 2 attempts and 1 key | `NeverOvercommitted`, `OneReservationPerEffect`, `NoSecondCall`, `NoChargeIsLost`, `CallsAreCovered`, `UnknownBlocksGrant`, `TerminalIsFinal` |
| `Reconciliation` | 2 operators, 4 decisions, 2 observations, 1 crash, fair | `FindingsNeverOverwritten`, `NoReleaseWhilePending`, `DecisionsResolve` |
| `StageRunner` | 1 session at a time, 2 stages with 2 attempts each (one not idempotent), 2 commands, 1 death | `CacheIsReplayedPrefix`, `OrdinalsAreUnique`, `StartsAreLicensed` (nothing starts past a gate, a running attempt, or the retry policy) |
| `Release` | 1 execution at a time, 3 operations, 3 gates in a chain, 2 subjects | `AuthorityIsEarned`, `OneShotNotRepeated`, `BestEffortLast` |
| `Workflow` | 2 operators, 2 stages, 2 gates, 5 candidate graphs, 2 troubles (edits, failures, refusals, crashes, detours), fair | `PlanIsHonest` (what is offered is accepted, what is urged can be decided, nothing is passed over in silence), `StartedWasCleared`, `PlanLeadsOn` |
| `ArtifactRegistry` | 2 processes, one of them archiving, 2 artifacts (one irreplaceable), 2 digests, 2 paths, 2 writes by producers; 3 artifacts with up to 2 declared inputs each | `CustodyHolds`, `LineageIsClosure`, `RemovalIsSafe` |
| `TtsLedger` | 2 processes, 2 segments, plans of 2 scopes, one plan and one approval at a time, 2 takes; 1 segment whose plan is recorded and approved twice, so that there are 2 grants; 2 people recording 3 takes | `NotPaidAgain`, `TakesRestOnTheirPlan`, `LineageIsTotal` |
| `Quality` | up to 3 of 8 packs; 3 cases, 2 outcomes, 5 policies, 3 pairs of versions; 3 evaluations, 2 repairs, 2 digests, bounds of 1 and of 2 rounds; 2 tool calls, 5 identities, 5 grants, 8 definitions; 2 command lines of about 45 | `OrderIsImmaterial`, `CleanIsUnambiguous`, `PromotionIsWarranted`, `RoundsAreLicensed`, `DoorsAreHonest` |
| `DeclaredKinds` | as `Quality` | a violation, see below |

*Why the bounds are enough.* Lock races need a victim, the thief and one more contender
to find the thief's record gone, hence three sessions and three records; with two
sessions every disagreement between a reader and a writer is already there. A
commit race needs two writers and a second revision, and a batch that overlaps an earlier one
exercises every answer. Records need one call to create, one by each build, and one more behind a fault.
Overcommitment needs two effects whose estimates do not both
fit, and a charge above its estimate. Two unawaited calls are what it takes to exceed a stage-scoped key or to meet on one billing key,
and the second attempt to meet what the first left; the other two scopes add no check, and a second key only calls that do not meet.
A stage needs one command that dies and one that comes after
it; two stages, because the second one's events move the watermark; a second torn append
behind a first, which can take back an event the cache already holds, is beyond the bound of one death. In `Release` the three operations differ in
everything the executor asks about them (required or not, repeatable, queryable, authorized), a chain of three gates defined
from its end is the shortest that needs a third pass, and one subject with two digests and one that is only
there or missing let approvals drift and content come back; effects are counted to two. The digest the operations
release has one value: an operation over another digest has another key and no receipts. `Workflow` has the shortest workflow in which a
stage produces what a gate binds and a gate waits for another; its graphs are one without edges, one that says everything, and one per
reason to refuse a graph or a stage. The two writes of a producer rewrite a file before and after it was hashed.
Two takes give a segment two heads and a repeated attempt number; a take superseded by two others, which the walks of `orderChain` meet twice, takes three.
Three artifacts make an ancestry two steps deep, a common ancestor reached along two ways, and a cycle the search enters from outside. A bound of two rounds lets an
artifact come back from its own repair, which only the look at earlier rounds stops. Three packs make a tie with a third beside it and a cycle through a third.
Two command lines at a time meet in the reservation or the take they decide, and each may find, when it writes, that the other was there since it read.

Each passing run comes with mutants, at least one per property and one per part of it that
speaks of a module of its own: a dropped check, a swapped order, a forgotten sync, and TLC finds
the property violated by each. Between them the runs take every action and every disjunct of the next-state relations.

*Deadlock* is checked in `SpendService` and `Reconciliation`, where somebody always has something left to do
(in the part `stage`, a finished stage stutters). The others may stop: a lockId is never used twice and
the supply is finite; nobody has to give a further command, execute a release, write a record, hand over a pack or call a tool; bounds are spent.

*Fairness.* A scheduled session takes its next system call, and time passes (weak
fairness of `LockStep` and `Deadline` in `FileLock`). Nothing makes a caller ask for the lock
or a body end. For `DecisionsResolve`, a call not interrupted finishes, and every decision is
submitted again and again by some operator (strong fairness of `Submit`, since an operator
can submit only while he has no call under way); that is what "resumable" asks of the operators.
`AcquireEnds` says nothing when somebody renews for ever, for the reason given below, nor
once the lockIds are spent. For `PlanLeadsOn` a command once given goes on (`Proceed`), and operators again and again run a stage the plan advises,
approve what it urges and settle what is unresolved (weak fairness of each); the troubles are bounded, which is what "once the troubles are over" means. It makes exceptions of a cancelled Run, a rejected gate, a stage whose
attempt was cancelled and a stage whose needs nobody registered: there the plan has nothing to offer, and the code says so or says nothing.

## The proofs

`FileStore_proofs` is about the three models of the file store. Of `FileLock`, for any sets of sessions, hosts and lockIds:

- `LockTypeCorrect`; `NoLockLeaks`, from `DiskInv`, which says that a file not yet
  used is empty.
- `SuccessExclusive`, without renewal. A lockId taken off the disk never comes back, so a
  section that finds its own record both when it starts and when it
  ends had it there all along. `LeaseInv` makes lockIds identify sections,
  `OverlapInv` makes the overlap relation symmetric, and `GoneInv` says that once one of
  two overlapping sections has confirmed its record, the other's is gone for good. With renewal the
  statement is false: a late `renew` writes a lost record back.
- `LostOnlyIfRobbed`, without renewal.

Of `ReservationStore`, for any writers and batches:

- `TypeCorrect` with `StreamInv`: until power is lost `dir` is a sequence and
  nobody expects more than it holds; `Gapless` follows.
- `CallsCorrect`: a caller about to link whose revision is still current proposes
  nothing that clashes. From it `OneFact`, and `Refinement`: `Spec => StreamSpec`, with
  `Link` mapped to `Commit`, the answers to `Answer`, the checks to stuttering.
- `Durable`: what was answered `appended` survives every loss of power. A writer that goes on to answer has had its link synced, and what
  is synced is never given up (`DurableInv`).

Of `RecordStore`, for any clients, builds, schemas and calls that `OperationAssumption` allows, where the marks `Absent` and `Torn` are not
themselves contents (`MarksAreNoContent`, true of the model values a configuration gives):

- `Updated` and `UpdateKeeps`, about `mergeForWrite` alone: a merge over what was read leaves every property it does not know, every one it knows
  and does not change, and every element of the packs as they were; appending to the packs ends only what the build does not know of them.
- `ContentsMeant` (`ContentInv`): what takes a file's name has been synced, so that neither a reader nor a power loss meets anything else.
- `WorkIsLocked` (`HoldInv`): a client at work holds its lock unless a live holder lost one.
- `PromisesKept`, and from it `Survival`, which is `RecordsSurvive`. `WorkInv` says that what a client is about to write is made of what is still there;
  `OwedInv` that what is owed is in every content the disk may come back with, which is what a power loss needs and `RecordsSurvive` does not say.

`SpendService_proofs`, for any processes, effects, charges and ceiling:

- `TypeCorrect`, `TerminalHolds`, `OneReservation` and `UnknownBlocks` follow from `Inductive`. Its parts: `ControlInv`, what each process holds
  at each point of its call; `StreamInv`, the history of a reservation is well formed (no kind twice, "reserved" first, a terminal one last);
  `RevisionInv`, a process whose revision is still current appends nothing that history forbids. The last is what an optimistic append gives
  instead of a lock: what was read is true only as long as the revision is, and the append tells.
- `OneCall`: where no two processes read the same instant (`InstantsDiffer`), an announcement is recognised as one's own only by who made it,
  so one announcement means one call (`OnceInv`, then `DispatchedOnce`). Without the assumption the statement is false, see below.
- `LiveCall` and `NoChargeLost`, where besides nobody releases before the dispatch on an old snapshot: `DispatchInv` says that one process at a
  time dispatches under a reservation and nobody ends it under another's call, `ChargeInv` that what was charged is what that dispatch
  found, and what its last transition will say.
- `WithinCeiling`, under the same assumptions: the costs are read after the stream, outside any lock, so what a process adds up may be newer than its
  revision. `HeadroomInv` says what a committer knows of the total while its revision is current: costs are recorded only under reservations that
  still hold their authorization, so that none can have moved money it did not count. The sums are taken apart by induction over subsets.

The calls of a stage (`Invocations`) run beside the service in `MCSpendService`, and so their theorems are in the same module; for any calls, keys and
attempts:

- `BilledOnceHolds`: no billing key is called for twice, whichever attempt asks.
- `ChargesKept`: of a finished call, a settled reservation has its one charge on record and a released one had none.
- `CallsDeclared`: what has reached a provider is reserved, allowed by the scope of its stage, and on record once its attempt settled.
- `NoCallIsRepeated`, `EveryChargeIsKept` and `EveryCallIsCovered` join these with the ones above into the properties of the composed specification.

`CallInv` says what is known at each place of a call, `BillingInv` that a reservation is its call's own from its announcement on,
`AttemptInv` that what an attempt counted keeps its effectful calls apart and what it recorded names its Workers.

`Reconciliation_proofs`, for any operators, decisions, observations and number of crashes:

- `TypeCorrect`; `NeverOverwritten`; `NothingPendingReleased`. A call looks at what it read before its decision was on the record. What was pending then only
  shrinks, since decisions accumulate, and its own decision is on the record from the moment it goes on (`CallInv`): with the observation it covers
  subtracted, nothing is left. A decision about to be appended is new as long as its revision is current.

`Release_proofs`, for any plan, gates and content (`OneShotHolds` for one session at a time):

- `TypeCorrect`; `BestEffortHolds` for any number of sessions, from `EffectInv`: neither a receipt nor what a session has read of the receipts ever
  claims an effect that is not there, no required operation is recorded as skipped, and what lies behind a session in its second loop has its
  effect if it was required. Effects do not go away, so another session cannot falsify it.
- `OneShotHolds`, assuming `OneSession`: the first loop asks the destination about whatever it left in doubt, and what lies ahead of the
  second loop is as the first loop found it (`QueryInv`), because nobody else performs or records meanwhile. With two sessions it is false, see
  below.
- `AuthorityEarned`: `evaluate` repeats passes over the gates, in the order they were defined, as many times as there are gates. Each pass but the
  last adds a gate to those that are blocked, so the passes end in the least set closed under "is upstream of"; the definition it is compared
  with walks the dependencies instead, and is closed because a chain of gates longer than their number repeats one. Waivers expire and content
  changes back; neither matters, because nothing of the cascade is stored.

`Services_proofs`, first for any stages, gates, candidate graphs and operators:

- `TypeCorrect`; `PlanHonest`. The report a plan is made from is what the state makes of it (`ReportInv`); after that the loops of `nextaction.ts` are compared,
  action by action, with the checks `runStage`, `decideGate` and `settleSpend` make.
- `StartedCleared`: `ClearedInv` says that what an operator was told while he asked has stood at some moment since. What the
  others do in between can take it away again, and does not make it untrue.

and, for the models that say whose word counts:

- `Bounded` (`RoundsAreLicensed`), for any declarations, reports and bounds, of a policy whose bound is a number (`ReworkAssumption`). The decision
  reads the newest evaluation, the rounds are read off the first of each candidate, and either may be taken over, so neither is a step
  ahead of the other. `ReworkInv` says what ties them: the evaluation a repair rests on still stands where it stood, and nothing before it
  is running. `Opened` then shows that a start opens a round over the candidate the decision was about or none, and `Kept` that the rounds read
  again after any step are those read before, or those and one more.
- `PromotionWarranted`, for any records a corpus accepts, with thresholds in integers (`RegressionAssumption`). It is about what is computed from
  a state, so the invariant (`CorpusInv`) only keeps the cases a sequence and the policy one of those there are; the rest is counting. A rate that
  passes a threshold above zero has a case behind it. Without a warning no slice lies below the whole corpus; the slices of one
  dimension partition it, so their counts add up to the corpus's (`Together`), and none lies above it either (`NoneAbove`).
- `Immaterially` (`OrderIsImmaterial`) and `Unambiguous` (`CleanIsUnambiguous`), for any manifests, ladder and context. `KnowledgeAssumption` says that
  precedences are integers, as the schema has it, and that `localeCompare` tells the pack ids apart. The schema does not say the second: ids that differ only by
  what a locale ignores compare as equal, and a tie between two such packs would go to whichever was handed over first. `StrengthIsLinear`: the
  comparison is a linear order wherever ids are distinct, so a sort of it depends on the packs alone (`SameStrongest`). No cycle reported means a load order: `WalkInv`
  follows the depth-first search and says that what is done can be loaded in the order it was done in, while no back edge has been met. Each turn has
  less left to do (`Nearer`), so the search ends within the turns `FindCycles` gives it (`WalkEnds`).
- `Granted` and `Answered`, together `DoorsHonest`, for any sessions and command lines. `SurfaceInv`: a call under way was admitted on the grant its session
  has, and a stage call without the right to spend named a version, or a stage of one version, that needs none. A registration
  replaces no definition (`RegistryInv`), and a second version makes the resolution of a call that named none fail, so the runner never resolves more than was
  checked (`RegisterKeeps`). `CliInv` numbers the invocations, so that a command in progress has left nothing yet and what it leaves is its own, and keeps what
  was found out about a command that has read and not yet written (`LetThrough`). `VerbsCheck` and `VerbsEnd` go through the verbs, `SettingsStay` says why nothing they
  rest on changes before they end; `Standing` ties the reservation to the trail, so that a second abandonment and a contradicting finding meet what the first left.

`StageRunner_proofs`, for any stages, policies, commands and deaths:

- `TypeCorrect`, for any number of sessions. The events stand in the log under their sequence numbers, torn lines or not.
- `CacheFollowsLog`, for one session at a time. `After(lines)[n]` is the state the first `n` events lead to; `ReplayFrom` and `ReplayTo` show
  that a replay from the watermark reaches it from any earlier one, and `CacheInv` that the cache is one of these states and which one, at each place
  of a command. It is proved while `Intact` holds: a second torn append behind a first takes back an event the cache may hold already. The
  corollary `CacheFollowsLogOfOneDeath` is what the run checks.
- `NumbersUnique` and `StartsLicensed`, for one session at a time and any number of deaths: a stage's attempts carry distinct numbers and its status is that of its
  last event, in the cache and in the log (`LinesInv`), so that what the session at work read (`JobAt`) licenses what it appends.
- `PriorEvents > 0` is assumed throughout. It holds of every Run there is: `startRun` logs the creation of the Run (services.ts:390) before
  any stage can be claimed. Without it the three are false, see below.

`ArtifactRegistry_proofs`, for any artifacts, paths, sessions and writes by producers:

- `TypeCorrect`, for any number of archivers: records stay, with their paths and bytes, and a receipt in one stays too (`RecordsStay`).
- `ReceiptsHold` and `NothingOverwritten`, for one archiver (`OneArchiver`). `PutInv`: from the moment an archiver finds no object until it renames its
  copy there is none, because nobody else renames, and a receipt is entered only over an object that was read back and that nothing touches again.
- `RemovalSafe`: `MarkedInv` says that what a plan marks does not become blocked, and that what a cleanup has verified is still so,
  or gone, or was written since.
- `LineageClosed` (`LineageIsClosure`). The invariant is only that the index is well typed: the rest is about the two searches, over any edges.
  A wave of the first that is not the last adds an artifact (`Spreads`), so as many waves as there are artifacts reach all there is to reach
  (`TraverseIs`). Of the second, `SearchInv` says that the path leads from the start along edges already taken, and that as long as no
  cycle is reported, what is finished leads only to what is finished and has no circle in it; each turn takes an edge or leaves a node for good (`Nearer`),
  so it ends within the turns given (`FindCyclesIs`). `RegistryAssumption` has the artifact ids finite: the index is one file, and both searches count what they visit.

`TtsLedger_proofs`, for any segments, plans, processes, outcomes and numbers of approvals:

- `TypeCorrect`, with `IdInv`: every take has an id of its own, in the list or with the process that brings it, so that whoever counts the takes
  of a segment finds fewer than there are ids, and what a person decides about is still what the list holds.
- `PaidOncePerTake`. `CallsInv`: the paid calls of a grant for a segment are the effects of it that went past their reservation, and no effect is
  reserved for an attempt beyond the next one; `AttemptsGrow` says that the list never loses a take, so the numbers of attempts bound the calls.
- `PlansAreKept`. `PlanInv`: what a process holds after `#assertChargeAuthorized` rests on its plan (`Rests`), and nothing recorded or
  approved later changes the first plan under the id or what a decision bound.
- `LineagesTotal` (`LineageIsTotal`). `LinkInv`: what a take supersedes, in the list or with the process that brings it, stands before it,
  because a take is given its link while the list is read and the list only grows. So a chain goes down in position and has ended when there are no
  more takes (`ChainIs`); placing it oldest first keeps each take after what it superseded (`PlaceIs`); and each walk places the take
  it starts from, so as many walks as takes place all of them (`OrderChainIs`). `LedgerAssumption` has `NoTake`, the `undefined` of a take
  that supersedes nothing, differ from every id; without it a take without a link would lead to the take of that name.

Only model-checked: what must eventually happen, which is `DeadRecordYields`, `AcquireEnds`, `DecisionsResolve` and `PlanLeadsOn` (fairness and `ENABLED`
are outside the prover). Every other property of the passing runs is the conclusion of a theorem, several of them under a hypothesis that leaves out histories in which the
code does not keep it: no renewal (`SuccessIsExclusive`, `LostOnlyToAnother`), clocks that differ (`NoSecondCall`) and besides no early release (`NeverOvercommitted`,
`NoChargeIsLost`, `CallsAreCovered`), one session at a time and an earlier event (`OrdinalsAreUnique`, `StartsAreLicensed`, and with at most one death `CacheIsReplayedPrefix`), one session at a
time (`OneShotNotRepeated`), one archiver (`CustodyHolds`, `RemovalIsSafe`). What recursive definitions compute is proved where they recurse
over one natural number, by taking the set of numbers a statement holds for; `ArtifactLineage` and `TakeLineage` are written so.

## What the models show to be different from what the code says

One is kept as a run:

- **A declared actor kind that is refused** (`DeclaredKinds`). A config module may declare who decides takes,
  `loadConfig` accepts it, `withConfig` folds it in, and `servicesFor` drops it; the refusal then tells the operator to declare what he has declared.

The others are described by the definition that fails and the instance to see it in.

*The lock and the stores*

- **Two lock winners.** The file exists before its record does, a reader
  in between removes it (lock.ts:199). The same window follows `#reclaim`'s and `renew`'s checks. Whoever loses
  is told at release, after its body ran. `OneWinner` in `FileLock.cfg` fails.
- A turn of `acquire` that reclaims does not look at the deadline, so contenders facing
  endless renewals can wait past it.
- **A log that can no longer be read.** An append behind a torn line glues the
  two; the newline makes the torn tail an interior line, and every read throws from then on (stores.ts:239). The test that
  appends after a torn tail does not read again. `LogStaysReadable` in `StageRunner.cfg` fails.
- A body that outlives its lease can overwrite an acknowledged record: nothing fences the rename, and `LOCK_LOST` comes after it.
  `RecordsSurvive` speaks of histories without one.
- Unknown fields in arrays of equal length are merged by position (document.ts), so an array whose elements were replaced one for one can
  give a field to another element; `EpisodeStore.put` replaces wholesale.
- `already_present` is answered without an fsync of the entry it rests on, and a power
  loss may leave a gap in the commit files, which the code treats as corruption.

*Stages*

- **A cache that stays behind for good.** `stageState` writes its repair
  without the lock of `#write` and may put an older cache back (runner.ts:478); the next `#write` then moves the watermark
  past the events that cache lacks. The same happens when a session dies between its event and
  its cache and another one, already past its own reading, writes next. `ReplayClosesTheGap` fails with two sessions; with one at a time replay does close the
  gap, which is `CacheIsReplayedPrefix`.
- The first event of a run has sequence 0 and the empty cache the watermark 0, so that event is never
  replayed. A session that dies right after it leaves a queued attempt nobody sees, and the next
  attempt takes its number. Set `PriorEvents = 0` in `StageRunner.cfg` and check
  `ReplayClosesTheGap`; the runs begin with one earlier event.
- Nothing holds the claim on a stage between `#assertClaimable` and the first event. With two sessions
  `OrdinalsAreUnique` and `StartsAreLicensed` fail: both run the stage, under one attempt number.
- `gateHasDecision` asks for any decision of the gate, so that a stage parked a second time on
  the same gate, over other subjects, may be run at once; it parks again.
- The `effect` of an agent request is required (definition.ts:327) and nothing reads it: an agent is called under
  `no_external_effects`, and is not counted for a stage-scoped key nor named in the record of its attempt. `CallsAreDeclared` speaks of Workers there.
- A Worker's charge of unknown size reaches the stage as an ordinary result, while an agent's is answered `billing_unresolved`.
- When one call reports several charges and a cost record cannot be written, the reservation is never marked unknown and stays announced;
  it holds its authorization, and only an operator can end it.

*Money*

- The same effect executed twice in one millisecond announces byte-identical transitions; the
  second counts as a repetition of the first and the provider is called twice. Where clocks agree, as in the instance
  `race` of `MCSpendService`, `DispatchedOnce` fails; where they differ it is proved.
- A charge never recorded: the terminal transition looks at which observations have a decision, not which have
  a record (spend-service.ts:1405 says "Terminal only when nothing is left unrecorded"). Check
  `TerminalWhenRecorded` with `Decision <- OnePerObs` and `MaxCrashes = 0` under `Spec`: the second operator's decision makes
  the reservation terminal before the first one's cost record is written, and if that write then fails no repetition writes it.
- Two concurrent decisions can each see the other's observation as pending; both are
  accepted, neither finishes, and the reservation stays unresolved until one is submitted again.
- Two contradictory decisions about one observation, under different identities, can both
  be recorded.
- A decision becomes durable before `reconcile` asks who charged and for what, and before
  it knows whether the observation it names exists; such a decision is refused on every
  repeat. `DecisionsResolve` excludes these two cases.
- A record of `unknown` amount stays `unknown` after its reservation is settled under
  `<reservation>:reconciled`, so the grant stays indeterminate.
- The check for an existing cost id is outside the lock, so a cost id can occur twice.
- `releaseBeforeDispatch` trusts the snapshot it is given; with a stale one it releases a
  reservation whose call is under way, and so does one read just before the dispatch is
  announced. Nothing in the repository calls it outside the tests.
- A synthesis is permitted against what the grant has left before it reserves, and its charge is recorded in full, so that charges under a grant can exceed it:
  `GrantNeverOverspent` in `TtsLedger.cfg` fails.
- A take is decided by read, check and replace without a lock (ledger.ts:443-474): two `takes decide` at once both succeed, both leave an event, and the second overwrites the first,
  although "a take is decided once". A take refused after its charge was settled leaves the charge without a take, which a person has to record.

*Gates, releases, plans*

- **Published twice after a failure.** An operation whose last receipt says `failed` is performed
  again without asking the destination, however often its later answers are lost (executor.ts:269). `EffectOnce` in `Release.cfg` fails. While no failure is on
  record the destination is asked, which is `OneShotNotRepeated`.
- A pending operation the destination can be asked about, and confirms it does not hold, is refused for ever with
  the message that the destination cannot be queried (executor.ts:509). The comment there says that a receipt
  reconciliation could have resolved "would be terminal"; an absent one stays `pending`.
- Nothing holds a lock during a release. With `Session = {s1, s2}` in `Release.cfg`, `OneShotNotRepeated` fails.
- The digests an operation releases are "what an approval binds" (operation.ts:101), but nothing compares them: `authorize`
  looks at the gate's current subjects, and a bundle assembled before an edit is released under the approval of the edited content.
- Drift is detected on the multiset of digests, so that two subjects of a gate that exchange values are not seen to have
  changed, although binding.ts calls the detection exact.
- A gate that holds a *failed* stage is reported as blocking and its decision is not offered (nextaction.ts:427): `HeldGatesAreOffered`
  in `Workflow.cfg` fails.
- The plan says nothing of a stage whose attempt was cancelled; a gate decided before, or one a stage halted at, is
  urged though its subjects may be gone or a gate upstream voids it; a Run that was cancelled is still run by `runStage`, and of two cancellations the second overwrites the first.
- `runStage` reports unresolved spend as enforced and does not enforce it.

*Artifacts, rework, doors*

- Two archivers that both find no object both rename one into place; the second copy may have been taken after its source was rewritten
  and replaces good bytes (archive.ts:12 says nothing else can overwrite them). `NothingOverwrites` with `Archivers = {s1, s2}` fails. With one archiver it holds (`NothingOverwritten`).
- Cleaning up a reproducible artifact deletes the only bytes of an unarchived irreplaceable one that shares its path.
- A corrupt object left by a failed copy is never replaced, and every later archive of its digest is refused.
- After a takeover by `--force` the superseded evaluation stays `running` on record, and `reworkStatus` keeps asking for reconciliation. A blocking observation settles its attempt
  as failed, so that rounds never see it. The rounds read the first evaluation of a candidate and the decision the newest.
- `--workspace` given before and after the subcommand binds the config to the first and the command to the second, though the comment
  says "both positions produce the same answer" (cli.ts:207).
- `costs settle` names every decision about a reservation `settle:<reservation>` (services.ts) and has no flag for another name. Of two unrecorded observations only one can
  be settled from the command line: the second decision contradicts the first and is refused. Nor has it a flag for who charged, so that `--amount`, where no observation and no
  record of unknown amount survives, is refused after the decision has become durable, and so is every other finding from then on.
- A manifest of another major version is parsed: `parsePackManifestDocument` validates with `knowledgePackManifestSchemaBase`, which checks the form of a version only
  (parse.ts:114), although schema/guard.ts:10 says that "a rule enforced at one entry point and not the other is not a rule" and wraps every exported schema. `Parses` follows the code.
- `costs abandon` does not refuse a decider who transcribes his own word.
- `release reconcile --dry-run` parses the flag and reconciles all the same (cli.ts:1177, 1208); usage.ts:86 says "execute only", so the
  preview of `ExitsTellTheTruth` is that of `release execute`.
- Whether a stage costs money is asked by the MCP surface alone; the runner does not refuse one that requires authorization.

## What the models leave out

- One grant, one run per grant: `reserve` counts only the cost records of its own run. Currencies, and a cost record that carries an
  estimate: an unknown record draws nothing in the model.
- Several charges in one result are in `Invocations`, several observations per settlement in `Reconciliation`; `SpendService` has one of each.
- Each process reads one instant for all its transitions; whether two processes read the same one is a constant.
- The bound on conflict retries: a call may give up after any conflict.
- In `Reconciliation` the revision is the length of this reservation's own history; commits
  of others only add conflicts, which are retried.
- In `Invocations` no two announcements of one key fall into one millisecond, a stage starts calls only while its attempt runs,
  and only the scopes that limit anything are told apart: `worker_invocation` and `not_idempotent` add no check.
- `fsync` is taken to work, and the directories above the commit files to be durable.
- In the stage runner: the input, version and capability checks that refuse before anything is written, `recordOutput` and
  `registerOutput`, metadata and timestamps, backoff. A `stages.json` of another format version reads as empty, which is
  `DeleteCache`. The only events besides the lifecycle's are those the run begins with.
- In the gates: what a definition may say (its validation gives the assumptions of `GateEngine`), transcriptions and reasons, and
  the event after a decision. The subjects provider supplies exactly the keys a gate binds, or too few.
- In the release: `status`, events, and `reconcile: false`, which only tests use. A lookup that answers `exists: false`
  does so after a completed search, as `RemoteState` demands of an adapter; one that answers too early publishes twice.
- In the workflow: the runner's own steps (they are `StageRunner`), and gates a stage halts at that nobody registered.
- In the ledger: scripts and their derivation, the lexicon, the text of a request.
- In the registry: producers' metadata, the formats of the index.
- At the doors: what is printed, reports, and what the verbs other than the modelled ones do once they are called.
- Lock records that a foreign program writes, and clocks that disagree between hosts beyond
  what `Expire` at any moment covers.
- Not modelled at all: the core schemas with redaction and identifiers (pure validation of data the models take as given), the test kit
  and the end-to-end harness (they exercise the program and are no part of it), the scripts of the build.

## Plan

Done: the file lock and the stores, the spend service with the calls of a stage and reconciliation, the event log with stage state and
runner, gates and release, the workflow services, the artifact registry, the TTS ledger with synthesis, knowledge packs, the regression corpus,
rework, the MCP surface and the command line; proofs of the lock, the reservation store, the record stores, the spend service with the calls of a stage, reconciliation, the
release, the workflow services, the stage runner, the artifact registry, the ledger of takes, the resolution of knowledge packs, the rounds of rework,
the promotion of an evaluator and the two doors.

To come, in this order:

1. The outputs of a stage: `recordOutput` and `registerOutput` joined to `ArtifactRegistry`.
2. `StageRunner` under `Workflow` in place of its one claim and one outcome.
