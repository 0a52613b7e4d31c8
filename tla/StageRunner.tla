---------------------------- MODULE StageRunner ----------------------------
(***************************************************************************)
(* The stages of one Run being run: StageRunner.run of                     *)
(* packages/aldus-stage-runner/src/runner.ts over the event log (EventLog) *)
(* and the stages.json cache (StageState).                                 *)
(*                                                                         *)
(* Every member of Proc is a session: it runs a stage, or asks for the     *)
(* stage state (`aldus status`), one command at a time.  stageState reads  *)
(* the cache, reads the log and writes the cache, each a step of its own   *)
(* and under no lock.  #write holds the stage-state lock over its append   *)
(* and its update of the cache (the lock is module FileLock's; here it is  *)
(* a variable that says who holds it).                                     *)
(***************************************************************************)
EXTENDS EventLog, StageState

CONSTANTS
    Proc,            \* the sessions
    NoProc,          \* nobody holds the stage-state lock
    MaxAttempts,     \* retryPolicy.maxAttempts of each stage
    NotIdempotent,   \* the stages whose retrySafety is not_idempotent
    PriorEvents,     \* how many other events the Run's log begins with
    MaxCalls,        \* bound: commands that run a stage
    MaxDeaths        \* bound: sessions that die, or whose write throws

ASSUME StageRunnerAssumption ==
    /\ NoStage \notin Stage /\ NoProc \notin Proc
    /\ MaxAttempts \in [Stage -> Nat \ {0}]
    /\ NotIdempotent \subseteq Stage
    /\ {PriorEvents, MaxCalls, MaxDeaths} \subseteq Nat

VARIABLES
    cache,     \* stages.json
    lock,      \* who holds stage-state-{run}
    calls,     \* history: the commands given, each with its stage and --force
    decided,   \* the stages whose gate has a decision in this Run
    pc,        \* where each session is
    job,       \* the locals of run and #attempt in each session
    snap,      \* the stage state a session has read
    aborted,   \* whether the caller's AbortSignal has fired
    deaths     \* bound

vars == <<lines, tail, cache, lock, calls, decided, pc, job, snap, aborted, deaths>>

-----------------------------------------------------------------------------
(* A job: the command (an index of calls, 0 for a status), which attempt   *)
(* of it, the attempt's number, why the state is being read, the event to  *)
(* be recorded and whether Core's schema refuses it as it is.              *)
NoEvent == [stage |-> NoStage, sequence |-> 0]
NoJob == [call |-> 0, try |-> 0, ordinal |-> 0, for |-> "status", event |-> NoEvent,
          oversized |-> FALSE]

StageOf(p) == calls[job[p].call].stage
Forced(p) == calls[job[p].call].force

(* A failed attempt's error is retryable or final (StructuredError's       *)
(* category and retryable flag); degraded when the record was reduced.     *)
Errors == {"none", "retryable", "final"}

LifecycleEvent(p, status, error) ==
    [stage |-> StageOf(p), call |-> job[p].call, try |-> job[p].try,
     ordinal |-> job[p].ordinal, status |-> status, error |-> error,
     degraded |-> FALSE, sequence |-> 0]

Init ==
    /\ lines = [i \in 1..PriorEvents |-> [stage |-> NoStage, sequence |-> i - 1]]
    /\ tail = "clean"
    /\ cache = EmptyStageState
    /\ lock = NoProc
    /\ calls = <<>>
    /\ decided = {}
    /\ pc = [p \in Proc |-> "idle"]
    /\ job = [p \in Proc |-> NoJob]
    /\ snap = [p \in Proc |-> EmptyStageState]
    /\ aborted = [p \in Proc |-> FALSE]
    /\ deaths = 0

Goto(p, label) == pc' = [pc EXCEPT ![p] = label]

(* The command is over: it returned, was refused or threw.                 *)
Finish(p) ==
    /\ Goto(p, "idle")
    /\ job' = [job EXCEPT ![p] = NoJob]
    /\ snap' = [snap EXCEPT ![p] = EmptyStageState]
    /\ aborted' = [aborted EXCEPT ![p] = FALSE]

-----------------------------------------------------------------------------
(* The operator.                                                           *)

Run(p, s, force) ==
    /\ pc[p] = "idle" /\ Len(calls) < MaxCalls
    /\ calls' = Append(calls, [stage |-> s, force |-> force])
    /\ job' = [job EXCEPT ![p] = [NoJob EXCEPT !.call = Len(calls) + 1, !.for = "claim"]]
    /\ Goto(p, "readCache")
    /\ UNCHANGED <<lines, tail, cache, lock, decided, snap, aborted, deaths>>

(* `aldus status`: stageState and nothing else.                            *)
Status(p) ==
    /\ pc[p] = "idle"
    /\ Goto(p, "readCache")
    /\ UNCHANGED <<lines, tail, cache, lock, calls, decided, job, snap, aborted, deaths>>

(* The caller's signal; it is looked at only when an execution ends, so    *)
(* that firing it earlier is the same as firing it then.                   *)
Abort(p) ==
    /\ pc[p] = "execute" /\ ~aborted[p]
    /\ aborted' = [aborted EXCEPT ![p] = TRUE]
    /\ UNCHANGED <<lines, tail, cache, lock, calls, decided, pc, job, snap, deaths>>

(* The gate engine records a decision on the gate of the stage.            *)
DecideGate(s) ==
    /\ s \notin decided
    /\ decided' = decided \cup {s}
    /\ UNCHANGED <<lines, tail, cache, lock, calls, pc, job, snap, aborted, deaths>>

(* "It is a cache and can be deleted": between commands.                   *)
DeleteCache ==
    /\ \A p \in Proc : pc[p] = "idle"
    /\ cache # EmptyStageState
    /\ cache' = EmptyStageState
    /\ UNCHANGED <<lines, tail, lock, calls, decided, pc, job, snap, aborted, deaths>>

-----------------------------------------------------------------------------
(* stageState: read stages.json, read the log, write what was replayed.    *)

ReadCache(p) ==
    /\ pc[p] = "readCache"
    /\ snap' = [snap EXCEPT ![p] = cache]
    /\ Goto(p, "readLog")
    /\ UNCHANGED <<lines, tail, cache, lock, calls, decided, job, aborted, deaths>>

ReadLog(p) ==
    /\ pc[p] = "readLog"
    /\ IF Readable
       THEN /\ snap' = [snap EXCEPT ![p] = ReconcileStageState(lines, snap[p])]
            /\ Goto(p, IF Pending(lines, snap[p]) = {} THEN job[p].for ELSE "repair")
            /\ UNCHANGED <<job, aborted>>
       ELSE Finish(p)
    /\ UNCHANGED <<lines, tail, cache, lock, calls, decided, deaths>>

Repair(p) ==
    /\ pc[p] = "repair"
    /\ cache' = snap[p]
    /\ Goto(p, job[p].for)
    /\ UNCHANGED <<lines, tail, lock, calls, decided, job, snap, aborted, deaths>>

ReportStatus(p) ==
    /\ pc[p] = "status"
    /\ Finish(p)
    /\ UNCHANGED <<lines, tail, cache, lock, calls, decided, deaths>>

-----------------------------------------------------------------------------
(* run: assertClaimable, nextOrdinal, then the attempts.                   *)

(* Mutant: the decision of the gate is not asked for.                      *)
ClaimableUndecided(state, s, force) == state.stages[s].status = "running" => force

(* A stage parked on a gate needs a decision, a running one needs --force. *)
Claimable(state, s, force) ==
    LET status == state.stages[s].status
    IN  CASE status = "waiting_for_gate" -> s \in decided
          [] status = "running"          -> force
          [] OTHER                       -> TRUE

AssertClaimable(p) ==
    /\ pc[p] = "claim"
    /\ IF Claimable(snap[p], StageOf(p), Forced(p))
       THEN /\ job' = [job EXCEPT ![p].for = "ordinal"]
            /\ Goto(p, "readCache")
            /\ UNCHANGED <<snap, aborted>>
       ELSE Finish(p)
    /\ UNCHANGED <<lines, tail, cache, lock, calls, decided, deaths>>

(* #attempt from its start: the queued event is what it records first.     *)
BeginAttempt(p, try, ordinal) ==
    /\ job' = [job EXCEPT ![p] =
           [@ EXCEPT !.try = try, !.ordinal = ordinal, !.oversized = FALSE,
                     !.event = [LifecycleEvent(p, "queued", "none")
                                EXCEPT !.try = try, !.ordinal = ordinal]]]
    /\ snap' = [snap EXCEPT ![p] = EmptyStageState]
    /\ Goto(p, "record")

AssignOrdinal(p) ==
    /\ pc[p] = "ordinal"
    /\ BeginAttempt(p, 1, NextOrdinal(snap[p], StageOf(p)))
    /\ UNCHANGED <<lines, tail, cache, lock, calls, decided, aborted, deaths>>

(* What an execution may come to: the status and error #terminal is given. *)
(* A stage that throws fails, retryably if the error says so.              *)
ThrownOutcomes == {<<"failed", "retryable">>, <<"failed", "final">>}

(* One that stops at a gate is parked, or failed: the gate is none it can  *)
(* wait on, or is satisfied over the very subjects it asks about.          *)
GateOutcomes == {<<"waiting_for_gate", "none">>, <<"failed", "final">>}

(* An evaluation ends it when a finding is of an undeclared class or kind, *)
(* or of a class declared blocking.                                        *)
EvaluationOutcomes == {<<"failed", "final">>}

(* A value is refused by the output schema or the artifact contract, or it *)
(* is the stage's success.                                                 *)
OutputOutcomes == {<<"failed", "final">>, <<"succeeded", "none">>}

(* A cancelled signal is looked at first.                                  *)
Outcomes(p) ==
    IF aborted[p] THEN {<<"cancelled", "final">>}
    ELSE ThrownOutcomes \cup GateOutcomes \cup EvaluationOutcomes \cup OutputOutcomes

Execute(p) ==
    /\ pc[p] = "execute"
    /\ \E o \in Outcomes(p), oversized \in BOOLEAN :
          /\ oversized => o[1] = "failed"
          /\ job' = [job EXCEPT ![p].event = LifecycleEvent(p, o[1], o[2]),
                                ![p].oversized = oversized]
    /\ Goto(p, "record")
    /\ UNCHANGED <<lines, tail, cache, lock, calls, decided, snap, aborted, deaths>>

-----------------------------------------------------------------------------
(* #record and #write.                                                     *)

(* The lock is taken and the event appended.                               *)
RecordEvent(p) ==
    /\ pc[p] = "record" /\ lock = NoProc /\ ~job[p].oversized
    /\ AppendLine(job[p].event)
    /\ lock' = p
    /\ job' = [job EXCEPT ![p].event = Stored(@)]
    /\ Goto(p, "readState")
    /\ UNCHANGED <<cache, calls, decided, snap, aborted, deaths>>

(* Core's schema refuses the event: nothing is written, and the reduced    *)
(* event takes its place.                                                  *)
Degrade(p) ==
    /\ pc[p] = "record" /\ lock = NoProc /\ job[p].oversized /\ Readable
    /\ job' = [job EXCEPT ![p].event.degraded = TRUE, ![p].oversized = FALSE]
    /\ UNCHANGED <<lines, tail, cache, lock, calls, decided, pc, snap, aborted, deaths>>

(* append throws on a log it cannot read, and so does run.                 *)
RecordRefused(p) ==
    /\ pc[p] = "record" /\ lock = NoProc /\ ~Readable
    /\ Finish(p)
    /\ UNCHANGED <<lines, tail, cache, lock, calls, decided, deaths>>

ReadState(p) ==
    /\ pc[p] = "readState"
    /\ snap' = [snap EXCEPT ![p] = cache]
    /\ Goto(p, "writeState")
    /\ UNCHANGED <<lines, tail, cache, lock, calls, decided, job, aborted, deaths>>

(* The cache is written, the lock released; a queued attempt starts, a     *)
(* started one executes.                                                   *)
WriteState(p) ==
    LET e == job[p].event
    IN  /\ pc[p] = "writeState"
        /\ cache' = ApplyLifecycleEvent(snap[p], e)
        /\ lock' = NoProc
        /\ snap' = [snap EXCEPT ![p] = EmptyStageState]
        /\ \/ /\ e.status = "queued"
              /\ job' = [job EXCEPT ![p].event = LifecycleEvent(p, "running", "none")]
              /\ Goto(p, "record")
           \/ /\ e.status = "running"
              /\ Goto(p, "execute")
              /\ UNCHANGED job
           \/ /\ e.status \in Terminal
              /\ Goto(p, "settled")
              /\ UNCHANGED job
        /\ UNCHANGED <<lines, tail, calls, decided, aborted, deaths>>

(* #mayRetry, and the count of the retry loop.                             *)
MayRetry(p) ==
    LET e == job[p].event
    IN  /\ e.status = "failed" /\ e.error = "retryable"
        /\ e.stage \notin NotIdempotent
        /\ job[p].try < MaxAttempts[e.stage]

Retry(p) ==
    /\ pc[p] = "settled" /\ MayRetry(p)
    /\ BeginAttempt(p, job[p].try + 1, job[p].ordinal + 1)
    /\ UNCHANGED <<lines, tail, cache, lock, calls, decided, aborted, deaths>>

Return(p) ==
    /\ pc[p] = "settled" /\ ~MayRetry(p)
    /\ Finish(p)
    /\ UNCHANGED <<lines, tail, cache, lock, calls, decided, deaths>>

-----------------------------------------------------------------------------
(* The session dies, or a lock or a write fails it and run throws: what it *)
(* knew is gone and its lock is free.  It may die while it appends.        *)
Die(p) ==
    /\ pc[p] # "idle" /\ deaths < MaxDeaths
    /\ deaths' = deaths + 1
    /\ lock' = IF lock = p THEN NoProc ELSE lock
    /\ Finish(p)
    /\ \/ UNCHANGED <<lines, tail>>
       \/ /\ pc[p] = "record" /\ lock = NoProc /\ ~job[p].oversized
          /\ TornAppend(job[p].event)
    /\ UNCHANGED <<cache, calls, decided>>

Next ==
    \/ DeleteCache
    \/ \E s \in Stage : DecideGate(s)
    \/ \E p \in Proc :
          \/ \E s \in Stage, force \in BOOLEAN : Run(p, s, force)
          \/ Status(p) \/ Abort(p)
          \/ ReadCache(p) \/ ReadLog(p) \/ Repair(p) \/ ReportStatus(p)
          \/ AssertClaimable(p) \/ AssignOrdinal(p) \/ Execute(p)
          \/ RecordEvent(p) \/ Degrade(p) \/ RecordRefused(p)
          \/ ReadState(p) \/ WriteState(p)
          \/ Retry(p) \/ Return(p) \/ Die(p)

Spec == Init /\ [][Next]_vars

-----------------------------------------------------------------------------
(* Properties.                                                             *)

Labels == {"idle", "readCache", "readLog", "repair", "status", "claim", "ordinal", "record",
           "readState", "writeState", "execute", "settled"}

TypeOK ==
    /\ tail \in Tails /\ lock \in Proc \cup {NoProc}
    /\ \A e \in Range(lines) : e.stage \in Stage \cup {NoStage} /\ e.sequence \in Nat
    /\ calls \in Seq([stage : Stage, force : BOOLEAN])
    /\ decided \subseteq Stage
    /\ pc \in [Proc -> Labels] /\ aborted \in [Proc -> BOOLEAN]
    /\ \A c \in {cache} \cup Range(snap) :
          /\ c.lastEventSequence \in Nat
          /\ \A s \in Stage : c.stages[s].status \in StageStatus \cup {Unrecorded}
    /\ deaths \in 0..MaxDeaths

(* The cache is what the log up to its watermark says: never ahead of it,  *)
(* never missing one of the events it claims to hold, whatever died in     *)
(* between (state.ts:18-22, #record of runner.ts).  The log has to be      *)
(* readable, and one session at work at a time.                            *)
CacheIsReplayedPrefix ==
    Readable =>
        cache = Replay(lines, {i \in DOMAIN lines : lines[i].sequence <= cache.lastEventSequence},
                       EmptyStageState)

(* No two attempts of a stage carry the same number, although a death can  *)
(* hide the last one from the cache (#nextOrdinal of runner.ts).           *)
OrdinalsAreUnique ==
    \A i, j \in DOMAIN lines :
        (/\ IsLifecycle(lines[i]) /\ IsLifecycle(lines[j])
         /\ lines[i].stage = lines[j].stage /\ lines[i].ordinal = lines[j].ordinal)
            => SameAttempt(lines[i], lines[j])

(* The j-th event begins an attempt of a stage whose event before it, the  *)
(* i-th, left the stage at a status.                                       *)
StartsAfter(i, j, status) ==
    /\ i < j /\ IsLifecycle(lines[j])
    /\ lines[j].status = "queued"
    /\ lines[i].stage = lines[j].stage /\ lines[i].status = status
    /\ \A k \in i + 1 .. j - 1 : lines[k].stage # lines[j].stage

(* A stage parked on a gate is not run again before that gate has a        *)
(* decision, and one whose last attempt is still running is taken over     *)
(* only by a command with --force (#assertClaimable of runner.ts).         *)
OnlyClaimableStagesStart ==
    \A i, j \in DOMAIN lines :
        /\ StartsAfter(i, j, "waiting_for_gate") => lines[j].stage \in decided
        /\ StartsAfter(i, j, "running") => calls[lines[j].call].force

(* A further attempt of one command follows a recorded, retryable failure  *)
(* of a stage that may be repeated, within the stage's policy              *)
(* (#mayRetry and the loop of run in runner.ts).                           *)
FailedBefore(j) ==
    \E i \in 1 .. j - 1 :
        /\ lines[i].stage = lines[j].stage
        /\ lines[i].call = lines[j].call /\ lines[i].try = lines[j].try - 1
        /\ lines[i].status = "failed" /\ lines[i].error = "retryable"

RetriesAreLicensed ==
    \A j \in DOMAIN lines :
        (IsLifecycle(lines[j]) /\ lines[j].status = "queued" /\ lines[j].try > 1) =>
            /\ lines[j].try <= MaxAttempts[lines[j].stage]
            /\ lines[j].stage \notin NotIdempotent
            /\ FailedBefore(j)

(* No attempt of a stage starts but for a reason on record.                 *)
StartsAreLicensed == OnlyClaimableStagesStart /\ RetriesAreLicensed

(* "Discarding it with a report is recovery" (jsonl.ts:10-13), and an      *)
(* append after it is the recovery a test of the file store asserts        *)
(* (stores.test.ts:324): the log can always be read.                       *)
LogStaysReadable == Readable

(* "A watermark on the cache makes the gap detectable, and replay closes   *)
(* it" (state.ts:20-22): when no session is at work, the state the next    *)
(* reader gets is the one the log alone gives.                             *)
ReplayClosesTheGap ==
    (Readable /\ \A p \in Proc : pc[p] = "idle") =>
        ReconcileStageState(lines, cache).stages = RebuildStageState(lines).stages
=============================================================================
