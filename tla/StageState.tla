----------------------------- MODULE StageState -----------------------------
(***************************************************************************)
(* The stage state of one Run, stages.json, and how it follows from the    *)
(* event log: packages/aldus-stage-runner/src/state.ts.  The file is a     *)
(* cache: a watermark (lastEventSequence) and, per stage, its status and   *)
(* the latest snapshot of each attempt.                                    *)
(***************************************************************************)
EXTENDS Integers, SequencesExt

CONSTANTS Stage,     \* the stages of the workflow
          NoStage    \* the stage of an event that is no lifecycle event

(* StageStatus, and the absence of an entry for the stage.                 *)
Unrecorded == "unrecorded"
Terminal == {"succeeded", "failed", "cancelled", "waiting_for_gate"}
StageStatus == {"queued", "running"} \cup Terminal

IsLifecycle(e) == e.stage \in Stage

EmptyStageState ==
    [lastEventSequence |-> 0,
     stages |-> [s \in Stage |-> [status |-> Unrecorded, attempts |-> <<>>]]]

SameAttempt(a, b) == a.call = b.call /\ a.try = b.try

(* The snapshot of the attempt a lifecycle event carries.                  *)
Snapshot(e) == [call |-> e.call, try |-> e.try, ordinal |-> e.ordinal, status |-> e.status]

(* applyLifecycleEvent: the stage takes the status of the event, the       *)
(* attempt is replaced in place or added, the watermark never goes back.   *)
ApplyLifecycleEvent(state, e) ==
    IF ~IsLifecycle(e) THEN state
    ELSE LET old  == state.stages[e.stage].attempts
             seen == {i \in DOMAIN old : SameAttempt(old[i], e)}
             new  == IF seen = {} THEN Append(old, Snapshot(e))
                     ELSE [i \in DOMAIN old |-> IF i = Min(seen) THEN Snapshot(e) ELSE old[i]]
         IN  [lastEventSequence |-> Max({state.lastEventSequence, e.sequence}),
              stages |-> [state.stages EXCEPT ![e.stage] = [status |-> e.status, attempts |-> new]]]

(* log.filter(...).reduce(applyLifecycleEvent, state): which events the     *)
(* filter lets through is said by their places in the log.                  *)
Replay(events, wanted, state) ==
    LET after[i \in 0 .. Len(events)] ==
            IF i = 0 THEN state
            ELSE IF i \in wanted THEN ApplyLifecycleEvent(after[i - 1], events[i])
            ELSE after[i - 1]
    IN  after[Len(events)]

RebuildStageState(events) == Replay(events, DOMAIN events, EmptyStageState)

(* Mutant: the watermark is taken for the next event to be seen.           *)
PendingFromNext(events, cached) ==
    {i \in DOMAIN events :
        IsLifecycle(events[i]) /\ events[i].sequence > cached.lastEventSequence + 1}

(* reconcileStageState: replay what lies behind the watermark.             *)
Pending(events, cached) ==
    {i \in DOMAIN events :
        IsLifecycle(events[i]) /\ events[i].sequence > cached.lastEventSequence}

ReconcileStageState(events, cached) == Replay(events, Pending(events, cached), cached)

(* Mutant: only the attempts that settled are counted.                     *)
NextOrdinalOfSettled(state, s) ==
    Len(SelectSeq(state.stages[s].attempts, LAMBDA a : a.status \in Terminal)) + 1

(* StageRunner.#nextOrdinal (runner.ts): one more than the highest attempt *)
(* number of the stage.                                                    *)
NextOrdinal(state, s) == Max({0} \cup {a.ordinal : a \in Range(state.stages[s].attempts)}) + 1
=============================================================================
