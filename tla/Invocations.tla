---------------------------- MODULE Invocations ----------------------------
(***************************************************************************)
(* What a stage asks of its context within an attempt: runWorker            *)
(* (aldus-stage-runner/src/runner.ts with RuntimePaidDispatchController,    *)
(* aldus-services/src/paid-dispatch.ts) and runAgent (with                  *)
(* RuntimeStageAgentDispatcher and AgentExecutionService).  A stage need    *)
(* not await what it asks for: its calls interleave at every await, with    *)
(* each other, with the attempt that settles without them, and with the     *)
(* next attempt, which bills the same effects.                              *)
(*                                                                         *)
(* A reservation is here what SpendService keeps of it, one per billed      *)
(* effect and performer, its transitions conditional and one at a time.     *)
(***************************************************************************)
EXTENDS Naturals, FiniteSets

CONSTANTS
  Calls,     \* bound on the calls a stage makes, numbered as it makes them
  Key, Free, \* billingEffectKeys, and the declaration that nothing is billed
  Scopes,    \* what it may declare of its effects: retrySafety and keyScope
  Attempts   \* bound on the attempts of the stage

InvocationsAssumption ==
  /\ Free \notin Key /\ Calls \in Nat \ {0} /\ Attempts \in Nat \ {0}
  /\ Scopes \subseteq {"no_external_effects", "stage", "worker_invocation", "not_idempotent"}

VARIABLES
  scope,       \* what the stage declares of its effects
  ordinal,     \* its current attempt
  running,     \* TRUE until the stage returns or throws
  effects,     \* effectfulInvocations
  invoked,     \* workerInvocations
  recorded,    \* recorded[o]: the invocations the settled attempt o names
  ask,         \* ask[c]: what was asked for
  attempt,     \* attempt[c]: the attempt that asked
  at,          \* at[c]: where the call is
  answer,      \* answer[c]: what came of it
  reservation, \* reservation[k]: the last transition of effect k's reservation
  written,     \* written[c]: its charges in the cost store
  told,        \* told[c]: what the stage was told
  called       \* history: the calls that reached a provider

attemptVars == <<scope, ordinal, running, effects, invoked, recorded>>
billing == <<reservation, written>>
invocationVars == <<attemptVars, ask, attempt, at, answer, told, billing, called>>

Call == 1 .. Calls
Billed == {"worker", "agent"} \X Key

(* StageWorkerRequest and StageAgentRequest; nothing reads what an agent is  *)
(* asked to declare of its effect.                                           *)
Ask == [by : {"worker"}, effect : {"none", "deduplicated"}, key : Key \cup {Free}]
       \cup [by : {"agent"}, effect : {"none"}, key : Key \cup {Free}]

NoAsk == [by |-> "none", effect |-> "none", key |-> Free]

(* What may come of a call: its provider threw, declared that nothing was    *)
(* dispatched, or answered without a cost record, with records of nothing    *)
(* owed, of one charge, of one it cannot size, or of two; or its charge      *)
(* could not be recorded.  How many records are of charges:                  *)
IsChargeBearing ==
  [threw |-> 0, undispatched |-> 0, silent |-> 0, uncharged |-> 0, charge |-> 1, unknown |-> 1,
   charges |-> 2, unrecorded |-> 1]

Answer == DOMAIN IsChargeBearing \ {"unrecorded"}

(* Mutant of ResolvesAs: silence counts as evidence that nothing is owed.    *)
ResolvesSilently ==
  [threw |-> "billing_unknown", undispatched |-> "released", silent |-> "released",
   uncharged |-> "released", charge |-> "settled", unknown |-> "billing_unknown",
   charges |-> "billing_unknown", unrecorded |-> "billing_unknown"]

(* markUnknown, releaseUndispatched or settle, and what they append.         *)
ResolvesAs ==
  [threw |-> "billing_unknown", undispatched |-> "released", silent |-> "billing_unknown",
   uncharged |-> "released", charge |-> "settled", unknown |-> "billing_unknown",
   charges |-> "billing_unknown", unrecorded |-> "billing_unknown"]

Paid(c) == ask[c].key # Free
EffectOf(c) == <<ask[c].by, ask[c].key>>
Effectful(c) == ask[c].effect = "deduplicated"

(* A backend throws that it did not dispatch, or returns it.  A Worker's     *)
(* unknown charge reaches the stage with its result.                         *)
Outcomes(c) ==
  CASE answer[c] \in {"threw", "charges", "unrecorded"} -> {"failure"}
    [] answer[c] = "undispatched" -> {"failure", "result"}
    [] answer[c] = "silent" /\ Paid(c) ->
         IF ask[c].by = "agent" THEN {"billing_unresolved"} ELSE {"failure"}
    [] answer[c] = "unknown" /\ ask[c].by = "agent" -> {"billing_unresolved"}
    [] OTHER -> {"result"}

(* The event of an agent's execution may not be written: its call fails.     *)
Tells(c) == Outcomes(c) \cup (IF ask[c].by = "agent" THEN {"failure"} ELSE {})

InvocationsInit ==
  /\ scope \in Scopes
  /\ ordinal = 1 /\ running = TRUE /\ effects = 0 /\ invoked = {}
  /\ recorded = [o \in 1 .. Attempts |-> {}]
  /\ ask = [c \in Call |-> NoAsk]
  /\ attempt = [c \in Call |-> 0]
  /\ at = [c \in Call |-> "idle"]
  /\ answer = [c \in Call |-> "none"]
  /\ told = [c \in Call |-> "nothing"]
  /\ reservation = [k \in Billed |-> "none"]
  /\ written = [c \in Call |-> 0]
  /\ called = {}

Moves(c, l) == at' = [at EXCEPT ![c] = l] /\ UNCHANGED <<ask, attempt, told>>

Done(c, outcome) ==
  /\ at' = [at EXCEPT ![c] = "done"]
  /\ told' = [told EXCEPT ![c] = outcome]
  /\ UNCHANGED <<ask, attempt>>

Fails(c) == Done(c, "failure")

(* It throws before a provider is reached: what was asked for is moot.       *)
Refused(c) ==
  /\ at' = [at EXCEPT ![c] = "done"]
  /\ told' = [told EXCEPT ![c] = "failure"]
  /\ ask' = [ask EXCEPT ![c] = NoAsk]
  /\ attempt' = [attempt EXCEPT ![c] = 0]

Begins(c) == Moves(c, "provider") /\ called' = called \cup {c}

Calling(c) == running /\ at[c] = "idle" /\ \A d \in 1 .. c - 1 : at[d] # "idle"

(* "A refusal arriving once an external system has been written to is not a  *)
(* refusal": a request that declares no effect or no key, or one its stage   *)
(* does not declare, is refused, as is an agent without dispatcher ...       *)
InvokeUndeclared(c) ==
  /\ Calling(c)
  /\ Refused(c)
  /\ UNCHANGED <<attemptVars, answer, billing, called>>

(* Mutant of ScopeExceeded: the count is read before it is raised.           *)
ScopeExceededLate == scope = "stage" /\ effects > 1

(* ... "a stage-scoped key identifies one effect" ...                        *)
ScopeExceeded == scope = "stage" /\ effects + 1 > 1

Raise(a) == effects' = IF a.effect = "deduplicated" THEN effects + 1 ELSE effects

InvokeExceeding(c, a) ==
  /\ Calling(c)
  /\ a.effect = "deduplicated" /\ ScopeExceeded
  /\ Raise(a)
  /\ Refused(c)
  /\ UNCHANGED <<scope, ordinal, running, invoked, recorded, answer, billing, called>>

(* ... and a Worker invocation is named before anything is awaited, the      *)
(* registry it may not be found in included.                                 *)
Invoke(c, a) ==
  /\ Calling(c)
  /\ a.effect = "deduplicated" => scope # "no_external_effects" /\ ~ScopeExceeded
  /\ Raise(a)
  /\ invoked' = IF a.by = "worker" THEN invoked \cup {c} ELSE invoked
  /\ \/ /\ ask' = [ask EXCEPT ![c] = a]
        /\ attempt' = [attempt EXCEPT ![c] = ordinal]
        /\ at' = [at EXCEPT ![c] = "capabilities"]
        /\ UNCHANGED told
     \/ Refused(c)
  /\ UNCHANGED <<scope, ordinal, running, recorded, answer, billing, called>>

(* The capabilities are in.  The Worker may lack one; the spend may be       *)
(* undeclared, or have no controller or operation to be authorized by.       *)
Checked(c) ==
  /\ at[c] = "capabilities"
  /\ \/ Paid(c) /\ Moves(c, "reserve") /\ UNCHANGED called
     \/ ~Paid(c) /\ Begins(c)
     \/ Refused(c) /\ UNCHANGED called
  /\ UNCHANGED <<attemptVars, answer, billing>>

(* reserve: the effect's own reservation, in whatever state, or a new one,   *)
(* unless the grant refuses.                                                 *)
Reserve(c) ==
  /\ at[c] = "reserve"
  /\ \/ /\ reservation' = IF reservation[EffectOf(c)] = "none"
                          THEN [reservation EXCEPT ![EffectOf(c)] = "reserved"] ELSE reservation
        /\ Moves(c, "prepare")
     \/ Refused(c) /\ UNCHANGED reservation
  /\ UNCHANGED <<attemptVars, answer, written, called>>

(* Mutant of Prepare: a reservation in hand is enough.                       *)
PrepareAnyway(c) ==
  /\ at[c] = "prepare"
  /\ reservation' = [reservation EXCEPT ![EffectOf(c)] = "dispatch_prepared"]
  /\ Begins(c)
  /\ UNCHANGED <<attemptVars, answer, written>>

(* prepareDispatch is legal of an undispatched reservation, and may fail.    *)
Prepare(c) ==
  /\ at[c] = "prepare"
  /\ \/ /\ reservation[EffectOf(c)] = "reserved"
        /\ reservation' = [reservation EXCEPT ![EffectOf(c)] = "dispatch_prepared"]
        /\ Begins(c)
     \/ Refused(c) /\ UNCHANGED <<reservation, called>>
  /\ UNCHANGED <<attemptVars, answer, written>>

(* The provider is done.  Charges are recorded first; then a paid call's     *)
(* reservation is resolved.  Only a backend declares that it dispatched      *)
(* nothing, and a charge it reports overrides it.                            *)
Return(c, a) ==
  /\ at[c] = "provider"
  /\ a = "undispatched" => ask[c].by = "agent"
  /\ answer' = [answer EXCEPT ![c] = a]
  /\ Moves(c, IF IsChargeBearing[a] > 0 THEN "record" ELSE "resolve")
  /\ UNCHANGED <<attemptVars, billing, called>>

(* One cost record, of settle, markUnknown or recordUnauthorized ...         *)
Record(c) ==
  /\ at[c] = "record"
  /\ written' = [written EXCEPT ![c] = @ + 1]
  /\ Moves(c, IF written[c] + 1 < IsChargeBearing[answer[c]] THEN "record" ELSE "resolve")
  /\ UNCHANGED <<attemptVars, answer, reservation, called>>

(* ... which cannot be written: settle marks the reservation unresolved, the *)
(* others just throw.                                                        *)
RecordRefused(c) ==
  /\ at[c] = "record"
  /\ IF Paid(c) /\ answer[c] # "charges"
     THEN Moves(c, "resolve") /\ answer' = [answer EXCEPT ![c] = "unrecorded"]
     ELSE Fails(c) /\ UNCHANGED answer
  /\ UNCHANGED <<attemptVars, billing, called>>

(* The reservation is resolved and the stage is told.  A call declared free  *)
(* has none, and fails if it was charged for.                                *)
Resolve(c) ==
  /\ at[c] = "resolve"
  /\ IF Paid(c)
     THEN /\ reservation' = [reservation EXCEPT ![EffectOf(c)] = ResolvesAs[answer[c]]]
          /\ \E outcome \in Tells(c) : Done(c, outcome)
     ELSE /\ IF written[c] > 0 THEN Fails(c) ELSE \E outcome \in Tells(c) : Done(c, outcome)
          /\ UNCHANGED reservation
  /\ UNCHANGED <<attemptVars, answer, written, called>>

ResolveFails(c) ==
  /\ at[c] = "resolve"
  /\ Paid(c)
  /\ Fails(c)
  /\ UNCHANGED <<attemptVars, answer, billing, called>>

(* Mutant of Settles: the metadata is what it was when the attempt began.    *)
SettlesAsBegun ==
  /\ running
  /\ running' = FALSE
  /\ recorded' = [recorded EXCEPT ![ordinal] = {}]
  /\ UNCHANGED <<scope, ordinal, effects, invoked, ask, attempt, at, answer, told, billing, called>>

(* The stage returns or throws, whatever it left under way: the metadata of  *)
(* the attempt is bound late.                                                *)
Settles ==
  /\ running
  /\ running' = FALSE
  /\ recorded' = [recorded EXCEPT ![ordinal] = invoked]
  /\ UNCHANGED <<scope, ordinal, effects, invoked, ask, attempt, at, answer, told, billing, called>>

(* Another attempt, with locals of its own.                                  *)
Retries ==
  /\ ~running
  /\ ordinal < Attempts
  /\ running' = TRUE /\ ordinal' = ordinal + 1
  /\ effects' = 0 /\ invoked' = {}
  /\ UNCHANGED <<scope, recorded, ask, attempt, at, answer, told, billing, called>>

InvocationsNext ==
  \/ \E c \in Call :
       \/ InvokeUndeclared(c)
       \/ \E a \in Ask : InvokeExceeding(c, a) \/ Invoke(c, a)
       \/ Checked(c) \/ Reserve(c) \/ Prepare(c)
       \/ \E a \in Answer : Return(c, a)
       \/ Record(c) \/ RecordRefused(c) \/ Resolve(c) \/ ResolveFails(c)
  \/ Settles \/ Retries

InvocationsSpec == InvocationsInit /\ [][InvocationsNext]_invocationVars

-----------------------------------------------------------------------------
(* The most that a provider may have charged for.                            *)
MostCharged ==
  [threw |-> 1, undispatched |-> 0, silent |-> 1, uncharged |-> 0, charge |-> 1, unknown |-> 1,
   charges |-> 2, unrecorded |-> 1]

(* One billing key is called for once, whichever attempt or call of the      *)
(* stage asks, and whatever became of the call before: "an unconfirmed       *)
(* charge may have landed, and re-running would spend again on the           *)
(* assumption it did not".                                                   *)
BilledOnce == \A c, d \in called : c # d /\ Paid(c) /\ Paid(d) => EffectOf(c) # EffectOf(d)

(* "Records are durable before authorization is released": of a call that    *)
(* is over, a reservation no longer held has exactly one charge, on record,  *)
(* or none; and a call declared free whose provider reports a charge never   *)
(* succeeds.                                                                 *)
ChargesAreKept ==
  \A c \in called :
    at[c] = "done" =>
      IF Paid(c)
      THEN CASE reservation[EffectOf(c)] = "settled" -> MostCharged[answer[c]] = 1 /\ written[c] = 1
             [] reservation[EffectOf(c)] = "released" -> MostCharged[answer[c]] = 0
             [] OTHER -> TRUE
      ELSE IsChargeBearing[answer[c]] > 0 => told[c] = "failure"

(* A call that has reached its provider is covered: by its reservation if it *)
(* is paid, by what its stage declared of its effects, one under a           *)
(* stage-scoped key and none under no_external_effects, and, once its        *)
(* attempt has settled without it, by the record of that attempt.            *)
CallsAreDeclared ==
  \A c \in called :
    /\ at[c] = "provider" /\ Paid(c) => reservation[EffectOf(c)] = "dispatch_prepared"
    /\ Effectful(c) => scope # "no_external_effects"
    /\ Effectful(c) /\ scope = "stage" =>
         \A d \in called : attempt[d] = attempt[c] /\ Effectful(d) => d = c
    /\ ask[c].by = "worker" /\ (attempt[c] = ordinal => ~running) => c \in recorded[attempt[c]]
=============================================================================
