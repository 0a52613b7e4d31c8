------------------------------ MODULE Release ------------------------------
(***************************************************************************)
(* ReleaseExecutor (packages/aldus-release/src/executor.ts): a bundle of    *)
(* external operations is executed, killed, and resumed from its receipts;  *)
(* what the receipts do not say is asked of the destination.  Authority is  *)
(* the gate engine's (GateEngine), read afresh for every operation.         *)
(*                                                                         *)
(* reconcile on its own is the beginning of an execute that ends there, so  *)
(* it has no actions of its own.  Receipts are only read through            *)
(* latestByKey, so the latest of each key is what is kept.  Events follow   *)
(* the receipts and nothing here reads them: an emit that throws is a call  *)
(* that dies right after Record.                                            *)
(***************************************************************************)
EXTENDS GateEngine

CONSTANTS
  Session,     \* processes that execute bundles of this Run
  Plan,        \* #plan: the operations in order, required ones first
  Required,    \* operations whose failure fails the release
  Repeatable,  \* operations that declare their effect safe to repeat
  Queryable,   \* operations whose destination has a lookup
  Authority,   \* Authority[o]: what o requires
  None,        \* no authority
  Released     \* the subject whose digest the operations release

Operation == {Plan[i] : i \in DOMAIN Plan}

ASSUME PlanAssumption ==
  /\ Plan \in Seq(Operation) /\ Plan # <<>>
  /\ \A i, j \in DOMAIN Plan : /\ Plan[i] = Plan[j] => i = j
                               /\ Plan[j] \in Required /\ i < j => Plan[i] \in Required
  /\ Required \cup Repeatable \cup Queryable \subseteq Operation
  /\ Released \in Key

(* deriveIdempotencyKey: the operation and the digest it releases.          *)
IdempotencyKey == Operation \X Values[Released]

VARIABLES
  receipt,        \* receipt[k]: the status of k's latest receipt
  remote,         \* remote[k]: the effects the destination holds
  flying,         \* keys with a request accepted whose effect is yet to come
  pc,             \* where each session is
  bundle,         \* the digest its bundle releases
  at,             \* the operation it has come to
  known,          \* the receipts as it last listed them
  unestablished,  \* operations it must not attempt in this pass
  outcome         \* what is about to be recorded

session == <<pc, bundle, at, known, unestablished, outcome>>
world == <<receipt, remote, flying>>
vars == <<gates, world, session>>

Nothing == [k \in IdempotencyKey |-> "not_started"]

Init ==
  /\ GateInit
  /\ receipt = Nothing
  /\ remote = [k \in IdempotencyKey |-> 0]
  /\ flying = {}
  /\ pc = [s \in Session |-> "idle"]
  /\ bundle = [s \in Session |-> Missing]
  /\ at = [s \in Session |-> 1]
  /\ known = [s \in Session |-> Nothing]
  /\ unestablished = [s \in Session |-> {}]
  /\ outcome = [s \in Session |-> "none"]

Op(s) == Plan[at[s]]
KeyOf(s) == <<Op(s), bundle[s]>>
Found(s) == known[s][KeyOf(s)]
Goto(s, l) == pc' = [pc EXCEPT ![s] = l]

(* A call that is over, however it ended, leaves nothing behind in memory.  *)
End(s) ==
  /\ Goto(s, "idle")
  /\ bundle' = [bundle EXCEPT ![s] = Missing]
  /\ at' = [at EXCEPT ![s] = 1]
  /\ known' = [known EXCEPT ![s] = Nothing]
  /\ unestablished' = [unestablished EXCEPT ![s] = {}]
  /\ outcome' = [outcome EXCEPT ![s] = "none"]

AtLast(s) == at[s] = Len(Plan)
Step(s, l, i) ==
  /\ Goto(s, l) /\ at' = [at EXCEPT ![s] = i]
  /\ UNCHANGED <<bundle, known>>

(* What this pass will not attempt is remembered for the second loop.       *)
NextLookup(s, skipped) ==
  /\ IF AtLast(s) THEN Step(s, "list", 1) ELSE Step(s, "reconcile", at[s] + 1)
  /\ unestablished' = [unestablished EXCEPT ![s] = @ \cup skipped]
  /\ UNCHANGED <<gates, outcome>>

NextOperation(s) ==
  IF AtLast(s) THEN End(s)
  ELSE /\ Step(s, "execute", at[s] + 1)
       /\ outcome' = [outcome EXCEPT ![s] = "none"]
       /\ UNCHANGED unestablished

-----------------------------------------------------------------------------
(* executeRelease: a bundle assembled from the current content; reconcile   *)
(* lists the receipts.                                                      *)
Start(s) ==
  /\ pc[s] = "idle" /\ content[Released] # Missing
  /\ Goto(s, "reconcile")
  /\ bundle' = [bundle EXCEPT ![s] = content[Released]]
  /\ known' = [known EXCEPT ![s] = receipt]
  /\ UNCHANGED <<gates, world, at, unestablished, outcome>>

(* already_recorded, not_reconciled_repeatable, unavailable                 *)
NotQueried(s) ==
  /\ pc[s] = "reconcile"
  /\ \/ Found(s) \notin {"not_started", "pending"}
     \/ Op(s) \in Repeatable
     \/ Op(s) \notin Queryable
  /\ NextLookup(s, {}) /\ UNCHANGED world

Lookup(s) ==
  /\ pc[s] = "reconcile" /\ Found(s) \in {"not_started", "pending"}
  /\ Op(s) \in Queryable \ Repeatable
  /\ UNCHANGED world

(* confirmed_absent: "asserts a completed search", which a request still on *)
(* its way does not allow.                                                  *)
LookupAbsent(s) ==
  /\ Lookup(s) /\ remote[KeyOf(s)] = 0 /\ KeyOf(s) \notin flying
  /\ NextLookup(s, {})

(* The destination holds it: a receipt is written in its place.             *)
LookupExists(s) ==
  /\ Lookup(s) /\ remote[KeyOf(s)] > 0
  /\ Goto(s, "repair")
  /\ UNCHANGED <<gates, bundle, at, known, unestablished, outcome>>

Repair(s) ==
  /\ pc[s] = "repair"
  /\ receipt' = [receipt EXCEPT ![KeyOf(s)] = "succeeded"]
  /\ NextLookup(s, {}) /\ UNCHANGED <<remote, flying>>

(* Mutant of LookupUnanswered: no answer is read as absent.                 *)
LookupUnansweredAsAbsent(s) == Lookup(s) /\ NextLookup(s, {})

(* cannot_establish, or a lookup that throws: no pass over a required       *)
(* operation; a best-effort one is left out of this pass.                   *)
LookupUnanswered(s) ==
  /\ Lookup(s)
  /\ IF Op(s) \in Required THEN End(s) /\ UNCHANGED gates
     ELSE NextLookup(s, {Op(s)})

(* The receipts are listed again before the operations are performed.       *)
List(s) ==
  /\ pc[s] = "list"
  /\ Goto(s, "execute")
  /\ known' = [known EXCEPT ![s] = receipt]
  /\ UNCHANGED <<gates, world, bundle, at, unestablished, outcome>>

Settled(s) == Found(s) \in {"succeeded", "skipped"}
LeftOut(s) == Op(s) \in unestablished[s]

PassOver(s) ==
  /\ pc[s] = "execute" /\ (LeftOut(s) \/ Settled(s))
  /\ NextOperation(s) /\ UNCHANGED <<gates, world>>

Due(s) == pc[s] = "execute" /\ ~LeftOut(s) /\ ~Settled(s)

(* RECONCILIATION_UNAVAILABLE: attempted, never confirmed, not repeatable.  *)
Unconfirmed(s) == Found(s) = "pending" /\ Op(s) \notin Repeatable

RefuseUnconfirmed(s) ==
  /\ Due(s) /\ Unconfirmed(s)
  /\ End(s) /\ UNCHANGED <<gates, world>>

Answered(s, status) ==
  /\ Goto(s, "record") /\ outcome' = [outcome EXCEPT ![s] = status]
  /\ UNCHANGED <<bundle, at, known, unestablished>>

Held(s) == Authority[Op(s)] = None \/ Authorized(Authority[Op(s)])

(* RELEASE_NOT_AUTHORIZED ends the pass; a best-effort operation is         *)
(* recorded as skipped.                                                     *)
RefuseUnauthorized(s) ==
  /\ Due(s) /\ ~Unconfirmed(s) /\ ~Held(s)
  /\ IF Op(s) \in Required THEN End(s)
     ELSE Answered(s, "skipped")
  /\ UNCHANGED <<gates, world>>

Permit(s) ==
  /\ Due(s) /\ ~Unconfirmed(s) /\ Held(s)
  /\ Goto(s, "perform")
  /\ UNCHANGED <<gates, world, bundle, at, known, unestablished, outcome>>

-----------------------------------------------------------------------------
(* The effect of a request is there, on its way, or will never be.  Effects *)
(* are counted to two; one that is safe to repeat is there or is not, and   *)
(* nobody ever asks whether it is still to come.                            *)
AddEffect(k) ==
  remote' = [remote EXCEPT ![k] = IF k[1] \in Repeatable \/ @ = 2 THEN (IF @ = 0 THEN 1 ELSE @) ELSE @ + 1]
Landed(k) == AddEffect(k) /\ UNCHANGED flying
OnItsWay(k) == k[1] \notin Repeatable /\ flying' = flying \cup {k} /\ UNCHANGED remote
NoEffect == UNCHANGED <<remote, flying>>

(* adapter.execute: succeeded and failed are what happened, pending is not  *)
(* knowing; and it may throw after the request has left, with no outcome.   *)
Perform(s) ==
  /\ pc[s] = "perform"
  /\ \/ Answered(s, "succeeded") /\ Landed(KeyOf(s))
     \/ Answered(s, "failed") /\ NoEffect
     \/ /\ Answered(s, "pending") \/ End(s)
        /\ Landed(KeyOf(s)) \/ OnItsWay(KeyOf(s)) \/ NoEffect
  /\ UNCHANGED <<gates, receipt>>

Land(k) ==
  /\ k \in flying /\ flying' = flying \ {k}
  /\ AddEffect(k)
  /\ UNCHANGED <<gates, receipt, session>>

(* Mutant of Record: a required failure is a warning, too.                  *)
RecordUnhalted(s) ==
  /\ pc[s] = "record"
  /\ receipt' = [receipt EXCEPT ![KeyOf(s)] = outcome[s]]
  /\ NextOperation(s)
  /\ UNCHANGED <<gates, remote, flying>>

(* #record, and what execute does next: a required operation that did not   *)
(* succeed halts the pass.                                                  *)
Record(s) ==
  /\ pc[s] = "record"
  /\ receipt' = [receipt EXCEPT ![KeyOf(s)] = outcome[s]]
  /\ IF outcome[s] # "succeeded" /\ Op(s) \in Required THEN End(s) ELSE NextOperation(s)
  /\ UNCHANGED <<gates, remote, flying>>

(* The process is killed, or something it awaits throws.                    *)
Die(s) ==
  /\ pc[s] # "idle"
  /\ End(s) /\ UNCHANGED <<gates, world>>

Execute(s) ==
  \/ Start(s)
  \/ NotQueried(s) \/ LookupAbsent(s) \/ LookupExists(s) \/ LookupUnanswered(s) \/ Repair(s)
  \/ List(s) \/ PassOver(s) \/ RefuseUnconfirmed(s) \/ RefuseUnauthorized(s) \/ Permit(s)
  \/ Perform(s) \/ Record(s)

Next ==
  \/ GateNext /\ UNCHANGED <<world, session>>
  \/ \E s \in Session : Execute(s) \/ Die(s)
  \/ \E k \in IdempotencyKey : Land(k)

Spec == Init /\ [][Next]_vars

-----------------------------------------------------------------------------
TypeOK ==
  /\ GateTypeOK
  /\ receipt \in [IdempotencyKey ->
                    {"not_started", "pending", "succeeded", "failed", "skipped"}]
  /\ remote \in [IdempotencyKey -> 0 .. 2] /\ flying \subseteq IdempotencyKey
  /\ pc \in [Session ->
               {"idle", "reconcile", "repair", "list", "execute", "perform", "record"}]
  /\ bundle \in [Session -> Values[Released] \cup {Missing}]
  /\ at \in [Session -> DOMAIN Plan]
  /\ unestablished \in [Session -> SUBSET Operation]

Performs(s) == pc[s] = "perform" /\ Perform(s)
OneShot == Operation \ Repeatable

(* "Retrying then publishes twice", so what may have happened is looked up: *)
(* where the destination can be asked, an operation that is not declared    *)
(* repeatable takes effect at most once, however often a call dies between  *)
(* the request, the answer and the receipt.  The code does not keep this    *)
(* when an attempt was once recorded as failed.                             *)
EffectOnce ==
  \A k \in IdempotencyKey :
    k[1] \in Queryable \cap OneShot => remote[k] + Cardinality({k} \cap flying) <= 1

(* What the code does keep of an operation that is not repeatable: "one     *)
(* whose outcome was recorded as pending is never retried", wherever it     *)
(* goes; and while no failure is on record and the destination can be       *)
(* asked, it is only performed when the destination neither holds its       *)
(* effect nor has a request for it on the way.                              *)
OneShotNotRepeated ==
  [][\A s \in Session :
       Performs(s) /\ Op(s) \in OneShot =>
         /\ receipt[KeyOf(s)] # "pending"
         /\ Op(s) \in Queryable /\ receipt[KeyOf(s)] # "failed" =>
              remote[KeyOf(s)] = 0 /\ KeyOf(s) \notin flying]_vars

(* "They run only once every required one has succeeded": best-effort work  *)
(* is not performed while some required operation of the same bundle lacks  *)
(* its effect, whatever the receipts claim.                                 *)
BestEffortLast ==
  [][\A s \in Session :
       Performs(s) /\ Op(s) \notin Required =>
         \A o \in Required : remote[<<o, bundle[s]>>] > 0]_vars
=============================================================================
