--------------------------- MODULE Reconciliation ---------------------------
(***************************************************************************)
(* SpendService.reconcile (aldus-services/src/spend-service.ts): operators  *)
(* resolve the charge of one reservation left "billing_unknown".  Order is  *)
(* the contract: the human decision is appended first, then the cost record *)
(* is written, and only then does the reservation become terminal.  Every   *)
(* read and write below is a step of its own; an operator's process may die *)
(* between any two, and may submit the same decision again.                 *)
(*                                                                         *)
(* The commits of other reservations only add conflicts, which are retried, *)
(* so the revision is the length of this reservation's history.  Who may    *)
(* decide and what evidence is cited are checked before any of this.        *)
(***************************************************************************)
EXTENDS SpendLifecycle, FiniteSets

CONSTANTS
  Operator,   \* processes an operator may run reconcile in
  Decision,   \* [id, resolution, obs, attributed]: what they may submit
  N,          \* how many billing observations settle() was given
  NoObs, NoDecision,
  MaxCrashes  \* bound: how often a call dies half-way

Obs == 1 .. N

ASSUME ObsAssumption == N \in Nat
ASSUME NoObsAssumption == NoObs \notin Obs
ASSUME DecisionAssumption ==
  /\ NoDecision \notin Decision
  /\ \A d \in Decision :
       /\ d.resolution \in {"settled_with_amount", "released_as_uncharged", "investigation_ended"}
       /\ d.obs \in Obs \cup {NoObs}
       /\ d.attributed \in BOOLEAN  \* it states who charged, and for what
       /\ d.resolution = "investigation_ended" => d.obs = NoObs
ASSUME BoundAssumption == MaxCrashes \in Nat

VARIABLES
  history,   \* the reservation's transitions [kind, dec, obs]
  declared,  \* observations the last billing_unknown left unrecorded
  costs,     \* the cost records [id, status], in file order
  pc,        \* where each operator's call is
  dec,       \* the decision it submits
  status,    \* the reservation's status as it read it
  pending,   \* the unrecorded observations as it read them
  covered,   \* the observation its decision covers
  rev,       \* the revision its append is conditional on
  final,     \* the terminal transition it is about to append
  crashes    \* how many calls have died

local == <<pc, dec, status, pending, covered, rev, final>>
vars == <<history, declared, costs, local, crashes>>

Goto(o, l) == pc' = [pc EXCEPT ![o] = l]

(* A decision is appended under its own identity. *)
Recorded(d) ==
  {i \in 1 .. Len(history) : history[i].kind = "reconciled" /\ history[i].dec.id = d.id}

Decisions == {history[i].dec : i \in {j \in 1 .. Len(history) : history[j].kind = "reconciled"}}

(* #pendingObservations: what was declared less what a decision names. *)
Pending == {x \in declared : \A d \in Decisions : d.obs # x}

CostIds == {costs[i].id : i \in 1 .. Len(costs)}

(* settle() recorded the first k observations and failed on the next, or    *)
(* all of them and one is of unknown amount; or nothing is known at all.    *)
Transition(kind) == [kind |-> kind, dec |-> NoDecision, obs |-> NoObs]

Init ==
  /\ history = <<Transition("reserved"), Transition("dispatch_prepared"),
                 Transition("billing_unknown")>>
  /\ \E k \in 0 .. N, reported \in [Obs -> {"charged", "free", "unknown"}] :
       /\ declared \in IF k = 0 THEN {{}, Obs} ELSE {{x \in Obs : x > k}}
       /\ k > 0 /\ declared = {} => \E x \in Obs : reported[x] = "unknown"
       /\ costs = [x \in 1 .. k |-> [id |-> x, status |-> reported[x]]]
  /\ pc = [o \in Operator |-> "idle"]
  /\ dec = [o \in Operator |-> NoDecision]
  /\ status = [o \in Operator |-> "none"]
  /\ pending = [o \in Operator |-> {}]
  /\ covered = [o \in Operator |-> NoObs]
  /\ rev = [o \in Operator |-> 0]
  /\ final = [o \in Operator |-> "none"]
  /\ crashes = 0

(* The call returns or throws, and its locals are gone. *)
Done(o) ==
  /\ Goto(o, "idle")
  /\ dec' = [dec EXCEPT ![o] = NoDecision]
  /\ status' = [status EXCEPT ![o] = "none"]
  /\ pending' = [pending EXCEPT ![o] = {}]
  /\ covered' = [covered EXCEPT ![o] = NoObs]
  /\ rev' = [rev EXCEPT ![o] = 0]
  /\ final' = [final EXCEPT ![o] = "none"]

(* reconcile(reservation, decision): #require reads the status ... *)
Submit(o, d) ==
  /\ pc[o] = "idle"
  /\ dec' = [dec EXCEPT ![o] = d]
  /\ status' = [status EXCEPT ![o] = Status(history)]
  /\ Goto(o, "read")
  /\ UNCHANGED <<history, declared, costs, pending, covered, rev, final, crashes>>

(* ... and a second read finds the earlier decisions: this one by its       *)
(* identity, or any other once nothing is pending.                          *)
Prior(d) ==
  IF Recorded(d) # {} THEN {history[i].dec : i \in Recorded(d)}
  ELSE {history[i].dec : i \in {j \in 1 .. Len(history) :
          /\ Pending = {} /\ history[j].kind = "reconciled"
          /\ \A k \in 1 .. j - 1 : history[k].kind # "reconciled"}}

(* "would overwrite a human's recorded finding rather than resuming it" *)
ReadConflict(o) ==
  /\ pc[o] = "read"
  /\ \E d \in Prior(dec[o]) : d # dec[o]
  /\ Done(o)
  /\ UNCHANGED <<history, declared, costs>>

(* No longer unresolved: a repeat of a recorded decision is told so. *)
ReadResolved(o) ==
  /\ pc[o] = "read"
  /\ Prior(dec[o]) \subseteq {dec[o]}
  /\ status[o] # "billing_unknown"
  /\ Done(o)
  /\ UNCHANGED <<history, declared, costs>>

Resolving(o) ==
  /\ pc[o] = "read"
  /\ Prior(dec[o]) \subseteq {dec[o]}
  /\ status[o] = "billing_unknown"

ReadInvestigation(o) ==
  /\ Resolving(o)
  /\ dec[o].resolution = "investigation_ended"
  /\ Goto(o, "investigation")
  /\ UNCHANGED <<history, declared, costs, dec, status, pending, covered, rev, final>>

(* Which unrecorded observation the decision covers. *)
Resumes(o) == dec[o] \in Prior(dec[o]) /\ dec[o].obs # NoObs
Covers(o) == IF Resumes(o) \/ Pending # {} THEN dec[o].obs ELSE NoObs

(* Mutant of CoverageRefused: a resumed decision is held against the list   *)
(* it has subtracted itself from (the defect of #152).                      *)
CoverageRefusedByPending(o) == dec[o].obs # NoObs /\ dec[o].obs \notin Pending

CoverageRefused(o) ==
  IF Resumes(o) THEN dec[o].obs \notin declared ELSE Pending # {} /\ dec[o].obs \notin Pending

ReadUncovered(o) ==
  /\ Resolving(o)
  /\ dec[o].resolution # "investigation_ended"
  /\ CoverageRefused(o)
  /\ Done(o)
  /\ UNCHANGED <<history, declared, costs>>

(* A decision already durable is not appended again. *)
ReadCovered(o) ==
  /\ Resolving(o)
  /\ dec[o].resolution # "investigation_ended"
  /\ ~CoverageRefused(o)
  /\ pending' = [pending EXCEPT ![o] = Pending]
  /\ covered' = [covered EXCEPT ![o] = Covers(o)]
  /\ Goto(o, IF dec[o] \in Prior(dec[o]) THEN "effect" ELSE "decide")
  /\ UNCHANGED <<history, declared, costs, dec, status, rev, final>>

(* #appendOne with an explicit identity: the decision recorded meanwhile is *)
(* a resume if it says the same; then the successor must be legal.          *)
DecideRead(o) ==
  /\ pc[o] = "decide"
  /\ LET earlier == {history[i].dec : i \in Recorded(dec[o])}
     IN  IF earlier # {}
         THEN IF earlier = {dec[o]}
              THEN Goto(o, "effect") /\ UNCHANGED <<dec, status, pending, covered, rev, final>>
              ELSE Done(o)
         ELSE IF IsLegalSuccessor(LastKind(history), "reconciled")
              THEN /\ Goto(o, "decide_cas")
                   /\ rev' = [rev EXCEPT ![o] = Len(history)]
                   /\ UNCHANGED <<dec, status, pending, covered, final>>
              ELSE Done(o)
  /\ UNCHANGED <<history, declared, costs>>

(* The same identity committed since: the same bytes only if both clocks    *)
(* read the same millisecond, a clash of identities otherwise.              *)
DecideClash(o) ==
  /\ pc[o] = "decide_cas"
  /\ Recorded(dec[o]) # {}
  /\ \/ Done(o)
     \/ /\ \A i \in Recorded(dec[o]) : history[i].dec = dec[o]
        /\ Goto(o, "effect")
        /\ rev' = [rev EXCEPT ![o] = 0]
        /\ UNCHANGED <<dec, status, pending, covered, final>>
  /\ UNCHANGED <<history, declared, costs>>

DecideConflict(o) ==
  /\ pc[o] = "decide_cas"
  /\ Recorded(dec[o]) = {}
  /\ rev[o] # Len(history)
  /\ Goto(o, "decide")
  /\ rev' = [rev EXCEPT ![o] = 0]
  /\ UNCHANGED <<history, declared, costs, dec, status, pending, covered, final>>

(* Mutant of DecideCommit: the append is not conditional. *)
DecideCommitBlind(o) ==
  /\ pc[o] = "decide_cas"
  /\ history' = Append(history, [kind |-> "reconciled", dec |-> dec[o], obs |-> dec[o].obs])
  /\ Goto(o, "effect")
  /\ rev' = [rev EXCEPT ![o] = 0]
  /\ UNCHANGED <<declared, costs, dec, status, pending, covered, final>>

DecideCommit(o) ==
  /\ pc[o] = "decide_cas"
  /\ rev[o] = Len(history)
  /\ history' = Append(history, [kind |-> "reconciled", dec |-> dec[o], obs |-> dec[o].obs])
  /\ Goto(o, "effect")
  /\ rev' = [rev EXCEPT ![o] = 0]
  /\ UNCHANGED <<declared, costs, dec, status, pending, covered, final>>

(* An abandoned investigation is recorded under its own identity, once, and *)
(* changes nothing else; its #appendOne is taken where it commits.          *)
RecordInvestigation(o) ==
  /\ pc[o] = "investigation"
  /\ LET earlier == {history[i].dec : i \in {j \in 1 .. Len(history) :
                       /\ history[j].kind = "investigation_recorded"
                       /\ history[j].dec.id = dec[o].id}}
         legal == IsLegalSuccessor(LastKind(history), "investigation_recorded")
     IN  \/ /\ earlier = {} /\ legal
            /\ history' = Append(history,
                 [kind |-> "investigation_recorded", dec |-> dec[o], obs |-> NoObs])
         \/ (earlier # {} \/ ~legal) /\ UNCHANGED history
  /\ Done(o)
  /\ UNCHANGED <<declared, costs>>

(* The record settles the observation it covers, or the whole reservation   *)
(* under an id of its own.                                                  *)
Whole == 0

CostId(o) == IF covered[o] = NoObs THEN Whole ELSE covered[o]

(* Who charged comes from the covered observation, from a record of unknown *)
(* amount, or from the evidence; asked only once the decision is durable.   *)
Unattributed(o) ==
  /\ dec[o].resolution = "settled_with_amount"
  /\ covered[o] = NoObs
  /\ \A i \in 1 .. Len(costs) : costs[i].status # "unknown"
  /\ ~dec[o].attributed

EffectUnattributed(o) ==
  /\ pc[o] = "effect"
  /\ Unattributed(o)
  /\ Done(o)
  /\ UNCHANGED <<history, declared, costs>>

(* costs.append: the store reads the ids, and skips one it holds ... *)
EffectCheck(o) ==
  /\ pc[o] = "effect"
  /\ ~Unattributed(o)
  /\ Goto(o, IF dec[o].resolution = "settled_with_amount" /\ CostId(o) \notin CostIds
             THEN "write" ELSE "remaining")
  /\ UNCHANGED <<history, declared, costs, dec, status, pending, covered, rev, final>>

(* ... before it appends under the lock. *)
EffectWrite(o) ==
  /\ pc[o] = "write"
  /\ costs' = Append(costs, [id |-> CostId(o), status |-> "charged"])
  /\ Goto(o, "remaining")
  /\ UNCHANGED <<history, declared, dec, status, pending, covered, rev, final>>

(* "Terminal only when nothing is left unrecorded." *)
Remains(o) ==
  /\ pc[o] = "remaining"
  /\ pending[o] \ {covered[o]} # {}
  /\ Done(o)
  /\ UNCHANGED <<history, declared, costs>>

(* Mutant of ListDurable: what is still pending is not looked at. *)
ListDurableEarly(o) ==
  /\ pc[o] = "remaining"
  /\ LET charged == \E i \in 1 .. Len(costs) : costs[i].status # "free"
         whole == dec[o].resolution = "released_as_uncharged" /\ covered[o] = NoObs
     IN  final' = [final EXCEPT ![o] = IF charged /\ ~whole THEN "settled" ELSE "released"]
  /\ Goto(o, "final")
  /\ UNCHANGED <<history, declared, costs, dec, status, pending, covered, rev>>

(* "released means no charge occurred": what is durable decides. *)
ListDurable(o) ==
  /\ pc[o] = "remaining"
  /\ pending[o] \ {covered[o]} = {}
  /\ LET charged == \E i \in 1 .. Len(costs) : costs[i].status # "free"
         whole == dec[o].resolution = "released_as_uncharged" /\ covered[o] = NoObs
     IN  final' = [final EXCEPT ![o] = IF charged /\ ~whole THEN "settled" ELSE "released"]
  /\ Goto(o, "final")
  /\ pending' = [pending EXCEPT ![o] = {}]
  /\ covered' = [covered EXCEPT ![o] = NoObs]
  /\ UNCHANGED <<history, declared, costs, dec, status, rev>>

FinalRead(o) ==
  /\ pc[o] = "final"
  /\ IF IsLegalSuccessor(LastKind(history), final[o])
     THEN /\ Goto(o, "final_cas")
          /\ rev' = [rev EXCEPT ![o] = Len(history)]
          /\ UNCHANGED <<dec, status, pending, covered, final>>
     ELSE Done(o)
  /\ UNCHANGED <<history, declared, costs>>

FinalCommit(o) ==
  /\ pc[o] = "final_cas"
  /\ rev[o] = Len(history)
  /\ history' = Append(history, [kind |-> final[o], dec |-> dec[o], obs |-> NoObs])
  /\ Done(o)
  /\ UNCHANGED <<declared, costs>>

FinalConflict(o) ==
  /\ pc[o] = "final_cas"
  /\ rev[o] # Len(history)
  /\ IF Has(history, final[o])
     THEN Done(o)
     ELSE /\ Goto(o, "final")
          /\ rev' = [rev EXCEPT ![o] = 0]
          /\ UNCHANGED <<dec, status, pending, covered, final>>
  /\ UNCHANGED <<history, declared, costs>>

(* The process dies, or a write fails and the error propagates. *)
Crash(o) ==
  /\ pc[o] # "idle"
  /\ crashes < MaxCrashes
  /\ crashes' = crashes + 1
  /\ Done(o)
  /\ UNCHANGED <<history, declared, costs>>

Step(o) ==
  /\ UNCHANGED crashes
  /\ \/ ReadConflict(o) \/ ReadResolved(o) \/ ReadInvestigation(o) \/ ReadUncovered(o) \/ ReadCovered(o)
     \/ DecideRead(o) \/ DecideClash(o) \/ DecideConflict(o) \/ DecideCommit(o) \/ RecordInvestigation(o)
     \/ EffectUnattributed(o) \/ EffectCheck(o) \/ EffectWrite(o) \/ Remains(o) \/ ListDurable(o)
     \/ FinalRead(o) \/ FinalCommit(o) \/ FinalConflict(o)

Next == \E o \in Operator : Step(o) \/ Crash(o) \/ \E d \in Decision : Submit(o, d)

Spec == Init /\ [][Next]_vars

(* Calls that are not interrupted finish, and every decision is submitted   *)
(* again and again by some operator.                                        *)
FairSpec ==
  /\ Spec
  /\ \A o \in Operator : WF_vars(Step(o))
  /\ \A d \in Decision : SF_vars(\E o \in Operator : Submit(o, d))

-----------------------------------------------------------------------------
TypeOK ==
  /\ \A i \in 1 .. Len(history) : /\ history[i].kind \in Kind
                                  /\ history[i].dec \in Decision \cup {NoDecision}
  /\ declared \subseteq Obs
  /\ \A i \in 1 .. Len(costs) : /\ costs[i].id \in Obs \cup {Whole}
                                /\ costs[i].status \in {"charged", "free", "unknown"}
  /\ pc \in [Operator -> {"idle", "read", "investigation", "decide", "decide_cas", "effect",
                          "write", "remaining", "final", "final_cas"}]
  /\ dec \in [Operator -> Decision \cup {NoDecision}]
  /\ pending \in [Operator -> SUBSET declared]
  /\ covered \in [Operator -> Obs \cup {NoObs}]
  /\ \A o \in Operator : rev[o] \in 0 .. Len(history)
  /\ final \in [Operator -> Terminal \cup {"none"}]

(* "The same id carrying different contents conflicts rather than           *)
(* overwriting": whoever submits it where and however often, one decision   *)
(* is on the record at most once.                                           *)
FindingsNeverOverwritten == \A d \in Decision : Cardinality(Recorded(d)) <= 1

(* "A decision covering observation A does not release authorization for    *)
(* B", even when both are being decided at once.                            *)
NoReleaseWhilePending == Status(history) \in Terminal => Pending = {}

(* "Resumable by design": a decision whose call was interrupted can be      *)
(* submitted again until the reservation is resolved - provided the         *)
(* operators name the observations there are, name none if there are none,  *)
(* and say who charged (the refusals that come after the decision is        *)
(* durable have no way out).                                                *)
Answerable(d) == d.attributed /\ (declared = {} => d.obs = NoObs)

DecisionsResolve ==
  /\ Decisions # {}
  /\ \A d \in Decisions : Answerable(d)
  /\ \A x \in declared : \E d \in Decision : d.obs = x
  ~> Status(history) \in Terminal \/ \E d \in Decisions : ~Answerable(d)

(* "Terminal only when nothing is left unrecorded": every charge a decision *)
(* established is on record before the reservation is terminal.             *)
TerminalWhenRecorded ==
  Status(history) \in Terminal =>
    \A d \in Decisions :
      d.resolution = "settled_with_amount" /\ d.obs \in declared => d.obs \in CostIds
=============================================================================
