----------------------------- MODULE TtsLedger -----------------------------
(***************************************************************************)
(* Paid speech: the synthesis gateway (aldus-services/src/synthesis.ts) and *)
(* the ledger of takes (packages/aldus-tts-ledger) it records into.         *)
(*                                                                         *)
(* One plan id, under which plans of different scope may be recorded; a     *)
(* gate whose approval binds a scope and establishes a grant of its own; a  *)
(* reservation per grant, segment and attempt; the cost records; and the    *)
(* list of takes.  Only an append or a replace of the list is locked, so    *)
(* gateways, operators and human recordings interleave between the reads    *)
(* of an operation and its write.                                           *)
(*                                                                         *)
(* A call of the spend service is one step here; SpendService.tla has the   *)
(* steps inside it.  The event that follows a write of the list is left     *)
(* out: a crash between the two is a take without its event.                *)
(***************************************************************************)
EXTENDS TakeLineage

CONSTANTS
  Segment,
  Session, Operator, \* processes, and those that a person works at
  Scope,         \* what planScopeDigest tells apart
  None,
  Outcome,       \* what an adapter may report: see Reports
  Local,         \* processes whose adapter may declare that it charges nothing
  Verdict,       \* what a human may say of a take
  MaxTotal,      \* the ceiling of every grant; a charge draws 1
  PlanTotal,     \* plan.estimatedTotal
  MaxDecisions,  \* bound: approvals of the gate
  MaxPlans,      \* bound: recordings of the plan
  MaxTakes       \* bound: take ids minted

Reports == {"charged", "diverged", "unconfirmed", "silent", "free"}

ASSUME LedgerAssumption ==
  /\ Outcome \subseteq Reports /\ Operator \subseteq Session
  /\ Local \subseteq Session /\ Verdict \subseteq {"accepted", "rejected"}
  /\ MaxTotal \in Nat /\ PlanTotal \in Nat
  /\ MaxDecisions \in Nat /\ MaxPlans \in Nat /\ MaxTakes \in Nat
  /\ NoTake \notin 1 .. MaxTakes

Decision == 1 .. MaxDecisions
Key == Decision \X Segment \X (1 .. MaxTakes + 1)

VARIABLES
  plans,        \* plans.json: the scopes recorded under the plan's id
  approved,     \* approved[d]: the scope decision d bound (gate-decisions)
  inForce,      \* the decision whose approval holds, or None
  reservation,  \* reservation[k]: status of the reservation of effect k
  costs,        \* cost records: which take, decision and effect, and billed how
  takes,        \* takes.json
  session,      \* session[s]: where in which operation s is
  minted,       \* take ids minted
  calls         \* history: paid calls made under a grant for a segment

vars == <<plans, approved, inForce, reservation, costs, takes, session, minted, calls>>
gate == <<plans, approved, inForce>>
books == <<reservation, costs>>
ledger == <<takes, minted>>

Idle == [pc |-> "idle"]
Goto(s, next) == session' = [session EXCEPT ![s] = next]

Init ==
  /\ plans = <<>> /\ approved = <<>> /\ inForce = None
  /\ reservation = [k \in Key |-> "none"] /\ costs = {}
  /\ takes = <<>> /\ minted = 0
  /\ session = [s \in Session |-> Idle]
  /\ calls = [g \in Decision \X Segment |-> 0]

-----------------------------------------------------------------------------
(* recordPlan appends; what is looked up by id is the first.                *)
RecordPlan(scope) ==
  /\ Len(plans) < MaxPlans
  /\ plans' = Append(plans, scope)
  /\ UNCHANGED <<approved, inForce, books, ledger, session, calls>>

(* An operator approves a plan's subjects and its grant, or takes that back. *)
Approve(scope) ==
  /\ Len(approved) < MaxDecisions
  /\ approved' = Append(approved, scope)
  /\ inForce' = Len(approved) + 1
  /\ UNCHANGED <<plans, books, ledger, session, calls>>

Withdraw ==
  /\ inForce # None /\ inForce' = None
  /\ UNCHANGED <<plans, approved, books, ledger, session, calls>>

(* computeLedger: the costs that cite the grant's decision.                 *)
Cited(d, excluded) == {c \in costs : c.decision = d /\ c.take \notin excluded}
Drawn(d, excluded) == {c \in Cited(d, excluded) : c.status = "billed"}
Unconfirmed(d, excluded) == {c \in Cited(d, excluded) : c.status = "unknown"}

(* permitSynthesis and gateEngineSpendAuthorizer: an approval in force that *)
(* binds the plan of the caller, no charge of unknown size, and room for    *)
(* the plan.  The costs of the take being recorded are left out.            *)
Permitted(scope, excluded) ==
  /\ inForce # None
  /\ approved[inForce] = scope
  /\ Unconfirmed(inForce, excluded) = {}
  /\ Cardinality(Drawn(inForce, excluded)) + PlanTotal <= MaxTotal

(* availableAuthorization, as reserve consults it.                          *)
Active(k) == reservation[k] \in {"reserved", "prepared", "billing_unknown"}

Available(d) ==
  /\ \A k \in Key : k[1] = d => reservation[k] # "billing_unknown"
  /\ Unconfirmed(d, {}) = {}
  /\ Cardinality(Drawn(d, {})) + Cardinality({k \in Key : k[1] = d /\ Active(k)}) < MaxTotal

-----------------------------------------------------------------------------
(* synthesise: the plan is the caller's, and the permit cites the decision. *)
Permit(s, segment, scope) ==
  /\ session[s] = Idle /\ Permitted(scope, {})
  /\ Goto(s, [pc |-> "reserving", segment |-> segment, scope |-> scope, decision |-> inForce])
  /\ UNCHANGED <<gate, books, ledger, calls>>

Attempts(segment) == Cardinality({i \in DOMAIN takes : takes[i].segment = segment})

NextAttempt(segment) == Attempts(segment) + 1

(* The grant is asked for again, the takes are counted, and the effect is   *)
(* reserved, or found reserved; an adapter that declares itself free needs  *)
(* no reservation.                                                          *)
Reserve(s) ==
  /\ session[s].pc = "reserving"
  /\ LET c == session[s]
         own == <<inForce, c.segment, Attempts(c.segment) + 1>>
         holding(pc, key) ==
           [pc |-> pc, segment |-> c.segment, scope |-> c.scope, decision |-> c.decision, key |-> key]
     IN  \/ /\ s \in Local
            /\ Goto(s, holding("settling", None))
            /\ UNCHANGED reservation
         \/ /\ inForce # None /\ reservation[own] # "none"
            /\ Goto(s, holding("dispatching", own)) /\ UNCHANGED reservation
         \/ /\ inForce # None /\ reservation[own] = "none" /\ Available(inForce)
            /\ reservation' = [reservation EXCEPT ![own] = "reserved"]
            /\ Goto(s, holding("dispatching", own))
         \/ /\ IF inForce = None THEN TRUE ELSE reservation[own] = "none" /\ ~Available(inForce)
            /\ Goto(s, Idle) /\ UNCHANGED reservation
  /\ UNCHANGED <<gate, costs, ledger, calls>>

(* Mutant of Dispatch: what has been dispatched may be again.               *)
DispatchAgain(s) ==
  /\ session[s].pc = "dispatching"
  /\ LET key == session[s].key
     IN  /\ Goto(s, [session[s] EXCEPT !.pc = "settling"])
         /\ reservation' = [reservation EXCEPT ![key] = "prepared"]
         /\ calls' = [calls EXCEPT ![<<key[1], key[2]>>] = @ + 1]
  /\ UNCHANGED <<gate, costs, ledger>>

(* prepareDispatch, legal once, and the adapter is called.                  *)
Dispatch(s) ==
  /\ session[s].pc = "dispatching"
  /\ LET key == session[s].key
     IN  IF reservation[key] = "reserved"
         THEN /\ Goto(s, [session[s] EXCEPT !.pc = "settling"])
              /\ reservation' = [reservation EXCEPT ![key] = "prepared"]
              /\ calls' = [calls EXCEPT ![<<key[1], key[2]>>] = @ + 1]
         ELSE Goto(s, Idle) /\ UNCHANGED <<reservation, calls>>
  /\ UNCHANGED <<gate, costs, ledger>>

(* A take as recordTake is given it.                                        *)
Draft(id, segment, scope, decision, supersedes, unauthorized) ==
  [id |-> id, segment |-> segment, scope |-> scope, decision |-> decision, attempt |-> 0,
   supersedes |-> supersedes, unauthorized |-> unauthorized, verdict |-> "none"]

(* The adapter's answer: the take's id is minted, and the charge recorded   *)
(* and settled under it before the take is.  A report is settled, a         *)
(* declared freebie released on a record that says so, and silence is       *)
(* unresolved.  An adapter that needed no reservation charges nothing.      *)
Settle(s, outcome) ==
  /\ session[s].pc = "settling" /\ minted < MaxTakes
  /\ outcome \in IF session[s].key = None THEN {"free"} ELSE Outcome
  /\ minted' = minted + 1
  /\ LET c == session[s]
         record(status) ==
           {[take |-> minted', decision |-> c.decision, key |-> c.key, status |-> status]}
         linked == IF c.key = None \/ outcome = "silent" THEN {}
                   ELSE record(CASE outcome = "free" -> "free"
                                 [] outcome = "unconfirmed" -> "unknown"
                                 [] OTHER -> "billed")
         status == CASE outcome \in {"charged", "diverged"} -> "settled"
                     [] outcome = "free" -> "released"
                     [] OTHER -> "billing_unknown"
     IN  /\ costs' = costs \cup linked
         /\ reservation' = IF c.key = None THEN reservation
                           ELSE [reservation EXCEPT ![c.key] = status]
         /\ Goto(s, [pc |-> "recording", scope |-> c.scope, take |->
                       Draft(minted', c.segment, c.scope, c.decision, NoTake,
                             outcome = "diverged")])
  /\ UNCHANGED <<gate, takes, calls>>

-----------------------------------------------------------------------------
(* recordTake: the plan is looked up and the takes are counted; a charge    *)
(* under an authorization is checked before it is written down.             *)
RecordTake(s) ==
  /\ session[s].pc = "recording"
  /\ LET take == session[s].take
         place == IF take.decision = None \/ take.unauthorized THEN "appending" ELSE "checking"
     IN  Goto(s, IF plans = <<>> THEN Idle
                 ELSE [pc |-> place, scope |-> session[s].scope,
                       take |-> [take EXCEPT !.attempt = NextAttempt(take.segment)]])
  /\ UNCHANGED <<gate, books, ledger, calls>>

(* recordTake for what needs no synthesis: a human's replacement, and a     *)
(* charge an operator admits after the fact.                                *)
Submit(s, segment, supersedes, unauthorized) ==
  /\ session[s] = Idle /\ s \in Operator /\ minted < MaxTakes
  /\ plans # <<>>
  /\ minted' = minted + 1
  /\ LET take == Draft(minted', segment, None, None, supersedes, unauthorized)
     IN  Goto(s, [pc |-> "appending", take |-> [take EXCEPT !.attempt = NextAttempt(segment)]])
  /\ UNCHANGED <<gate, books, takes, calls>>

(* Mutant of AssertChargeAuthorized: that the plan recorded under the id is *)
(* the plan that was authorized is not asked.                               *)
AssertPermittedOnly(s) ==
  /\ session[s].pc = "checking"
  /\ LET take == session[s].take
         holds == Permitted(session[s].scope, {take.id}) /\ inForce = take.decision
     IN  Goto(s, IF holds THEN [session[s] EXCEPT !.pc = "appending"] ELSE Idle)
  /\ UNCHANGED <<gate, books, ledger, calls>>

(* #assertChargeAuthorized: the plan recorded under the id is the one that  *)
(* was authorized, and the decision cited permits it still.                 *)
AssertChargeAuthorized(s) ==
  /\ session[s].pc = "checking"
  /\ LET take == session[s].take
         holds == /\ take.scope = Head(plans)
                  /\ Permitted(session[s].scope, {take.id})
                  /\ inForce = take.decision
     IN  Goto(s, IF holds THEN [session[s] EXCEPT !.pc = "appending"] ELSE Idle)
  /\ UNCHANGED <<gate, books, ledger, calls>>

(* The store's append, under its lock.                                      *)
AppendTake(s) ==
  /\ session[s].pc = "appending"
  /\ LET take == session[s].take
     IN  /\ takes' = Append(takes, take)
         /\ Goto(s, Idle)
  /\ UNCHANGED <<gate, books, minted, calls>>

-----------------------------------------------------------------------------
(* decideTake: a permitted actor judges a take that it read as undecided.   *)
DecideTake(s, i, verdict) ==
  /\ session[s] = Idle /\ s \in Operator
  /\ takes[i].verdict = "none"
  /\ Goto(s, [pc |-> "deciding", take |-> [takes[i] EXCEPT !.verdict = verdict]])
  /\ UNCHANGED <<gate, books, ledger, calls>>

(* The store's replace puts the whole record in the place of its id.        *)
Replace(s) ==
  /\ session[s].pc = "deciding"
  /\ LET take == session[s].take
     IN  /\ takes' = [i \in DOMAIN takes |-> IF takes[i].id = take.id THEN take ELSE takes[i]]
         /\ Goto(s, Idle)
  /\ UNCHANGED <<gate, books, minted, calls>>

Crash(s) ==
  /\ session[s] # Idle /\ Goto(s, Idle)
  /\ UNCHANGED <<gate, books, ledger, calls>>

Next ==
  \/ \E scope \in Scope : RecordPlan(scope) \/ Approve(scope)
  \/ Withdraw
  \/ \E s \in Session :
       \/ \E segment \in Segment, scope \in Scope : Permit(s, segment, scope)
       \/ Reserve(s) \/ Dispatch(s) \/ \E outcome \in Reports : Settle(s, outcome)
       \/ \E segment \in Segment :
            \/ \E supersedes \in {takes[i].id : i \in DOMAIN takes} \cup {NoTake} :
                 Submit(s, segment, supersedes, FALSE)
            \/ Submit(s, segment, NoTake, TRUE)
       \/ RecordTake(s) \/ AssertChargeAuthorized(s) \/ AppendTake(s)
       \/ \E i \in DOMAIN takes, verdict \in Verdict : DecideTake(s, i, verdict)
       \/ Replace(s) \/ Crash(s)

Spec == Init /\ [][Next]_vars

-----------------------------------------------------------------------------
TypeOK ==
  /\ plans \in Seq(Scope) /\ approved \in Seq(Scope)
  /\ inForce \in DOMAIN approved \cup {None}
  /\ reservation \in [Key -> {"none", "reserved", "prepared", "settled", "released", "billing_unknown"}]
  /\ \A c \in costs : c.take \in 1 .. minted /\ c.key \in Key
  /\ \A i \in DOMAIN takes : takes[i].id \in 1 .. minted /\ takes[i].attempt \in 1 .. MaxTakes
  /\ calls \in [Decision \X Segment -> Nat]

(* Under one grant a segment is never paid for again before the ledger has  *)
(* a take more of it than it had: not by a retry after a crash, not by two  *)
(* gateways that counted the same takes, not when a take was refused after  *)
(* its charge.                                                              *)
NotPaidAgain == \A g \in DOMAIN calls : calls[g] <= Attempts(g[2]) + 1

(* A take that rests on an authorization was made of the plan its decision  *)
(* bound, and that plan is what its plan id leads to, whatever was recorded *)
(* or approved under the same id since (contract 13.2).                     *)
TakesRestOnTheirPlan ==
  \A i \in DOMAIN takes :
    takes[i].decision # None /\ ~takes[i].unauthorized =>
      approved[takes[i].decision] = takes[i].scope /\ takes[i].scope = Head(plans)

(* A segment's lineage holds each of its takes once, after what it          *)
(* superseded, with forks, with links to other segments' takes, and however *)
(* the attempt numbers of concurrent recordings came out.                   *)
LineageIsTotal ==
  \A segment \in Segment :
    LET P == OfSegment(takes, segment)
        ordered == OrderChain(takes, P)
    IN  /\ ~Loops(takes, P)
        /\ ToSet(ordered) = P
        /\ \A m, n \in DOMAIN ordered :
             /\ ordered[m] = ordered[n] => m = n
             /\ takes[ordered[n]].supersedes = takes[ordered[m]].id => m < n
        /\ AwaitsAcceptance(takes, segment) <=> \A m \in DOMAIN ordered : ~IsAccepted(takes[ordered[m]])

(* spend.ts: "availableAuthorization is maxTotal - settled - active", so    *)
(* that what is charged under a grant's reservations never exceeds it.      *)
GrantNeverOverspent ==
  \A d \in Decision :
    Cardinality({c \in costs : c.status = "billed" /\ c.key[1] = d}) <= MaxTotal
=============================================================================
