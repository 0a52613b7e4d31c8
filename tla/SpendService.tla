---------------------------- MODULE SpendService ----------------------------
(***************************************************************************)
(* SpendService (aldus-services/src/spend-service.ts) as the paid gateways  *)
(* drive it (agent-execution.ts, the Worker path of the stage runner,       *)
(* synthesis.ts): authorization is reserved under a grant, the dispatch is  *)
(* announced, the provider is called, the charge is recorded, the           *)
(* reservation is settled.  Processes interleave at every await, and die.   *)
(*                                                                         *)
(* The grant's commit stream is CommitStream, which ReservationStore        *)
(* implements: an append is atomic and conditional on the revision.  Each   *)
(* commit here holds one transition, so the stream is kept as one history   *)
(* per reservation and the number of commits.  A caller that loses a        *)
(* conflict reads again or gives up; the bound on its attempts is dropped.  *)
(***************************************************************************)
EXTENDS SpendLifecycle, FiniteSetsExt

CONSTANTS
  Proc,          \* processes of the workspace
  Effect,        \* independently billed effects (effectKey)
  Res, NoRes,    \* reservation ids newReservationId may return, and none
  Instant,       \* Instant[p]: what p's clock reads, to the millisecond
  Amount,        \* Amount[e]: what a request for e may be estimated at
  Charge,        \* amounts a provider may charge
  MaxTotal,      \* the grant's ceilings
  MaxPerRequest,
  Capped,        \* effects whose backend enforces the ceiling it is given
  Identified,    \* effects whose provider returns a request identity
  Releasing      \* TRUE when a caller may change its mind before dispatch

ASSUME MoneyAssumption ==
  /\ Amount \in [Effect -> SUBSET (Nat \ {0})] /\ Charge \subseteq Nat
  /\ MaxTotal \in Nat /\ MaxPerRequest \in Nat
ASSUME EffectAssumption == Capped \subseteq Effect /\ Identified \subseteq Effect
ASSUME ReleasingAssumption == Releasing \in BOOLEAN
ASSUME ResAssumption == IsFiniteSet(Res) /\ NoRes \notin Res

VARIABLES
  history,   \* history[r]: the committed transitions of reservation r
  revision,  \* commits in the grant's stream
  terms,     \* terms[r]: the effect and amount r was reserved for
  costs,     \* costs[r]: the cost records linked to r
  pc,        \* where each process is
  request,   \* the effect and amount it asked to reserve
  held,      \* the reservation it works on
  rev,       \* the revision it last read
  goal,      \* the transition it is about to append
  bill,      \* what its provider reported
  calls,     \* history: provider calls made under each reservation
  spent      \* history: calls the provider did charge for

call == <<pc, request, held, rev, goal, bill>>
stream == <<history, revision, terms>>
provider == <<calls, spent>>
vars == <<stream, costs, call, provider>>

NoTerms == [effect |-> "none", amount |-> 0]
NoBill == [status |-> "none", draw |-> 0]
Unused(r) == history[r] = <<>>

Goto(p, l) == pc' = [pc EXCEPT ![p] = l]

(* availableAuthorization: what the grant still authorizes. *)
Consumed == MapThenSumSet(LAMBDA r : MapThenSumSet(LAMBDA i : costs[r][i].draw, DOMAIN costs[r]), Res)

ReservedAmount(r) == IF Active(history[r]) THEN terms[r].amount ELSE 0

Bounded(r) ==
  /\ Active(history[r])
  /\ Has(history[r], "dispatch_prepared")
  /\ terms[r].effect \in Capped

UnresolvedCharge(r) ==
  \/ Status(history[r]) = "billing_unknown"
  \/ \E i \in DOMAIN costs[r] : costs[r][i].status = "unknown"

(* Mutant of Determinate: a charge of unknown size is ignored. *)
AlwaysDeterminate == TRUE

Determinate == \A r \in Res : UnresolvedCharge(r) => Bounded(r)

Fits(amount) == Determinate /\ amount + Consumed + MapThenSumSet(ReservedAmount, Res) <= MaxTotal

Init ==
  /\ history = [r \in Res |-> <<>>]
  /\ revision = 0
  /\ terms = [r \in Res |-> NoTerms]
  /\ costs = [r \in Res |-> <<>>]
  /\ pc = [p \in Proc |-> "idle"]
  /\ request = [p \in Proc |-> NoTerms]
  /\ held = [p \in Proc |-> NoRes]
  /\ rev = [p \in Proc |-> 0]
  /\ goal = [p \in Proc |-> "none"]
  /\ bill = [p \in Proc |-> NoBill]
  /\ calls = [r \in Res |-> 0]
  /\ spent = [r \in Res |-> 0]

(* The call is over: answered, refused or thrown. *)
Finish(p) ==
  /\ Goto(p, "idle")
  /\ request' = [request EXCEPT ![p] = NoTerms]
  /\ held' = [held EXCEPT ![p] = NoRes]
  /\ rev' = [rev EXCEPT ![p] = 0]
  /\ goal' = [goal EXCEPT ![p] = "none"]
  /\ bill' = [bill EXCEPT ![p] = NoBill]

(* p goes on to #appendOne(r, kind). *)
Append1(p, r, kind) ==
  /\ Goto(p, "append")
  /\ held' = [held EXCEPT ![p] = r]
  /\ goal' = [goal EXCEPT ![p] = kind]

(* What the gateway does with the reservation it was given: it prepares the *)
(* dispatch, or its caller releases the reservation it sees undispatched.   *)
Granted(p, r) ==
  \/ Append1(p, r, "dispatch_prepared")
  \/ /\ Releasing
     /\ ~Has(history[r], "dispatch_prepared")
     /\ Append1(p, r, "released")

(* reserve: an effect already reserved under the same terms resolves to its *)
(* reservation (under others it is refused) ...                             *)
ReserveKnown(p, e, amount) ==
  /\ pc[p] = "idle"
  /\ \E r \in Res : terms[r] = [effect |-> e, amount |-> amount] /\ Granted(p, r)
  /\ UNCHANGED <<stream, costs, request, rev, bill, provider>>

(* ... a new one is proposed if it is within the grant. *)
ReserveNew(p, e, amount) ==
  /\ pc[p] = "idle"
  /\ \A r \in Res : terms[r].effect # e
  /\ amount <= MaxPerRequest
  /\ request' = [request EXCEPT ![p] = [effect |-> e, amount |-> amount]]
  /\ rev' = [rev EXCEPT ![p] = revision]
  /\ Goto(p, "list")
  /\ UNCHANGED <<stream, costs, held, goal, bill, provider>>

(* The costs are read after the stream.  If the stream has moved since, the *)
(* answer rests on reservations no longer current and either is possible.   *)
ListCosts(p) ==
  /\ pc[p] = "list"
  /\ \/ /\ rev[p] = revision => Fits(request[p].amount)
        /\ Goto(p, "commit")
        /\ UNCHANGED <<request, held, rev, goal, bill>>
     \/ /\ rev[p] = revision => ~Fits(request[p].amount)
        /\ Finish(p)
  /\ UNCHANGED <<stream, costs, provider>>

(* Mutant of Commit: the append is not conditional on the revision. *)
CommitBlind(p, r) ==
  /\ pc[p] = "commit"
  /\ Unused(r)
  /\ history' = [history EXCEPT ![r] = <<[kind |-> "reserved", at |-> Instant[p]]>>]
  /\ revision' = revision + 1
  /\ terms' = [terms EXCEPT ![r] = request[p]]
  /\ request' = [request EXCEPT ![p] = NoTerms]
  /\ rev' = [rev EXCEPT ![p] = 0]
  /\ Granted(p, r)
  /\ UNCHANGED <<costs, bill, provider>>

Commit(p, r) ==
  /\ pc[p] = "commit"
  /\ rev[p] = revision
  /\ Unused(r)
  /\ history' = [history EXCEPT ![r] = <<[kind |-> "reserved", at |-> Instant[p]]>>]
  /\ revision' = revision + 1
  /\ terms' = [terms EXCEPT ![r] = request[p]]
  /\ request' = [request EXCEPT ![p] = NoTerms]
  /\ rev' = [rev EXCEPT ![p] = 0]
  /\ Granted(p, r)
  /\ UNCHANGED <<costs, bill, provider>>

(* "recompute; never reuse the lost answer" *)
CommitConflict(p) ==
  /\ pc[p] = "commit"
  /\ rev[p] # revision
  /\ Finish(p)
  /\ UNCHANGED <<stream, costs, provider>>

(* #appendOne: the successor must be legal in the stream as read ... *)
AppendRead(p) ==
  /\ pc[p] = "append"
  /\ IF IsLegalSuccessor(LastKind(history[held[p]]), goal[p])
     THEN /\ Goto(p, "cas")
          /\ rev' = [rev EXCEPT ![p] = revision]
          /\ UNCHANGED <<request, held, goal, bill>>
     ELSE Finish(p)
  /\ UNCHANGED <<stream, costs, provider>>

Proposed(p) == [kind |-> goal[p], at |-> Instant[p]]

SameIdentity(p) ==
  {i \in 1 .. Len(history[held[p]]) : history[held[p]][i].kind = goal[p]}

AlreadyPresent(p) == \E i \in SameIdentity(p) : history[held[p]][i] = Proposed(p)

Proceed(p, l) ==
  /\ Goto(p, l)
  /\ goal' = [goal EXCEPT ![p] = "none"]
  /\ rev' = [rev EXCEPT ![p] = 0]
  /\ UNCHANGED <<request, held, bill>>

(* After the append the dispatch begins, the settlement goes on, or the     *)
(* call is over.                                                            *)
Appended(p) ==
  CASE goal[p] = "dispatch_prepared" ->
         /\ Proceed(p, "call")
         /\ calls' = [calls EXCEPT ![held[p]] = @ + 1]
         /\ UNCHANGED spent
    [] goal[p] = "dispatch_identified" -> Proceed(p, "record") /\ UNCHANGED provider
    [] OTHER -> Finish(p) /\ UNCHANGED provider

(* Mutant of AppendClash: the clash is taken for "already present". *)
AppendClashIgnored(p) ==
  /\ pc[p] = "cas"
  /\ SameIdentity(p) # {} /\ ~AlreadyPresent(p)
  /\ Appended(p)
  /\ UNCHANGED <<stream, costs>>

(* ... and the store decides: a clash of identities throws, an identical    *)
(* transition is present already, a stale revision is retried or given up.  *)
AppendClash(p) ==
  /\ pc[p] = "cas"
  /\ SameIdentity(p) # {} /\ ~AlreadyPresent(p)
  /\ Finish(p)
  /\ UNCHANGED <<stream, costs, provider>>

AppendPresent(p) ==
  /\ pc[p] = "cas"
  /\ AlreadyPresent(p)
  /\ Appended(p)
  /\ UNCHANGED <<stream, costs>>

AppendConflict(p) ==
  /\ pc[p] = "cas"
  /\ SameIdentity(p) = {}
  /\ rev[p] # revision
  /\ \/ /\ Append1(p, held[p], goal[p])
        /\ rev' = [rev EXCEPT ![p] = 0]
        /\ UNCHANGED <<request, bill>>
     \/ Finish(p)
  /\ UNCHANGED <<stream, costs, provider>>

AppendCommit(p) ==
  /\ pc[p] = "cas"
  /\ SameIdentity(p) = {}
  /\ rev[p] = revision
  /\ history' = [history EXCEPT ![held[p]] = Append(@, Proposed(p))]
  /\ revision' = revision + 1
  /\ Appended(p)
  /\ UNCHANGED <<terms, costs>>

Charged(r) == spent' = [spent EXCEPT ![r] = @ + 1]
MayHaveCharged(r) == Charged(r) \/ UNCHANGED spent

(* A backend given a ceiling it enforces does not charge beyond it. *)
MayCharge(r, c) == c \in Charge /\ (terms[r].effect \in Capped => c <= terms[r].amount)

(* The provider returns one billing observation: settle() records it, after *)
(* the request identity if there is one.                                    *)
ReturnBilled(p, status, c) ==
  /\ pc[p] = "call"
  /\ bill' = [bill EXCEPT ![p] = [status |-> status, draw |-> c]]
  /\ \/ status = "charged" /\ MayCharge(held[p], c) /\ Charged(held[p])
     \/ status = "free" /\ c = 0 /\ UNCHANGED spent
     \/ status = "unknown" /\ c = 0 /\ MayHaveCharged(held[p])
  /\ IF terms[held[p]].effect \in Identified
     THEN Append1(p, held[p], "dispatch_identified")
     ELSE Goto(p, "record") /\ UNCHANGED <<held, goal>>
  /\ UNCHANGED <<stream, costs, request, rev, calls>>

(* Mutant of ReturnUnresolved: a call that threw counts as uncharged. *)
ReturnReleased(p) ==
  /\ pc[p] = "call"
  /\ MayHaveCharged(held[p])
  /\ Append1(p, held[p], "released")
  /\ UNCHANGED <<stream, costs, request, rev, bill, calls>>

(* It throws, or says nothing of a charge. *)
ReturnUnresolved(p) ==
  /\ pc[p] = "call"
  /\ MayHaveCharged(held[p])
  /\ Append1(p, held[p], "billing_unknown")
  /\ UNCHANGED <<stream, costs, request, rev, bill, calls>>

(* It declares that it never dispatched: releaseUndispatched. *)
ReturnUndispatched(p) ==
  /\ pc[p] = "call"
  /\ Append1(p, held[p], "released")
  /\ UNCHANGED <<stream, costs, request, rev, bill, provider>>

SettlesAs ==
  [charged |-> "settled", free |-> "released", unknown |-> "billing_unknown"]

Settle(p, kind) == Append1(p, held[p], kind) /\ bill' = [bill EXCEPT ![p] = NoBill]

(* settle: the cost id is derived from the reservation, and the store skips *)
(* an id it already holds ...                                               *)
RecordCheck(p) ==
  /\ pc[p] = "record"
  /\ IF costs[held[p]] # <<>>
     THEN Settle(p, SettlesAs[bill[p].status])
     ELSE Goto(p, "add") /\ UNCHANGED <<held, goal, bill>>
  /\ UNCHANGED <<stream, costs, request, rev, provider>>

(* ... by a read before the locked append. *)
RecordAdd(p) ==
  /\ pc[p] = "add"
  /\ costs' = [costs EXCEPT ![held[p]] = Append(@, bill[p])]
  /\ Settle(p, SettlesAs[bill[p].status])
  /\ UNCHANGED <<stream, request, rev, provider>>

(* The record could not be written: the charge is left pending. *)
RecordFails(p) ==
  /\ pc[p] \in {"record", "add"}
  /\ Settle(p, "billing_unknown")
  /\ UNCHANGED <<stream, costs, request, rev, provider>>

(* Mutant of Abandon: an abandoned dispatch is released. *)
AbandonReleasing(p, r) ==
  /\ pc[p] = "idle"
  /\ Status(history[r]) = "reserved"
  /\ Append1(p, r, "released")
  /\ UNCHANGED <<stream, costs, request, rev, bill, provider>>

(* abandonDispatch: an operator gives up on a dispatch still "reserved". *)
Abandon(p, r) ==
  /\ pc[p] = "idle"
  /\ Status(history[r]) = "reserved"
  /\ Append1(p, r, "billing_unknown")
  /\ UNCHANGED <<stream, costs, request, rev, bill, provider>>

Crash(p) ==
  /\ pc[p] # "idle"
  /\ IF pc[p] = "call" THEN MayHaveCharged(held[p]) ELSE UNCHANGED spent
  /\ Finish(p)
  /\ UNCHANGED <<stream, costs, calls>>

Next ==
  \E p \in Proc :
    \/ \E e \in Effect : \E a \in Amount[e] : ReserveKnown(p, e, a) \/ ReserveNew(p, e, a)
    \/ ListCosts(p) \/ CommitConflict(p)
    \/ \E r \in Res : Commit(p, r) \/ Abandon(p, r)
    \/ AppendRead(p) \/ AppendClash(p) \/ AppendPresent(p) \/ AppendConflict(p) \/ AppendCommit(p)
    \/ \E status \in {"charged", "free", "unknown"}, c \in Charge \cup {0} : ReturnBilled(p, status, c)
    \/ ReturnUnresolved(p) \/ ReturnUndispatched(p)
    \/ RecordCheck(p) \/ RecordAdd(p) \/ RecordFails(p)
    \/ Crash(p)

Spec == Init /\ [][Next]_vars

-----------------------------------------------------------------------------
Request == UNION {[effect : {e}, amount : Amount[e]] : e \in Effect}
Transition == [kind : Kind, at : {Instant[p] : p \in Proc}]
Observation == [status : DOMAIN SettlesAs, draw : Charge \cup {0}]

StreamType ==
  /\ history \in [Res -> Seq(Transition)]
  /\ revision \in Nat
  /\ terms \in [Res -> Request \cup {NoTerms}]
  /\ costs \in [Res -> Seq(Observation)]
  /\ calls \in [Res -> Nat] /\ spent \in [Res -> Nat]

CallType ==
  /\ pc \in [Proc -> {"idle", "list", "commit", "append", "cas", "call", "record", "add"}]
  /\ request \in [Proc -> Request \cup {NoTerms}]
  /\ held \in [Proc -> Res \cup {NoRes}]
  /\ rev \in [Proc -> Nat] /\ \A p \in Proc : rev[p] <= revision
  /\ goal \in [Proc -> Kind \cup {"none"}]
  /\ bill \in [Proc -> [status : DOMAIN SettlesAs \cup {"none"}, draw : Charge \cup {0}]]

TypeOK == StreamType /\ CallType

(* "Two callers racing to reserve the same effect converge on one           *)
(* reservation rather than committing twice."                               *)
OneReservationPerEffect ==
  \A r, s \in Res : r # s /\ ~Unused(r) /\ ~Unused(s) => terms[r].effect # terms[s].effect

(* "Two executions read the same remaining headroom and both dispatch" is   *)
(* what a reservation exists to prevent: the authorization committed under  *)
(* the grant, at most what each effect was authorized for, never exceeds    *)
(* its ceiling, however reservations, settlements and deaths interleave.    *)
Draw(r) == MapThenSumSet(LAMBDA i : costs[r][i].draw, DOMAIN costs[r])

Authorized(r) ==
  IF Active(history[r]) THEN terms[r].amount
  ELSE IF Draw(r) < terms[r].amount THEN Draw(r) ELSE terms[r].amount

NeverOvercommitted == MapThenSumSet(Authorized, Res) <= MaxTotal

(* "One reservation authorizes one charge": no retry after a crash and no   *)
(* race makes a second provider call under the same reservation; the window *)
(* after dispatch_prepared is "never read as not dispatched - reading it    *)
(* that way is how a paid call is repeated".                                *)
DispatchedOnce == \A r \in Res : calls[r] <= 1

(* No charge disappears: every provider charge is on record or its          *)
(* reservation still holds the authorization for it.                        *)
ChargeAccounted ==
  \A r \in Res : spent[r] > 0 =>
    Active(history[r]) \/ (Status(history[r]) = "settled" /\ Len(costs[r]) >= spent[r])

(* releaseBeforeDispatch "refuses once `dispatch_prepared` exists", for the *)
(* effect may have begun: while a provider call is under way, its           *)
(* reservation holds the authorization for it.                              *)
LiveCallIsCovered == \A p \in Proc : pc[p] = "call" => Active(history[held[p]])

(* The committed stream only grows, and "a reservation that stopped         *)
(* consuming authorization never resumes".                                  *)
TerminalIsFinal ==
  [][\A r \in Res : Status(history[r]) \in Terminal => history'[r] = history[r]]_vars

(* "An unknown charge blocks the grant, unless that execution was           *)
(* dispatched under an enforced ceiling": nothing is reserved while an      *)
(* unresolved reservation may cost anything.                                *)
UnknownBlocksGrant ==
  [][\A r \in Res : Unused(r) /\ ~Unused(r)' =>
       \A s \in Res : Status(history[s]) = "billing_unknown" => Bounded(s)]_vars
=============================================================================
