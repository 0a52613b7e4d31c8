--------------------------- MODULE Services_proofs ---------------------------
(***************************************************************************)
(* Proofs about what decides and answers above the runner, for any graphs,  *)
(* gates, operators, policies, packs of evidence and callers: what Workflow  *)
(* starts was cleared, and its plan offers nothing that would be refused;    *)
(* how knowledge packs are listed decides nothing, and a clean resolution    *)
(* leaves nothing open;                                                      *)
(* a rework loop stays within its licence; an evaluator is promoted where it *)
(* was seen at work; and neither the MCP surface nor the CLI lets a caller   *)
(* do more, or learn less, than it was granted.                              *)
(***************************************************************************)
EXTENDS Workflow, Knowledge, Regression, Rework, Doors,
        FiniteSetTheorems, NaturalsInduction, WellFoundedInduction, SequenceTheorems, TLAPS

Status == {"never_run", "running", "waiting_for_gate", "failed", "succeeded", "cancelled"}
Place == {"idle", "asking", "cleared", "running", "cancelling"}

(* What each operator's process and each stage's record look like.          *)
StagesFormed ==
  /\ stages \in [Stage -> [status : Status, gate : Gate \cup {None}, retryable : BOOLEAN]]
  /\ \A st \in Stage :
       stages[st].gate \in IF stages[st].status = "waiting_for_gate" THEN Asks[st] ELSE {None}

SessionsFormed ==
  /\ session \in [Session -> [pc : Place, stage : Stage \cup {None}, force : BOOLEAN,
                              blocking : SUBSET Gate]]
  /\ \A s \in Session : session[s].pc \in {"idle", "cancelling"} <=> session[s].stage = None

GatesFormed == content = [k \in Key |-> content[k]] /\ latest = [g \in Gate |-> latest[g]]

OthersFormed ==
  /\ graph \in Candidates /\ cancelled \in Session \cup {None}
  /\ trouble \in 0 .. MaxTrouble /\ unresolved \in 0 .. trouble

Formed == GateTypeOK /\ GatesFormed /\ StagesFormed /\ SessionsFormed /\ OthersFormed

(* `status` is computed from what there is.                                 *)
View == PolicyInput(CurrentlyBlocking)
ReportInv == report = RunReport(View)

(* What a process has been told while it asks and once it is cleared.       *)
Cleared(s) ==
  LET st == session[s].stage
  IN  /\ PredecessorsOf(st, graph) \subseteq past[s].stages
      /\ RequiredGatesFor(st, graph).declared =>
           ToSet(RequiredGatesFor(st, graph).gates) \subseteq past[s].gates

ClearedInv ==
  \A s \in Session :
    /\ session[s].pc = "asking" => Gate \ session[s].blocking \subseteq past[s].gates
    /\ session[s].pc \in {"cleared", "running"} => Cleared(s)

-----------------------------------------------------------------------------
(* Of the gates that block only the registered ones count.                  *)
LEMMA OnlyRegistered ==
  ASSUME NEW st, NEW blocking
  PROVE  GateBlocker(st, {g \in Gate : g \in blocking}) = GateBlocker(st, blocking)
<1> DEFINE B == {g \in Gate : g \in blocking}
           order == IF RequiredGatesFor(st, graph).declared THEN RequiredGatesFor(st, graph).gates ELSE Registry
<1>1. {i \in DOMAIN order : order[i] \notin Gate \/ order[i] \in B}
        = {i \in DOMAIN order : order[i] \notin Gate \/ order[i] \in blocking}
  OBVIOUS
<1> QED BY <1>1, Zenon DEF GateBlocker

LEMMA StatusOf ==
  ASSUME NEW g \in Gate, NEW blocking
  PROVE  /\ GateStatuses(blocking)[g].state = StateBehind(g, blocking)
         /\ GateStatuses(blocking)[g].blocking <=> g \in blocking
         /\ GateStatuses(blocking)[g].missing =
              IF OwnState(g) = "pending" THEN {k \in Binds[g] : content[k] = Missing} ELSE {}
<1> DEFINE missing == IF OwnState(g) = "pending" THEN {k \in Binds[g] : content[k] = Missing} ELSE {}
           status == [state |-> StateBehind(g, blocking), blocking |-> g \in blocking, missing |-> missing,
                      blockedBy |-> DependsOn[g] \cap blocking]
<1>1. GateStatuses(blocking)[g] = status
  BY Zenon DEF GateStatuses
<1>2. status.state = StateBehind(g, blocking) /\ status.missing = missing
  OBVIOUS
<1>3. status.blocking <=> g \in blocking
  BY Zenon
<1> HIDE DEF status
<1> QED BY <1>1, <1>2, <1>3, Zenon DEF missing

(* A report's gates say what blocks and how each gate stands.               *)
LEMMA Reported ==
  ASSUME ReportInv
  PROVE  /\ Blocking = {g \in Gate : g \in CurrentlyBlocking}
         /\ report.gates = GateStatuses(CurrentlyBlocking)
         /\ report.next = IF cancelled # None THEN {} ELSE NextActions(View)
         /\ report.blocked = IF cancelled # None THEN {} ELSE Blocked(View)
         /\ View.gates = GateStatuses(CurrentlyBlocking)
         /\ View.held = [st \in Stage |-> Blocker(st, CurrentlyBlocking)]
<1>1. View.gates = GateStatuses(CurrentlyBlocking) /\ View.held = [st \in Stage |-> Blocker(st, CurrentlyBlocking)]
  BY DEF View, PolicyInput
<1>2. /\ report.gates = View.gates
      /\ report.next = IF cancelled # None THEN {} ELSE NextActions(View)
      /\ report.blocked = IF cancelled # None THEN {} ELSE Blocked(View)
  BY Zenon DEF ReportInv, RunReport
<1>3. ASSUME NEW g \in Gate PROVE report.gates[g].blocking <=> g \in CurrentlyBlocking
  <2>1. report.gates = GateStatuses(CurrentlyBlocking)
    BY <1>1, <1>2
  <2> QED BY <2>1, StatusOf, Zenon
<1> QED BY <1>1, <1>2, <1>3 DEF Blocking

LEMMA Statuses ==
  ASSUME ReportInv, NEW g \in Gate
  PROVE  /\ View.gates[g].state = StateBehind(g, CurrentlyBlocking)
         /\ View.gates[g].blocking <=> g \in CurrentlyBlocking
         /\ View.gates[g].missing =
              IF OwnState(g) = "pending" THEN {k \in Binds[g] : content[k] = Missing} ELSE {}
<1>1. View.gates = GateStatuses(CurrentlyBlocking)
  BY Reported
<1>2. View.gates[g].state = StateBehind(g, CurrentlyBlocking)
  <2>1. GateStatuses(CurrentlyBlocking)[g].state = StateBehind(g, CurrentlyBlocking)
    BY DEF GateStatuses
  <2> QED BY <1>1, <2>1
<1>3. View.gates[g].blocking <=> g \in CurrentlyBlocking
  BY <1>1, StatusOf, Zenon
<1>4. View.gates[g].missing = IF OwnState(g) = "pending" THEN {k \in Binds[g] : content[k] = Missing} ELSE {}
  <2>1. GateStatuses(CurrentlyBlocking)[g].missing =
          IF OwnState(g) = "pending" THEN {k \in Binds[g] : content[k] = Missing} ELSE {}
    BY StatusOf
  <2> QED BY <1>1, <2>1, Zenon
<1> QED BY <1>2, <1>3, <1>4

LEMMA States ==
  ASSUME NEW g \in Gate, NEW blocking
  PROVE  /\ StateBehind(g, blocking) \in {"pending", "rejected", "changes_requested", "stale", "waived",
                                          "satisfied", "blocked_upstream"}
         /\ StateBehind(g, blocking) # "blocked_upstream" => StateBehind(g, blocking) = OwnState(g)
         /\ StateBehind(g, blocking) = "pending" => DependsOn[g] \cap blocking = {}
<1>1. OwnState(g) \in {"pending", "rejected", "changes_requested", "stale", "waived", "satisfied"}
  BY Zenon DEF OwnState
<1> QED BY <1>1 DEF StateBehind

LEMMA HeldIs ==
  ASSUME ReportInv, NEW st \in Stage
  PROVE  /\ View.held[st] = Blocker(st, CurrentlyBlocking)
         /\ View.held[st].enforced <=> EnforcedBlockerFor(st, Blocking)
         /\ View.held[st] = NoBlocker => ~View.held[st].enforced
<1>1. GateBlocker(st, Blocking) = GateBlocker(st, CurrentlyBlocking)
  BY Reported, OnlyRegistered
<1>2. Blocker(st, Blocking) = Blocker(st, CurrentlyBlocking)
  BY <1>1 DEF Blocker
<1> QED BY <1>2, Reported DEF EnforcedBlockerFor, NoBlocker

-----------------------------------------------------------------------------
(* An action of the plan is one of a kind the loops offer.                  *)
LEMMA Offers ==
  ASSUME ReportInv, NEW a \in report.next
  PROVE  \/ a.kind = "approve-gate" /\ a.about \in Gate /\ View.gates[a.about].state = "stale"
         \/ /\ a.kind = "approve-gate" /\ \E st \in HaltedDecidable(View) : a.about = stages[st].gate
         \/ a.kind = "retry-stage" /\ a.about \in Retries(View)
         \/ a.kind = "run-stage" /\ a.about \in RunOffers(View)
         \/ a.kind = "approve-gate" /\ a.about \in RootsDecidable(View)
<1>1. a \in NextActions(View)
  BY Reported
<1>2. \A k, b, p : Action(k, b, p).kind = k /\ Action(k, b, p).about = b
  BY DEF Action
<1> HIDE DEF View
<1>3. \/ \E g \in StaleGates(View) : a = Action("approve-gate", g, 10)
      \/ \E st \in HaltedDecidable(View) : a = Action("approve-gate", stages[st].gate, 20)
      \/ \E st \in Retries(View) : a = Action("retry-stage", st, 30)
      \/ \E st \in RunOffers(View) : a = Action("run-stage", st, 40)
      \/ \E g \in RootsDecidable(View) : a = Action("approve-gate", g, 20)
  BY <1>1 DEF NextActions
<1>4. \/ \E g \in StaleGates(View) : a.kind = "approve-gate" /\ a.about = g
      \/ \E st \in HaltedDecidable(View) : a.kind = "approve-gate" /\ a.about = stages[st].gate
      \/ \E st \in Retries(View) : a.kind = "retry-stage" /\ a.about = st
      \/ \E st \in RunOffers(View) : a.kind = "run-stage" /\ a.about = st
      \/ \E g \in RootsDecidable(View) : a.kind = "approve-gate" /\ a.about = g
  BY <1>2, <1>3
<1> QED BY <1>4 DEF StaleGates

(* What the plan holds back as enforced is a stage that would be refused,   *)
(* or waits for a charge to be reconciled.                                  *)
LEMMA Withholdings ==
  ASSUME ReportInv, NEW b \in report.blocked, b.enforced
  PROVE  \/ b.about \in Stage /\ View.held[b.about].enforced
         \/ b.about \in Unblocked(View) \ RunOffers(View)
<1>1. b \in Blocked(View)
  BY Reported
<1>2. \A k, x, g, e : Withheld(k, x, g, e).about = x /\ Withheld(k, x, g, e).enforced = e
  BY DEF Withheld
<1>3. FailedStages \subseteq Stage /\ Ready(View) \subseteq Stage
  BY DEF FailedStages, Ready, ReleasedParks, Parked
<1> HIDE DEF View
<1>4. \/ \E st \in FailedStages \ Retries(View) : \E g : b = Withheld("retry-stage", st, g, View.held[st].enforced)
      \/ \E st \in Ready(View) \ Unblocked(View) : \E g : b = Withheld("run-stage", st, g, View.held[st].enforced)
      \/ \E st \in Unblocked(View) \ RunOffers(View) : b = Withheld("run-stage", st, None, TRUE)
      \/ \E k, x, g : b = Withheld(k, x, g, FALSE)
  BY <1>1 DEF Blocked
<1>5. \/ \E st \in FailedStages \ Retries(View) : b.about = st /\ b.enforced = View.held[st].enforced
      \/ \E st \in Ready(View) \ Unblocked(View) : b.about = st /\ b.enforced = View.held[st].enforced
      \/ \E st \in Unblocked(View) \ RunOffers(View) : b.about = st
      \/ b.enforced = FALSE
  <2>1. ASSUME NEW k, NEW st, NEW g, NEW e, b = Withheld(k, st, g, e)
        PROVE  b.about = st /\ b.enforced = e
    BY <2>1 DEF Withheld
  <2>2. ASSUME NEW st, b = Withheld("run-stage", st, None, TRUE) PROVE b.about = st
    BY <2>2 DEF Withheld
  <2>3. ASSUME NEW k, NEW x, NEW g, b = Withheld(k, x, g, FALSE) PROVE b.enforced = FALSE
    BY <2>3 DEF Withheld
  <2> QED BY <1>4, <2>1, <2>2, <2>3
<1> QED BY <1>3, <1>5

LEMMA OffersAccepted == Formed /\ ReportInv => OfferedIsAccepted
<1> SUFFICES ASSUME Formed, ReportInv PROVE OfferedIsAccepted
  OBVIOUS
<1>1. ASSUME NEW a \in report.next, a.kind \in {"run-stage", "retry-stage"}
      PROVE  Claimable(a.about, FALSE) /\ ~EnforcedBlockerFor(a.about, Blocking)
  <2>1. CASE a.about \in Retries(View)
    <3>1. a.about \in Stage /\ stages[a.about].status = "failed" /\ ~View.held[a.about].enforced
      BY <2>1 DEF Retries, FailedStages
    <3> QED BY <3>1, HeldIs DEF Claimable
  <2>2. CASE a.about \in RunOffers(View)
    <3>1. a.about \in Ready(View) /\ a.about \in Stage /\ View.held[a.about] = NoBlocker
      BY <2>2 DEF RunOffers, Unblocked, Ready, ReleasedParks, Parked
    <3>2. Claimable(a.about, FALSE)
      <4>1. CASE stages[a.about].status \in {"never_run", "queued"}
        BY <4>1 DEF Claimable
      <4>2. CASE a.about \in ReleasedParks(View)
        <5> DEFINE g == stages[a.about].gate
        <5>1. stages[a.about].status = "waiting_for_gate" /\ g \in Gate /\ GateIsSettled(View.gates[g].state)
          BY <4>2 DEF ReleasedParks, Parked
        <5>2. OwnState(g) \in {"satisfied", "waived"}
          BY <5>1, Statuses, States DEF GateIsSettled
        <5>3. latest[g].verdict # "none"
          BY <5>2 DEF OwnState
        <5> QED BY <5>1, <5>3 DEF Claimable
      <4> QED BY <3>1, <4>1, <4>2 DEF Ready
    <3> QED BY <3>1, <3>2, HeldIs
  <2> QED BY <1>1, <2>1, <2>2, Offers
<1>2. ASSUME NEW b \in report.blocked, b.enforced, unresolved = 0
      PROVE  EnforcedBlockerFor(b.about, Blocking)
  <2>1. Unblocked(View) \ RunOffers(View) = {}
    BY <1>2 DEF RunOffers
  <2> QED BY <1>2, <2>1, Withholdings, HeldIs
<1> QED BY <1>1, <1>2 DEF OfferedIsAccepted

LEMMA OffersDecidable == Formed /\ ReportInv => OffersAreDecidable
<1> SUFFICES ASSUME Formed, ReportInv, NEW a \in report.next, a.kind = "approve-gate", OwnState(a.about) = "pending"
             PROVE  /\ DependsOn[a.about] \cap Blocking = {}
                    /\ a.about \notin HaltedGates => \A k \in Binds[a.about] : content[k] # Missing
  BY DEF OffersAreDecidable
<1>1. Blocking = {g \in Gate : g \in CurrentlyBlocking}
  BY Reported
<1>2. CASE a.about \in Gate /\ View.gates[a.about].state = "stale"
  BY <1>2, Statuses, States
<1>3. ASSUME NEW st \in HaltedDecidable(View), a.about = stages[st].gate PROVE a.about \in HaltedGates /\ DependsOn[a.about] \cap Blocking = {}
  <2>1. st \in Parked /\ st \in Stage /\ View.gates[a.about].state \in {"pending", "changes_requested"}
    BY <1>3 DEF HaltedDecidable, Parked
  <2>2. a.about \in Gate
    BY <1>3, <2>1, WorkflowAssumption DEF Formed, StagesFormed, Parked
  <2>3. View.gates[a.about].state = "pending"
    BY <2>1, <2>2, Statuses, States
  <2>4. DependsOn[a.about] \cap CurrentlyBlocking = {}
    BY <2>2, <2>3, Statuses, States
  <2> QED BY <1>1, <1>3, <2>1, <2>4 DEF HaltedGates
<1>4. CASE a.about \in RootsDecidable(View)
  <2>1. /\ a.about \in Gate /\ View.gates[a.about].state \in {"pending", "changes_requested"}
        /\ View.gates[a.about].missing = {}
    BY <1>4 DEF RootsDecidable, RootsAtHand, DecidableRoots
  <2>2. View.gates[a.about].state = "pending"
    BY <2>1, Statuses, States
  <2>3. DependsOn[a.about] \cap CurrentlyBlocking = {}
    BY <2>1, <2>2, Statuses, States
  <2>4. {k \in Binds[a.about] : content[k] = Missing} = {}
    BY <2>1, Statuses
  <2> QED BY <1>1, <2>3, <2>4
<1> QED BY <1>2, <1>3, <1>4, Offers

LEMMA EverythingSpoken == Formed /\ ReportInv => NothingUnspoken
<1> SUFFICES ASSUME Formed, ReportInv, cancelled = None, NEW st \in Stage, ~Silent(st)
             PROVE  \E a \in report.next \cup report.blocked : a.about \in {st, stages[st].gate}
  BY DEF NothingUnspoken
<1>1. report.next = NextActions(View) /\ report.blocked = Blocked(View)
  BY Reported
<1>2. /\ \A k, b, p : Action(k, b, p).about = b
      /\ \A k, x, g, e : Withheld(k, x, g, e).about = x
  BY DEF Action, Withheld
<1>3. stages[st].status \in {"never_run", "running", "waiting_for_gate", "failed"}
  BY DEF Silent, Formed, StagesFormed, Status
<1> DEFINE spoken(x) == \E a \in NextActions(View) \cup Blocked(View) : a.about = x
<1>9. /\ \A k, b, p : Action(k, b, p) \in NextActions(View) => spoken(b)
      /\ \A k, x, g : Withheld(k, x, g, FALSE) \in Blocked(View) => spoken(x)
      /\ \A k, x, g, e : Withheld(k, x, g, e) \in Blocked(View) => spoken(x)
  BY DEF Action, Withheld
<1> HIDE DEF spoken
<1>4. CASE st \in Ready(View)
  <2>1. \/ st \in RunOffers(View) \/ st \in Ready(View) \ Unblocked(View)
        \/ st \in Unblocked(View) \ RunOffers(View)
    BY <1>4
  <2>2. \/ Action("run-stage", st, 40) \in NextActions(View)
        \/ \E g, f : Withheld("run-stage", st, g, f) \in Blocked(View)
    BY <2>1 DEF NextActions, Blocked
  <2>3. spoken(st)
    BY <1>9, <2>2, Zenon
  <2> QED BY <1>1, <2>3 DEF spoken
<1>5. CASE stages[st].status = "failed"
  <2>1. st \in Retries(View) \/ st \in FailedStages \ Retries(View)
    BY <1>5 DEF FailedStages
  <2>2. \/ Action("retry-stage", st, 30) \in NextActions(View)
        \/ \E g, f : Withheld("retry-stage", st, g, f) \in Blocked(View)
    BY <2>1 DEF NextActions, Blocked
  <2>3. spoken(st)
    BY <1>9, <2>2, Zenon
  <2> QED BY <1>1, <2>3 DEF spoken
<1>6. CASE stages[st].status = "running"
  <2>1. st \in {s \in Stage : stages[s].status = "running"}
    BY <1>6
  <2>2. Withheld("run-stage", st, None, FALSE) \in Blocked(View)
    BY <2>1 DEF Blocked
  <2>3. spoken(st)
    BY <1>9, <2>2, Zenon
  <2> QED BY <1>1, <2>3 DEF spoken
<1>7. CASE stages[st].status = "waiting_for_gate" /\ st \notin Ready(View)
  <2> DEFINE g == stages[st].gate
  <2>1. g \in Gate
    BY <1>7, WorkflowAssumption DEF Formed, StagesFormed
  <2>2. st \in Parked \ ReleasedParks(View) /\ ~GateIsSettled(View.gates[g].state)
    BY <1>7, <2>1 DEF Parked, Ready, ReleasedParks
  <2>3. View.gates[g].state # "rejected"
    BY <1>7, Reported DEF Silent
  <2>4. View.gates[g].state \in {"pending", "changes_requested", "stale", "blocked_upstream"}
    <3>1. View.gates[g].state = StateBehind(g, CurrentlyBlocking)
      BY <2>1, Statuses
    <3>2. StateBehind(g, CurrentlyBlocking) \in {"pending", "rejected", "changes_requested", "stale", "waived",
                                                 "satisfied", "blocked_upstream"}
      BY <2>1, States
    <3> HIDE DEF g
    <3> QED BY <2>2, <2>3, <3>1, <3>2 DEF GateIsSettled
  <2>5. CASE View.gates[g].state \in {"pending", "changes_requested"}
    <3>1. st \in HaltedDecidable(View)
      BY <2>2, <2>5 DEF HaltedDecidable
    <3>2. Action("approve-gate", g, 20) \in NextActions(View)
      BY <3>1 DEF NextActions
    <3>3. spoken(g)
      BY <1>9, <3>2, Zenon
    <3> QED BY <1>1, <3>3 DEF spoken
  <2>6. CASE View.gates[g].state = "blocked_upstream"
    <3>1. st \in HaltedUpstream(View)
      BY <2>2, <2>6 DEF HaltedUpstream
    <3>2. Withheld("approve-gate", st, g, FALSE) \in Blocked(View)
      BY <3>1 DEF Blocked
    <3>3. spoken(st)
      BY <1>9, <3>2, Zenon
    <3> QED BY <1>1, <3>3 DEF spoken
  <2>7. CASE View.gates[g].state = "stale"
    <3>1. g \in StaleGates(View)
      BY <2>1, <2>7 DEF StaleGates
    <3>2. \/ g \in {h \in StaleGates(View) : View.gates[h].blocking}
          \/ g \in {h \in StaleGates(View) : ~View.gates[h].blocking}
      BY <3>1
    <3>3. \/ Action("approve-gate", g, 10) \in NextActions(View)
          \/ Withheld("approve-gate", g, g, FALSE) \in Blocked(View)
      BY <3>2 DEF NextActions, Blocked
    <3>4. spoken(g)
      BY <1>9, <3>3, Zenon
    <3> QED BY <1>1, <3>4 DEF spoken
  <2> QED BY <2>4, <2>5, <2>6, <2>7
<1>8. stages[st].status = "never_run" => st \in Ready(View)
  BY DEF Ready
<1> QED BY <1>3, <1>4, <1>5, <1>6, <1>7, <1>8

LEMMA Honest == Formed /\ ReportInv => PlanIsHonest
BY OffersAccepted, OffersDecidable, EverythingSpoken DEF PlanIsHonest

-----------------------------------------------------------------------------
LEMMA FormedTyped == Formed => TypeOK
<1> SUFFICES ASSUME Formed PROVE TypeOK
  OBVIOUS
<1>1. \A st \in Stage : stages[st].status \in Status /\ stages[st].retryable \in BOOLEAN
  BY DEF Formed, StagesFormed
<1>2. \A s \in Session : /\ session[s].pc \in Place /\ session[s].stage \in Stage \cup {None}
                         /\ session[s].blocking \subseteq Gate
  BY DEF Formed, SessionsFormed
<1>3. unresolved \in 0 .. MaxTrouble
  BY WorkflowAssumption DEF Formed, OthersFormed
<1>4. \A st \in Stage :
        stages[st].gate \in IF stages[st].status = "waiting_for_gate" THEN Asks[st] ELSE {None}
  BY DEF Formed, StagesFormed
<1>5. \A s \in Session : session[s].pc \in {"idle", "cancelling"} <=> session[s].stage = None
  BY DEF Formed, SessionsFormed
<1> QED BY <1>1, <1>2, <1>3, <1>4, <1>5, Zenon DEF TypeOK, Formed, OthersFormed, Status, Place

LEMMA Edited ==
  ASSUME Formed, NEW k \in Key, Edit(k)
  PROVE  GateTypeOK' /\ GatesFormed'
<1>1. PICK h \in Values[k] : content' = [content EXCEPT ![k] = h] /\ UNCHANGED latest
  BY DEF Edit
<1>2. content' = [j \in Key |-> content'[j]] /\ \A j \in Key : content'[j] = IF j = k THEN h ELSE content[j]
  BY <1>1 DEF Formed, GatesFormed
<1> QED BY <1>1, <1>2 DEF Formed, GateTypeOK, GatesFormed

LEMMA Decided ==
  ASSUME Formed, NEW g \in Gate, NEW kind, NEW expires \in BOOLEAN, NEW verdict \in Verdicts[g],
         Decide(g, kind, verdict, expires)
  PROVE  GateTypeOK' /\ GatesFormed'
<1> DEFINE d == [verdict |-> verdict, subjects |-> SubjectHashes(g, content), expires |-> expires]
<1>1. latest' = [latest EXCEPT ![g] = d] /\ UNCHANGED content
  BY DEF Decide
<1>2. d.verdict = verdict /\ d.expires = expires /\ d.subjects = SubjectHashes(g, content)
  OBVIOUS
<1>3. DOMAIN d.subjects \subseteq UNION {Values[k] : k \in Binds[g]}
  <2>1. Binds[g] \subseteq Key
    BY GateAssumption
  <2> QED BY <2>1 DEF SubjectHashes, Formed, GateTypeOK
<1> HIDE DEF d
<1>4. latest' = [f \in Gate |-> latest'[f]] /\ \A f \in Gate : latest'[f] = IF f = g THEN d ELSE latest[f]
  BY <1>1 DEF Formed, GatesFormed
<1>5. ASSUME NEW f \in Gate
      PROVE  /\ latest'[f].verdict \in Verdicts[f] \cup {"none"} /\ latest'[f].expires \in BOOLEAN
             /\ DOMAIN latest'[f].subjects \subseteq UNION {Values[k] : k \in Binds[f]}
  BY <1>2, <1>3, <1>4 DEF Formed, GateTypeOK
<1> QED BY <1>1, <1>4, <1>5 DEF Formed, GateTypeOK, GatesFormed

LEMMA Written ==
  ASSUME Formed, NEW st \in Stage, Write(st)
  PROVE  GateTypeOK' /\ GatesFormed'
<1>1. PICK value \in [Produces[st] -> UNION {Values[k] : k \in Key}] :
        /\ \A k \in Produces[st] : value[k] \in Values[k]
        /\ content' = [k \in Key |-> IF k \in Produces[st] THEN value[k] ELSE content[k]]
  BY DEF Write
<1>2. UNCHANGED latest
  BY DEF Write
<1> QED BY <1>1, <1>2 DEF Formed, GateTypeOK, GatesFormed

LEMMA Settled ==
  ASSUME Formed, NEW st \in Stage, NEW status \in Status, NEW gate, NEW retryable \in BOOLEAN,
         gate \in IF status = "waiting_for_gate" THEN Asks[st] ELSE {None},
         Settle(st, status, gate, retryable)
  PROVE  StagesFormed'
<1>1. gate \in Gate \cup {None}
  BY WorkflowAssumption
<1>2. stages' = [stages EXCEPT ![st] = [status |-> status, gate |-> gate, retryable |-> retryable]]
  BY DEF Settle
<1>3. /\ stages' \in [Stage -> [status : Status, gate : Gate \cup {None}, retryable : BOOLEAN]]
      /\ \A t \in Stage : stages'[t] = IF t = st THEN [status |-> status, gate |-> gate, retryable |-> retryable]
                                       ELSE stages[t]
  BY <1>1, <1>2 DEF Formed, StagesFormed
<1> QED BY <1>3 DEF Formed, StagesFormed

Activity == [pc : Place, stage : Stage \cup {None}, force : BOOLEAN, blocking : SUBSET Gate]

LEMMA Moved ==
  ASSUME Formed, NEW s \in Session, NEW r \in Activity, r.pc \in {"idle", "cancelling"} <=> r.stage = None,
         session' = [session EXCEPT ![s] = r]
  PROVE  /\ SessionsFormed' /\ session'[s] = r
         /\ \A t \in Session \ {s} : session'[t] = session[t]
<1>1. session \in [Session -> Activity]
  BY DEF Formed, SessionsFormed, Activity
<1>2. session' \in [Session -> Activity] /\ \A t \in Session : session'[t] = IF t = s THEN r ELSE session[t]
  BY <1>1
<1>3. \A t \in Session : session'[t].pc \in {"idle", "cancelling"} <=> session'[t].stage = None
  BY <1>2 DEF Formed, SessionsFormed
<1> QED BY <1>2, <1>3 DEF SessionsFormed, Activity

LEMMA Idles == Idle \in Activity /\ Idle.pc = "idle" /\ Idle.stage = None
BY DEF Idle, Activity, Place

LEMMA Activities ==
  ASSUME Formed, NEW s \in Session
  PROVE  /\ session[s] \in Activity /\ session[s].force \in BOOLEAN /\ session[s].stage \in Stage \cup {None}
         /\ session[s].blocking \subseteq Gate /\ session[s].pc \in Place
         /\ session[s].pc \in {"idle", "cancelling"} <=> session[s].stage = None
BY DEF Formed, SessionsFormed, Activity

-----------------------------------------------------------------------------
(* How a process comes to be where it is.                                   *)
Goes(s) ==
  session'[s].stage # None =>
    \/ /\ session'[s].stage = session[s].stage
       /\ session'[s].pc = "asking" => session[s].pc = "asking" /\ session'[s].blocking = session[s].blocking
       /\ session'[s].pc \in {"cleared", "running"} => session[s].pc \in {"cleared", "running"}
    \/ session'[s].pc = "asking" /\ session'[s].blocking = Blocking /\ UNCHANGED gates
    \/ /\ session'[s].pc = "cleared" /\ session[s].pc = "asking" /\ session'[s].stage = session[s].stage
       /\ ~EnforcedBlockerFor(session[s].stage, session[s].blocking) /\ UNCHANGED stages

Lawful == Formed' /\ UNCHANGED graph /\ \A s \in Session : Goes(s)

LEMMA Waits ==
  ASSUME Formed, UNCHANGED session
  PROVE  SessionsFormed' /\ \A s \in Session : Goes(s)
BY DEF Formed, SessionsFormed, Goes

LEMMA Leaves ==
  ASSUME Formed, NEW s \in Session, session' = [session EXCEPT ![s] = Idle]
  PROVE  SessionsFormed' /\ \A t \in Session : Goes(t)
<1>1. SessionsFormed' /\ session'[s] = Idle /\ \A t \in Session \ {s} : session'[t] = session[t]
  BY Moved, Idles
<1>2. \A t \in Session : Goes(t)
  BY <1>1, Idles DEF Goes
<1> QED BY <1>1, <1>2

LEMMA RunLawful == ASSUME Formed, NEW s \in Session, NEW st \in Stage, RunStage(s, st) PROVE Lawful
<1> DEFINE r == [pc |-> "asking", stage |-> st, force |-> Orphaned(st), blocking |-> Blocking]
<1>1. session' = [session EXCEPT ![s] = r] /\ UNCHANGED <<gates, graph, goals, cancelled, stages, unresolved>>
  BY DEF RunStage
<1>2. r \in Activity /\ r.pc = "asking" /\ r.stage = st /\ r.blocking = Blocking
  BY DEF Activity, Orphaned, Blocking, Place
<1> HIDE DEF r
<1>3. SessionsFormed' /\ session'[s] = r /\ \A t \in Session \ {s} : session'[t] = session[t]
  BY <1>1, <1>2, Moved, WorkflowAssumption
<1>4. \A t \in Session : Goes(t)
  BY <1>1, <1>2, <1>3 DEF Goes
<1>5. trouble' \in {trouble} \cup {t \in {trouble + 1} : trouble < MaxTrouble}
  BY DEF RunStage, Trouble
<1>6. OthersFormed'
  BY <1>1, <1>5, WorkflowAssumption DEF Formed, OthersFormed
<1> QED BY <1>1, <1>3, <1>4, <1>6 DEF Lawful, Formed, GateTypeOK, GatesFormed, StagesFormed, gates

LEMMA CheckLawful == ASSUME Formed, NEW s \in Session, CheckStage(s) PROVE Lawful
<1> DEFINE c == [session[s] EXCEPT !.pc = "cleared", !.blocking = {}]
<1>1. /\ session[s].pc = "asking" /\ UNCHANGED <<gates, graph, goals, cancelled, stages, unresolved, trouble>>
      /\ session' = [session EXCEPT ![s] =
                       IF EnforcedBlockerFor(session[s].stage, session[s].blocking) THEN Idle ELSE c]
  BY DEF CheckStage
<1>2. c \in Activity /\ c.pc = "cleared" /\ c.stage = session[s].stage /\ c.stage # None
  BY <1>1, Activities DEF Activity, Place
<1> HIDE DEF c
<1>3. SessionsFormed' /\ \A t \in Session : Goes(t)
  <2>1. CASE EnforcedBlockerFor(session[s].stage, session[s].blocking)
    BY <1>1, <2>1, Leaves
  <2>2. CASE ~EnforcedBlockerFor(session[s].stage, session[s].blocking)
    <3>1. session' = [session EXCEPT ![s] = c]
      BY <1>1, <2>2
    <3>2. SessionsFormed' /\ session'[s] = c /\ \A t \in Session \ {s} : session'[t] = session[t]
      BY <1>2, <3>1, Moved
    <3>3. \A t \in Session : Goes(t)
      BY <1>1, <1>2, <2>2, <3>2 DEF Goes
    <3> QED BY <3>2, <3>3
  <2> QED BY <2>1, <2>2
<1> QED BY <1>1, <1>3 DEF Lawful, Formed, GateTypeOK, GatesFormed, StagesFormed, OthersFormed, gates

LEMMA ClaimLawful == ASSUME Formed, NEW s \in Session, Claim(s) PROVE Lawful
<1> DEFINE st == session[s].stage
           r == [session[s] EXCEPT !.pc = "running"]
<1>1. session[s].pc = "cleared" /\ UNCHANGED <<gates, graph, goals, cancelled, unresolved, trouble>>
  BY DEF Claim
<1>2. st \in Stage /\ st # None /\ r \in Activity /\ r.pc = "running" /\ r.stage = st
  BY <1>1, Activities DEF Activity, Place
<1>3. StagesFormed' /\ SessionsFormed' /\ \A t \in Session : Goes(t)
  <2>1. CASE Claimable(st, session[s].force)
    <3>1. Settle(st, "running", None, FALSE) /\ session' = [session EXCEPT ![s].pc = "running"]
      BY <2>1 DEF Claim
    <3>2. session' = [session EXCEPT ![s] = r]
      BY <3>1
    <3>3. StagesFormed'
      BY <1>2, <3>1, Settled DEF Status
    <3> HIDE DEF r
    <3>4. SessionsFormed' /\ session'[s] = r /\ \A t \in Session \ {s} : session'[t] = session[t]
      BY <1>2, <3>2, Moved
    <3>5. \A t \in Session : Goes(t)
      BY <1>1, <1>2, <3>4 DEF Goes
    <3> QED BY <3>3, <3>4, <3>5
  <2>2. CASE ~Claimable(st, session[s].force)
    <3>1. session' = [session EXCEPT ![s] = Idle] /\ UNCHANGED stages
      BY <2>2 DEF Claim
    <3> QED BY <3>1, Leaves DEF Formed, StagesFormed
  <2> QED BY <2>1, <2>2
<1> QED BY <1>1, <1>3 DEF Lawful, Formed, GateTypeOK, GatesFormed, OthersFormed, gates

LEMMA EndLawful ==
  ASSUME Formed, NEW s \in Session, NEW st \in Stage,
         Succeed(s, st) \/ HaltAtGate(s, st) \/ Fail(s, st) \/ DispatchRefused(s, st) \/ Abort(s, st)
  PROVE  Lawful
<1>1. session' = [session EXCEPT ![s] = Idle] /\ UNCHANGED <<graph, goals, cancelled>>
  BY DEF Succeed, HaltAtGate, Fail, DispatchRefused, Abort
<1>2. SessionsFormed' /\ \A t \in Session : Goes(t)
  BY <1>1, Leaves
<1>3. GateTypeOK' /\ GatesFormed'
  <2>1. Write(st) \/ UNCHANGED gates
    BY DEF Succeed, HaltAtGate, Fail, DispatchRefused, Abort
  <2>2. CASE UNCHANGED gates
    BY <2>2 DEF Formed, GateTypeOK, GatesFormed, gates
  <2> QED BY <2>1, <2>2, Written
<1>4. StagesFormed'
  <2>1. CASE Succeed(s, st)
    <3>1. Settle(st, "succeeded", None, FALSE)
      BY <2>1 DEF Succeed
    <3> QED BY <3>1, Settled DEF Status
  <2>2. CASE HaltAtGate(s, st)
    <3>1. PICK g \in Asks[st] : Settle(st, "waiting_for_gate", g, FALSE)
      BY <2>2 DEF HaltAtGate
    <3> QED BY <3>1, Settled DEF Status
  <2>3. CASE Fail(s, st)
    <3>1. PICK retryable \in BOOLEAN : Settle(st, "failed", None, retryable)
      BY <2>3 DEF Fail
    <3> QED BY <3>1, Settled DEF Status
  <2>4. CASE DispatchRefused(s, st)
    <3>1. Settle(st, "failed", None, FALSE)
      BY <2>4 DEF DispatchRefused
    <3> QED BY <3>1, Settled DEF Status
  <2>5. CASE Abort(s, st)
    <3>1. Settle(st, "cancelled", None, FALSE)
      BY <2>5 DEF Abort
    <3> QED BY <3>1, Settled DEF Status
  <2> QED BY <2>1, <2>2, <2>3, <2>4, <2>5
<1>5. OthersFormed'
  <2>1. \/ UNCHANGED unresolved /\ (UNCHANGED trouble \/ Trouble)
        \/ Trouble /\ \E charge \in {0, 1} : unresolved' = unresolved + charge
    BY DEF Succeed, HaltAtGate, Fail, DispatchRefused, Abort, Write
  <2> QED BY <1>1, <2>1, WorkflowAssumption DEF Formed, OthersFormed, Trouble
<1> QED BY <1>1, <1>2, <1>3, <1>4, <1>5 DEF Lawful, Formed

LEMMA CrashLawful == ASSUME Formed, NEW s \in Session, Crash(s) PROVE Lawful
<1>1. SessionsFormed' /\ \A t \in Session : Goes(t)
  BY Leaves DEF Crash
<1>2. Trouble /\ UNCHANGED <<gates, graph, goals, cancelled, stages, unresolved>>
  BY DEF Crash
<1>3. OthersFormed'
  BY <1>2, WorkflowAssumption DEF Formed, OthersFormed, Trouble
<1> QED BY <1>1, <1>2, <1>3 DEF Lawful, Formed, GateTypeOK, GatesFormed, StagesFormed, gates

LEMMA CancelLawful ==
  ASSUME Formed, NEW s \in Session, CancelRun(s) \/ RecordCancellation(s) PROVE Lawful
<1>1. CASE CancelRun(s)
  <2> DEFINE r == [session[s] EXCEPT !.pc = "cancelling"]
  <2>1. /\ session[s] = Idle /\ Trouble /\ session' = [session EXCEPT ![s].pc = "cancelling"]
        /\ UNCHANGED <<gates, graph, goals, cancelled, stages, unresolved>>
    BY <1>1 DEF CancelRun
  <2>2. session' = [session EXCEPT ![s] = r]
    BY <2>1
  <2>3. r \in Activity /\ r.pc = "cancelling" /\ r.stage = None
    <3>1. session[s].stage = None
      BY <2>1, Idles
    <3> QED BY <3>1, Activities DEF Activity, Place
  <2> HIDE DEF r
  <2>4. SessionsFormed' /\ session'[s] = r /\ \A t \in Session \ {s} : session'[t] = session[t]
    BY <2>2, <2>3, Moved
  <2>5. \A t \in Session : Goes(t)
    BY <2>3, <2>4 DEF Goes
  <2>6. OthersFormed'
    BY <2>1, WorkflowAssumption DEF Formed, OthersFormed, Trouble
  <2> QED BY <2>1, <2>4, <2>5, <2>6 DEF Lawful, Formed, GateTypeOK, GatesFormed, StagesFormed, gates
<1>2. CASE RecordCancellation(s)
  <2>1. SessionsFormed' /\ \A t \in Session : Goes(t)
    BY <1>2, Leaves DEF RecordCancellation
  <2>2. cancelled' = s /\ UNCHANGED <<gates, graph, goals, stages, unresolved, trouble>>
    BY <1>2 DEF RecordCancellation
  <2> QED BY <2>1, <2>2 DEF Lawful, Formed, GateTypeOK, GatesFormed, StagesFormed, OthersFormed, gates
<1> QED BY <1>1, <1>2

LEMMA DecisionLawful ==
  ASSUME Formed, NEW g \in Gate, Approve(g) \/ OtherDecision(g) PROVE Lawful
<1>1. UNCHANGED <<graph, goals, cancelled, stages, unresolved, session>> /\ (UNCHANGED trouble \/ Trouble)
  BY DEF Approve, OtherDecision
<1>2. PICK kind \in ActorKind, verdict \in Verdicts[g] : Decide(g, kind, verdict, TRUE)
  BY WorkflowAssumption DEF Approve, OtherDecision, ActorKind
<1>3. GateTypeOK' /\ GatesFormed'
  BY <1>2, Decided
<1>4. OthersFormed'
  BY <1>1, WorkflowAssumption DEF Formed, OthersFormed, Trouble
<1> QED BY <1>1, <1>3, <1>4, Waits DEF Lawful, Formed, StagesFormed

LEMMA EditLawful == ASSUME Formed, NEW k \in Key, AdopterEdits(k) PROVE Lawful
<1>1. UNCHANGED <<graph, goals, cancelled, stages, unresolved, session>> /\ Trouble
  BY DEF AdopterEdits
<1>2. GateTypeOK' /\ GatesFormed'
  BY Edited DEF AdopterEdits
<1>3. OthersFormed'
  BY <1>1, WorkflowAssumption DEF Formed, OthersFormed, Trouble
<1> QED BY <1>1, <1>2, <1>3, Waits DEF Lawful, Formed, StagesFormed

LEMMA SettleLawful == ASSUME Formed, SettleSpend PROVE Lawful
<1>1. UNCHANGED <<gates, graph, goals, cancelled, stages, session, trouble>>
  BY DEF SettleSpend
<1>2. OthersFormed'
  BY <1>1 DEF SettleSpend, Formed, OthersFormed
<1> QED BY <1>1, <1>2, Waits DEF Lawful, Formed, GateTypeOK, GatesFormed, StagesFormed, gates

LEMMA StepLawful == Formed /\ Step => Lawful
BY RunLawful, CheckLawful, ClaimLawful, EndLawful, CrashLawful, CancelLawful, DecisionLawful, EditLawful,
   SettleLawful DEF Step

LEMMA FormedInit == Init => Formed
<1> SUFFICES ASSUME Init PROVE Formed
  OBVIOUS
<1>1. GateTypeOK /\ GatesFormed
  <2>1. \A g \in Gate : latest[g] = NoDecision
    BY DEF Init, GateInit
  <2>2. NoDecision.verdict = "none" /\ NoDecision.expires = TRUE /\ DOMAIN NoDecision.subjects = {}
    BY DEF NoDecision
  <2> QED BY <2>1, <2>2 DEF Init, GateInit, GateTypeOK, GatesFormed
<1>2. StagesFormed
  <2>1. NeverRun \in [status : Status, gate : Gate \cup {None}, retryable : BOOLEAN]
    BY DEF NeverRun, Status
  <2>2. NeverRun.status = "never_run" /\ NeverRun.gate = None
    BY DEF NeverRun
  <2> QED BY <2>1, <2>2 DEF Init, StagesFormed
<1>3. SessionsFormed
  BY Idles DEF Init, SessionsFormed, Activity
<1>4. OthersFormed
  BY WorkflowAssumption DEF Init, OthersFormed
<1> QED BY <1>1, <1>2, <1>3, <1>4 DEF Formed

LEMMA FormedStep == Formed /\ [Next]_vars => Formed'
<1>1. CASE Formed /\ Next
  BY <1>1, StepLawful DEF Next, Lawful
<1>2. CASE Formed /\ UNCHANGED vars
  BY <1>2 DEF Formed, GateTypeOK, GatesFormed, StagesFormed, SessionsFormed, OthersFormed, vars, gates
<1> QED BY <1>1, <1>2

-----------------------------------------------------------------------------
(* The report is what the state makes it: nothing moves without it.        *)
LEMMA ReportInit == Init => ReportInv
<1> SUFFICES ASSUME Init PROVE ReportInv
  OBVIOUS
<1>1. \E blocking \in {CurrentlyBlocking} : \E v \in {PolicyInput(blocking)} : report = RunReport(v)
  BY DEF Init
<1> QED BY <1>1 DEF ReportInv, View

LEMMA ReportStep == ReportInv /\ [Next]_vars => ReportInv'
<1>1. CASE Observe
  <2>1. PICK blocking \in {CurrentlyBlocking'} :
          \E v \in {PolicyInput(blocking)'} : report' = RunReport(v)'
    BY <1>1 DEF Observe
  <2>2. PICK v \in {PolicyInput(blocking)'} : report' = RunReport(v)'
    BY <2>1
  <2>3. v = PolicyInput(CurrentlyBlocking)'
    BY <2>1, <2>2
  <2>4. report' = RunReport(PolicyInput(CurrentlyBlocking))'
    BY <2>2, <2>3
  <2> QED BY <2>4 DEF ReportInv, View
<1>2. CASE ReportInv /\ UNCHANGED vars
  <2>1. UNCHANGED View
    BY <1>2 DEF View, PolicyInput, GateStatuses, StateBehind, CurrentlyBlocking, OwnState, Drifted, Blocker,
       OrderingBlocker, Outstanding, GateBlocker, vars, gates
  <2>2. ASSUME NEW v PROVE RunReport(v)' = RunReport(v)
    BY <1>2 DEF RunReport, DeriveRunState, NextActions, Blocked, Parked, ReleasedParks, HaltedGates,
       HaltedDecidable, HaltedUpstream, FailedStages, Retries, Ready, Unblocked, RunOffers, StandingInTheWay,
       UrgedByLoops1To4, RootsAtHand, RootsDecidable, Unauthorizing, vars, gates
  <2> QED BY <1>2, <2>1, <2>2 DEF ReportInv, vars
<1> QED BY <1>1, <1>2 DEF Next

LEMMA SameBlocking == UNCHANGED gates => UNCHANGED CurrentlyBlocking
BY DEF CurrentlyBlocking, OwnState, Drifted, gates

(* What is not refused has its predecessors and its declared gates behind   *)
(* it, as they were read.                                                   *)
LEMMA NotRefused ==
  ASSUME NEW st, NEW blocking, ~EnforcedBlockerFor(st, blocking)
  PROVE  /\ PredecessorsOf(st, graph) \subseteq Succeeded
         /\ RequiredGatesFor(st, graph).declared =>
              ToSet(RequiredGatesFor(st, graph).gates) \subseteq Gate \ blocking
<1> DEFINE required == RequiredGatesFor(st, graph)
<1>1. Outstanding(st) = {} /\ OrderingBlocker(st) = NoBlocker
  BY DEF EnforcedBlockerFor, Blocker, OrderingBlocker, NoBlocker
<1>2. ~GateBlocker(st, blocking).enforced
  BY <1>1 DEF EnforcedBlockerFor, Blocker
<1>3. required.declared => \A i \in DOMAIN required.gates : required.gates[i] \in Gate \ blocking
  <2> SUFFICES ASSUME required.declared, ~ \A i \in DOMAIN required.gates : required.gates[i] \in Gate \ blocking
               PROVE  FALSE
    OBVIOUS
  <2>1. PICK g : GateBlocker(st, blocking) = [kind |-> "gate", gate |-> g, enforced |-> required.declared]
    BY Zenon DEF GateBlocker
  <2> HIDE DEF required
  <2>2. [kind |-> "gate", gate |-> g, enforced |-> required.declared].enforced = required.declared
    OBVIOUS
  <2> QED BY <1>2, <2>1, <2>2, Zenon
<1>4. \A p \in PredecessorsOf(st, graph) : p \in Succeeded
  BY <1>1 DEF Outstanding, Succeeded
<1> QED BY <1>3, <1>4 DEF ToSet

LEMMA Remembered ==
  ASSUME Observe, NEW s \in Session, session'[s].stage # None
  PROVE  /\ past'[s].stages = past[s].stages \cup Succeeded'
         /\ past'[s].gates = past[s].gates \cup (Gate \ CurrentlyBlocking')
BY DEF Observe

LEMMA ClearedInit == Init => ClearedInv
<1> SUFFICES ASSUME Init, NEW s \in Session PROVE session[s].pc = "idle"
  BY DEF ClearedInv
<1> QED BY Idles DEF Init

LEMMA ClearedStep == Formed /\ ReportInv /\ ClearedInv /\ [Next]_vars => ClearedInv'
<1>1. ASSUME Formed, ReportInv, ClearedInv, Step, Observe, NEW s \in Session
      PROVE  /\ session'[s].pc = "asking" => Gate \ session'[s].blocking \subseteq past'[s].gates
             /\ session'[s].pc \in {"cleared", "running"} => Cleared(s)'
  <2>1. Lawful
    BY <1>1, StepLawful
  <2>2. session'[s].pc \in {"asking", "cleared", "running"} => session'[s].stage # None
    BY <2>1 DEF Lawful, Formed, SessionsFormed
  <2> SUFFICES ASSUME session'[s].stage # None
               PROVE  /\ session'[s].pc = "asking" => Gate \ session'[s].blocking \subseteq past'[s].gates
                      /\ session'[s].pc \in {"cleared", "running"} => Cleared(s)'
    BY <2>2
  <2>3. /\ past'[s].stages = past[s].stages \cup Succeeded'
        /\ past'[s].gates = past[s].gates \cup (Gate \ CurrentlyBlocking')
    BY <1>1, Remembered
  <2>4. CASE /\ session'[s].stage = session[s].stage
             /\ session'[s].pc = "asking" => session[s].pc = "asking" /\ session'[s].blocking = session[s].blocking
             /\ session'[s].pc \in {"cleared", "running"} => session[s].pc \in {"cleared", "running"}
    <3>1. session'[s].pc = "asking" => Gate \ session'[s].blocking \subseteq past[s].gates
      BY <1>1, <2>4 DEF ClearedInv
    <3>2. session'[s].pc \in {"cleared", "running"} => Cleared(s)
      BY <1>1, <2>4 DEF ClearedInv
    <3>3. Cleared(s) => Cleared(s)'
      BY <2>1, <2>3, <2>4 DEF Cleared, Lawful
    <3> QED BY <2>3, <3>1, <3>2, <3>3
  <2>5. CASE session'[s].pc = "asking" /\ session'[s].blocking = Blocking /\ UNCHANGED gates
    <3>1. CurrentlyBlocking' = CurrentlyBlocking
      BY <2>5, SameBlocking
    <3>2. Blocking = {g \in Gate : g \in CurrentlyBlocking}
      BY <1>1, Reported
    <3> QED BY <2>3, <2>5, <3>1, <3>2
  <2>6. CASE /\ session'[s].pc = "cleared" /\ session[s].pc = "asking" /\ session'[s].stage = session[s].stage
             /\ ~EnforcedBlockerFor(session[s].stage, session[s].blocking) /\ UNCHANGED stages
    <3> DEFINE st == session[s].stage
    <3>1. /\ PredecessorsOf(st, graph) \subseteq Succeeded
          /\ RequiredGatesFor(st, graph).declared =>
               ToSet(RequiredGatesFor(st, graph).gates) \subseteq Gate \ session[s].blocking
      BY <2>6, NotRefused
    <3>2. Gate \ session[s].blocking \subseteq past[s].gates
      BY <1>1, <2>6 DEF ClearedInv
    <3>3. Succeeded' = Succeeded
      BY <2>6 DEF Succeeded
    <3>4. Cleared(s)'
      BY <2>1, <2>3, <2>6, <3>1, <3>2, <3>3 DEF Cleared, Lawful
    <3> QED BY <2>6, <3>4
  <2> QED BY <2>1, <2>4, <2>5, <2>6 DEF Lawful, Goes
<1>2. CASE ClearedInv /\ UNCHANGED vars
  BY <1>2 DEF ClearedInv, Cleared, vars
<1> QED BY <1>1, <1>2 DEF Next, ClearedInv

-----------------------------------------------------------------------------
(* Every variable keeps its type.                                           *)
THEOREM TypeCorrect == Spec => []TypeOK
BY FormedInit, FormedStep, FormedTyped, PTL DEF Spec

(* What `status` offers is accepted and can be decided, what it says is     *)
(* held would be refused, and no stage goes unmentioned, whatever the       *)
(* operators do (services: decideActions against runStage's own checks).    *)
THEOREM PlanHonest == Spec => []PlanIsHonest
BY FormedInit, FormedStep, ReportInit, ReportStep, Honest, PTL DEF Spec

LEMMA WasCleared == ClearedInv => StartedWasCleared
BY DEF ClearedInv, Cleared, StartedWasCleared

(* A stage is let through to the runner only if its predecessors had        *)
(* succeeded and its declared gates had stood since its operator asked      *)
(* (services: #policyInput, then enforcedBlockerFor, then the claim).       *)
THEOREM StartedCleared == Spec => []StartedWasCleared
BY FormedInit, FormedStep, ReportInit, ReportStep, ClearedInit, ClearedStep, WasCleared, PTL DEF Spec

-----------------------------------------------------------------------------
(* Rework.  Rounds are not state: they are read off the attempts on record. *)
(* What keeps them where they are is that the evaluation a repair rests on  *)
(* is the first that judged its candidate, and that everything before it is *)
(* over by the time a round is asked for.                                   *)

Evaluated(e) ==
  /\ e = [status |-> e.status, inputs |-> e.inputs, observed |-> e.observed, count |-> e.count]
  /\ e.status \in {"running", "succeeded", "failed"} /\ e.inputs # {}

(* The evaluation a repair's round is opened by stands, and nothing before   *)
(* it can still become one.                                                  *)
Opened(repair) ==
  LET d == TheOnly(repair.inputs)
  IN  JudgedBy(d) # 0 /\ \A k \in 1 .. JudgedBy(d) : evals[k].status # "running"

ReworkFormed ==
  /\ evals \in Seq(Range(evals)) /\ repairs \in Seq(Range(repairs))
  /\ \A k \in 1 .. Len(evals) : Evaluated(evals[k])
  /\ rule \in ReworkPolicies \cup {NoPolicy}

ReworkInv == ReworkFormed /\ (\A n \in 1 .. Len(repairs) : Opened(repairs[n])) /\ Licensed

-----------------------------------------------------------------------------

(* Induction, in the form the provers can use.                              *)
LEMMA Least ==
  ASSUME NEW S \in SUBSET Nat, S # {}
  PROVE  \E n \in S : \A m \in S : n <= m
<1>1. IsWellFoundedOn(OpToRel(<, Nat), Nat)
  BY NatLessThanWellFounded
<1>2. \E x \in S : \A y \in S : <<y, x>> \notin OpToRel(<, Nat)
  BY <1>1, WFMin
<1>3. \A x, y \in Nat : <<y, x>> \in OpToRel(<, Nat) <=> y < x
  BY DEF OpToRel
<1>4. \E x \in S : \A y \in S : ~ (y < x)
  BY <1>2, <1>3, Zenon
<1> QED BY <1>4

LEMMA Induction ==
  ASSUME NEW S, 0 \in S, \A n \in Nat : n \in S => n + 1 \in S
  PROVE  Nat \subseteq S
<1> SUFFICES ASSUME Nat \ S # {} PROVE FALSE
  OBVIOUS
<1>1. PICK n \in Nat \ S : \A m \in Nat \ S : n <= m
  BY Least
<1>2. n # 0 /\ n - 1 \in Nat /\ n - 1 \notin Nat \ S
  BY <1>1
<1> QED BY <1>1, <1>2

(* f is what step makes of start, time after time, up to N times. *)
Iterates(f, N, start, step) ==
  f = [n \in 0 .. N |-> IF n = 0 THEN start ELSE step[n][f[n - 1]]]

LEMMA IterationExists ==
  ASSUME NEW N \in Nat, NEW T, NEW start \in T, NEW step \in [1 .. N -> [T -> T]]
  PROVE  \E f \in [0 .. N -> T] : Iterates(f, N, start, step)
<1> DEFINE S == {m \in Nat : m <= N => \E f \in [0 .. m -> T] : Iterates(f, m, start, step)}
<1>1. 0 \in S
  <2>1. [n \in 0 .. 0 |-> start] \in [0 .. 0 -> T]
    OBVIOUS
  <2>2. Iterates([n \in 0 .. 0 |-> start], 0, start, step)
    BY DEF Iterates
  <2> QED BY <2>1, <2>2
<1>2. ASSUME NEW m \in Nat, m \in S PROVE m + 1 \in S
  <2> SUFFICES ASSUME m + 1 <= N PROVE \E f \in [0 .. m + 1 -> T] : Iterates(f, m + 1, start, step)
    OBVIOUS
  <2>1. PICK f \in [0 .. m -> T] : Iterates(f, m, start, step)
    BY <1>2
  <2>2. f[m] \in T /\ step[m + 1][f[m]] \in T
    BY <2>1
  <2> DEFINE h == [n \in 0 .. m + 1 |-> IF n = m + 1 THEN step[m + 1][f[m]] ELSE f[n]]
  <2>3. h \in [0 .. m + 1 -> T]
    BY <2>2
  <2>4. ASSUME NEW n \in 0 .. m + 1
        PROVE  h[n] = IF n = 0 THEN start ELSE step[n][h[n - 1]]
    <3>1. CASE n = m + 1
      BY <3>1
    <3>2. CASE n # m + 1
      <4>1. n \in 0 .. m /\ h[n] = f[n] /\ (n # 0 => h[n - 1] = f[n - 1])
        BY <3>2
      <4> QED BY <2>1, <4>1 DEF Iterates
    <3> QED BY <3>1, <3>2
  <2>5. Iterates(h, m + 1, start, step)
    BY <2>4 DEF Iterates
  <2> QED BY <2>3, <2>5
<1>3. Nat \subseteq S
  <2> HIDE DEF S
  <2> QED BY <1>1, <1>2, Induction
<1> QED BY <1>3

Iterated(f, N, start, step) ==
  f[0] = start /\ \A n \in 1 .. N : f[n] = step[n][f[n - 1]]

LEMMA IteratesAt ==
  ASSUME NEW N \in Nat, NEW start, NEW step, NEW f, Iterates(f, N, start, step)
  PROVE  Iterated(f, N, start, step)
BY DEF Iterates, Iterated

(* A sequence that grows, where ok says so, by what x has there.             *)
Grown(f, N, ok, x) ==
  f = [n \in 0 .. N |-> IF n = 0 THEN <<>> ELSE IF ok[n] THEN Append(f[n - 1], x[n]) ELSE f[n - 1]]

LEMMA GrownExists ==
  ASSUME NEW N \in Nat, NEW T, NEW ok, NEW x \in [1 .. N -> T]
  PROVE  \E f \in [0 .. N -> Seq(T)] : Grown(f, N, ok, x)
<1> DEFINE step == [n \in 1 .. N |-> [s \in Seq(T) |-> IF ok[n] THEN Append(s, x[n]) ELSE s]]
<1>1. step \in [1 .. N -> [Seq(T) -> Seq(T)]]
  <2> SUFFICES ASSUME NEW n \in 1 .. N, NEW s \in Seq(T) PROVE (IF ok[n] THEN Append(s, x[n]) ELSE s) \in Seq(T)
    OBVIOUS
  <2>1. x[n] \in T
    OBVIOUS
  <2> QED BY <2>1
<1>2. <<>> \in Seq(T)
  OBVIOUS
<1>3. PICK f \in [0 .. N -> Seq(T)] : Iterates(f, N, <<>>, step)
  <2> HIDE DEF step
  <2> QED BY <1>1, <1>2, IterationExists
<1>4. f[0] = <<>> /\ \A n \in 1 .. N : f[n] = step[n][f[n - 1]]
  <2> HIDE DEF step
  <2>1. Iterates(f, N, <<>>, step)
    BY <1>3
  <2>2. Iterated(f, N, <<>>, step)
    BY <2>1, IteratesAt
  <2> QED BY <2>2 DEF Iterated
<1>5. ASSUME NEW n \in 0 .. N
      PROVE  f[n] = IF n = 0 THEN <<>> ELSE IF ok[n] THEN Append(f[n - 1], x[n]) ELSE f[n - 1]
  <2>1. CASE n = 0
    BY <1>4, <2>1
  <2>2. CASE n # 0
    <3>1. n \in 1 .. N /\ n - 1 \in 0 .. N
      BY <2>2
    <3>2. f[n - 1] \in Seq(T)
      BY <3>1
    <3> QED BY <1>4, <2>2, <3>1, <3>2
  <2> QED BY <2>1, <2>2
<1>6. f = [n \in 0 .. N |-> f[n]]
  OBVIOUS
<1>7. Grown(f, N, ok, x)
  BY <1>5, <1>6 DEF Grown
<1> QED BY <1>7

GrownTo(f, N, ok, x) ==
  /\ f[0] = <<>>
  /\ \A n \in 1 .. N : f[n] = IF ok[n] THEN Append(f[n - 1], x[n]) ELSE f[n - 1]

LEMMA GrownAt ==
  ASSUME NEW N \in Nat, NEW ok, NEW x, NEW f, Grown(f, N, ok, x)
  PROVE  GrownTo(f, N, ok, x)
<1>1. ASSUME NEW n \in 0 .. N
      PROVE  f[n] = IF n = 0 THEN <<>> ELSE IF ok[n] THEN Append(f[n - 1], x[n]) ELSE f[n - 1]
  BY Zenon DEF Grown
<1>2. 0 \in 0 .. N /\ \A n \in 1 .. N : n \in 0 .. N /\ n # 0
  OBVIOUS
<1>3. f[0] = <<>>
  BY <1>1, <1>2
<1>4. ASSUME NEW n \in 1 .. N PROVE f[n] = IF ok[n] THEN Append(f[n - 1], x[n]) ELSE f[n - 1]
  BY <1>1, <1>2
<1> QED BY <1>3, <1>4 DEF GrownTo

Alike(N, ok, x, ok2, x2) == \A n \in 1 .. N : (ok[n] <=> ok2[n]) /\ x[n] = x2[n]

(* However long, it begins like any other that is fed the same.              *)
LEMMA GrownAgree ==
  ASSUME NEW N \in Nat, NEW M \in Nat, N <= M, NEW ok, NEW x, NEW ok2, NEW x2,
         NEW f, Grown(f, N, ok, x), NEW g, Grown(g, M, ok2, x2),
         Alike(N, ok, x, ok2, x2)
  PROVE  \A n \in 0 .. N : f[n] = g[n]
<1> DEFINE S == {n \in Nat : n <= N => f[n] = g[n]}
<1>0. GrownTo(f, N, ok, x) /\ GrownTo(g, M, ok2, x2)
  BY GrownAt
<1>1. 0 \in S
  BY <1>0 DEF GrownTo
<1>2. ASSUME NEW n \in Nat, n \in S PROVE n + 1 \in S
  <2> SUFFICES ASSUME n + 1 <= N PROVE f[n + 1] = g[n + 1]
    OBVIOUS
  <2>1. f[n] = g[n] /\ n + 1 \in 1 .. N /\ n + 1 \in 1 .. M /\ (n + 1) - 1 = n
    BY <1>2
  <2>2. f[n + 1] = IF ok[n + 1] THEN Append(f[n], x[n + 1]) ELSE f[n]
    <3>1. \A k \in 1 .. N : f[k] = IF ok[k] THEN Append(f[k - 1], x[k]) ELSE f[k - 1]
      BY <1>0 DEF GrownTo
    <3> QED BY <2>1, <3>1
  <2>3. g[n + 1] = IF ok2[n + 1] THEN Append(g[n], x2[n + 1]) ELSE g[n]
    <3>1. \A k \in 1 .. M : g[k] = IF ok2[k] THEN Append(g[k - 1], x2[k]) ELSE g[k - 1]
      BY <1>0 DEF GrownTo
    <3> QED BY <2>1, <3>1
  <2>4. (ok[n + 1] <=> ok2[n + 1]) /\ x[n + 1] = x2[n + 1]
    BY <2>1 DEF Alike
  <2> QED BY <2>1, <2>2, <2>3, <2>4
<1>3. Nat \subseteq S
  <2> HIDE DEF S
  <2> QED BY <1>1, <1>2, Induction
<1> QED BY <1>3

-----------------------------------------------------------------------------
(* Which repairs are rounds, and what each would be.                         *)
Counts == [n \in 1 .. Len(repairs) |-> rule # NoPolicy /\ Refusal(repairs[n]) = "none"]
Each == [n \in 1 .. Len(repairs) |-> RoundOf(repairs[n])]

Grows ==
  \E T : \E f \in [0 .. Len(repairs) -> Seq(T)] :
    Grown(f, Len(repairs), Counts, Each) /\ Rounds = f[Len(repairs)]

LEMMA RoundsGrow ==
  repairs \in Seq(Range(repairs)) => Grows
<1> SUFFICES ASSUME repairs \in Seq(Range(repairs)) PROVE Grows
  OBVIOUS
<1> DEFINE N == Len(repairs)
           T == {RoundOf(repairs[n]) : n \in 1 .. N}
           IsReading(f) == f = [n \in 0 .. N |->
                              IF n = 0 THEN <<>>
                              ELSE IF rule # NoPolicy /\ Refusal(repairs[n]) = "none"
                              THEN Append(f[n - 1], RoundOf(repairs[n])) ELSE f[n - 1]]
<1>1. N \in Nat
  OBVIOUS
<1>2. ASSUME NEW f PROVE IsReading(f) <=> Grown(f, N, Counts, Each)
  <2>1. ASSUME NEW n \in 0 .. N
        PROVE (IF n = 0 THEN <<>>
               ELSE IF rule # NoPolicy /\ Refusal(repairs[n]) = "none"
               THEN Append(f[n - 1], RoundOf(repairs[n])) ELSE f[n - 1])
              = IF n = 0 THEN <<>> ELSE IF Counts[n] THEN Append(f[n - 1], Each[n]) ELSE f[n - 1]
    <3>1. CASE n = 0
      BY <3>1
    <3>2. CASE n # 0
      <4>1. n \in 1 .. N
        BY <3>2
      <4>2. (Counts[n] <=> rule # NoPolicy /\ Refusal(repairs[n]) = "none") /\ Each[n] = RoundOf(repairs[n])
        BY <4>1, Zenon DEF Counts, Each
      <4> QED BY <4>2
    <3> QED BY <3>1, <3>2
  <2>2. [n \in 0 .. N |->
           IF n = 0 THEN <<>>
           ELSE IF rule # NoPolicy /\ Refusal(repairs[n]) = "none"
           THEN Append(f[n - 1], RoundOf(repairs[n])) ELSE f[n - 1]]
        = [n \in 0 .. N |-> IF n = 0 THEN <<>> ELSE IF Counts[n] THEN Append(f[n - 1], Each[n]) ELSE f[n - 1]]
    BY <2>1
  <2> QED BY <2>2 DEF Grown
<1>3. Each \in [1 .. N -> T]
  BY DEF Each
<1>4. \E f \in [0 .. N -> Seq(T)] : Grown(f, N, Counts, Each)
  <2> HIDE DEF N, T
  <2> QED BY <1>1, <1>3, GrownExists
<1> DEFINE g == CHOOSE f : IsReading(f)
<1>5. IsReading(g)
  <2> HIDE DEF IsReading
  <2> QED BY <1>2, <1>4
<1>6. Rounds = g[N]
  BY DEF Rounds
<1>7. Grown(g, N, Counts, Each)
  BY <1>2, <1>5
<1>8. PICK f \in [0 .. N -> Seq(T)] : Grown(f, N, Counts, Each)
  BY <1>4
<1>9. \A n \in 0 .. N : f[n] = g[n]
  <2>1. N <= N /\ Alike(N, Counts, Each, Counts, Each)
    BY <1>1 DEF Alike
  <2>2. Grown(f, N, Counts, Each)
    BY <1>8
  <2> HIDE DEF N, T, g
  <2>3. ASSUME NEW n \in 0 .. N PROVE f[n] = g[n]
    BY <1>1, <1>7, <2>2, <2>1, GrownAgree
  <2> QED BY <2>3
<1>10. Rounds = f[N]
  <2> HIDE DEF N, T, g
  <2>1. N \in 0 .. N
    BY <1>1
  <2> QED BY <1>6, <1>9, <2>1
<1> HIDE DEF T
<1> QED BY <1>8, <1>10 DEF Grows

LEMMA RoundsGrowNext ==
  (repairs \in Seq(Range(repairs)))' => Grows'
BY RoundsGrow, PTL

LEMMA MinIs ==
  ASSUME NEW S \in SUBSET Nat, S # {}
  PROVE  Min(S) \in S /\ \A n \in S : Min(S) <= n
<1>1. \E x \in S : \A y \in S : x =< y
  BY Least
<1> QED BY <1>1 DEF Min

LEMMA MaxIs ==
  ASSUME NEW n \in Nat, NEW S \in SUBSET (1 .. n), S # {}
  PROVE  Max(S) \in S
<1> DEFINE D == {n - s : s \in S}
<1>1. D \in SUBSET Nat /\ D # {}
  <2>1. \A s \in S : n - s \in Nat
    <3> SUFFICES ASSUME NEW s \in S PROVE n - s \in Nat
      OBVIOUS
    <3>1. s \in 1 .. n
      OBVIOUS
    <3> QED BY <3>1
  <2> QED BY <2>1
<1>2. PICK d \in D : \A e \in D : d <= e
  <2> HIDE DEF D
  <2> QED BY <1>1, Least
<1>3. PICK s \in S : d = n - s
  BY <1>2
<1>4. \A y \in S : s >= y
  <2> SUFFICES ASSUME NEW y \in S PROVE s >= y
    OBVIOUS
  <2>1. n - s <= n - y
    BY <1>2, <1>3
  <2> QED BY <2>1
<1> QED BY <1>3, <1>4 DEF Max

-----------------------------------------------------------------------------
Judging(d) == {i \in 1 .. Len(evals) : evals[i].status = "succeeded" /\ d \in evals[i].inputs}

LEMMA JudgedIs ==
  ASSUME evals \in Seq(Range(evals)), NEW d
  PROVE  /\ JudgedBy(d) \in Nat
         /\ JudgedBy(d) = 0 <=> Judging(d) = {}
         /\ JudgedBy(d) # 0 => JudgedBy(d) \in Judging(d) /\ \A i \in Judging(d) : JudgedBy(d) <= i
<1> DEFINE I == Judging(d)
<1>1. JudgedBy(d) = IF I # {} THEN Min(I) ELSE 0
  BY DEF JudgedBy, SelectInSeq, Judging
<1>2. I \in SUBSET Nat /\ \A i \in I : i # 0
  BY DEF Judging
<1>3. I # {} => Min(I) \in I /\ \A i \in I : Min(I) <= i
  BY <1>2, MinIs
<1> QED BY <1>1, <1>2, <1>3

LEMMA LatestIs ==
  ASSUME evals \in Seq(Range(evals)), LatestJudged # 0
  PROVE  /\ LatestJudged \in 1 .. Len(evals) /\ evals[LatestJudged].status = "succeeded"
<1> DEFINE I == {i \in 1 .. Len(evals) : evals[i].status = "succeeded" /\ Only(evals[i].inputs)}
<1>1. LatestJudged = IF I # {} THEN Max(I) ELSE 0
  BY DEF LatestJudged, SelectLastInSeq
<1>2. Len(evals) \in Nat /\ I \in SUBSET (1 .. Len(evals))
  OBVIOUS
<1>3. I # {} => Max(I) \in I
  <2> HIDE DEF I
  <2> QED BY <1>2, MaxIs
<1> QED BY <1>1, <1>3

LEMMA NoneRunning ==
  ASSUME evals \in Seq(Range(evals)), RunningEvaluation = 0
  PROVE  \A i \in 1 .. Len(evals) : evals[i].status # "running"
<1> DEFINE I == {i \in 1 .. Len(evals) : evals[i].status = "running"}
<1>1. RunningEvaluation = IF I # {} THEN Max(I) ELSE 0
  BY DEF RunningEvaluation, SelectLastInSeq
<1>2. Len(evals) \in Nat /\ I \in SUBSET (1 .. Len(evals))
  OBVIOUS
<1>3. I # {} => Max(I) \in I
  <2> HIDE DEF I
  <2> QED BY <1>2, MaxIs
<1> QED BY <1>1, <1>2, <1>3

(* When a round is asked for, no evaluation is running and the one that is   *)
(* judged last is of the artifact named; the bound was looked at, or somebody *)
(* approved continuing from that artifact.                                    *)
LEMMA RoundAsked ==
  ASSUME evals \in Seq(Range(evals)), Decision.kind = "rework"
  PROVE  /\ RunningEvaluation = 0 /\ LatestJudged # 0
         /\ Decision.digest = TheOnly(evals[LatestJudged].inputs)
         /\ rule # NoPolicy
         /\ \/ Decision.digest \in approved
            \/ ~Spent(Rounds) /\ \A n \in DOMAIN Rounds : Rounds[n].input # Decision.digest
<1> DEFINE verdict == Verdict
           rounds == Rounds
           d == DecideRework(verdict, rounds, approved)
<1>1. Decision = d
  BY DEF Decision
<1>2. /\ verdict.kind # "none" /\ verdict.kind # "attempt_running" /\ verdict.kind # "not_evaluated"
      /\ rule # NoPolicy
      /\ d.digest = verdict.digest
      /\ verdict.digest \in approved \/ Stop(verdict, rounds) = "none"
  <2> HIDE DEF verdict, rounds
  <2>1. d.kind = "rework"
    BY <1>1
  <2>2. verdict.kind # "none" /\ verdict.kind # "attempt_running" /\ verdict.kind # "not_evaluated"
    BY <2>1 DEF DecideRework, Escalate
  <2>3. d = IF Clean(verdict) THEN [kind |-> "converged", digest |-> verdict.digest]
         ELSE IF rule = NoPolicy THEN Escalate("no_policy", verdict.digest)
         ELSE IF ~ verdict.blocking \subseteq rule.covers THEN Escalate("unknown_finding_class", verdict.digest)
         ELSE IF verdict.digest \notin approved /\ Stop(verdict, rounds) # "none"
              THEN Escalate(Stop(verdict, rounds), verdict.digest)
         ELSE [kind |-> "rework", digest |-> verdict.digest, consume |-> verdict.observed \cap rule.covers]
    BY <2>2, Zenon DEF DecideRework
  <2> QED BY <2>1, <2>2, <2>3 DEF Escalate
<1>3. RunningEvaluation = 0 /\ LatestJudged # 0 /\ verdict.digest = TheOnly(evals[LatestJudged].inputs)
  <2>1. RunningEvaluation = 0
    BY <1>2 DEF Verdict, NothingJudged
  <2>2. LatestJudged # 0
    BY <1>2, <2>1 DEF Verdict, NothingJudged
  <2> QED BY <1>2, <2>1, <2>2 DEF Verdict
<1>4. Stop(verdict, rounds) = "none" => ~Spent(rounds) /\ ~Returns(verdict, rounds)
  BY DEF Stop
<1>5. ~Returns(verdict, rounds) => \A n \in DOMAIN rounds : rounds[n].input # verdict.digest
  BY DEF Returns, Range
<1> QED BY <1>1, <1>2, <1>3, <1>4, <1>5

JudgedSound(d) ==
  /\ JudgedBy(d) \in Nat
  /\ JudgedBy(d) = 0 <=> Judging(d) = {}
  /\ JudgedBy(d) # 0 => JudgedBy(d) \in Judging(d) /\ \A i \in Judging(d) : JudgedBy(d) <= i

LEMMA JudgedSoundly ==
  evals \in Seq(Range(evals)) => \A d : JudgedSound(d)
BY JudgedIs DEF JudgedSound

LEMMA JudgedSoundlyNext ==
  (evals \in Seq(Range(evals)))' => (\A d : JudgedSound(d))'
BY JudgedSoundly, PTL

(* An attempt on record moves only while it is running, and none goes away.  *)
EvalsMove ==
  /\ Len(evals) <= Len(evals')
  /\ \A k \in 1 .. Len(evals) : evals[k].status # "running" => evals'[k] = evals[k]

LEMMA RoundStands ==
  ASSUME evals \in Seq(Range(evals)), (evals \in Seq(Range(evals)))', EvalsMove, rule' = rule,
         NEW repair, Opened(repair)
  PROVE  Opened(repair)' /\ Refusal(repair)' = Refusal(repair) /\ RoundOf(repair)' = RoundOf(repair)
<1> DEFINE d == TheOnly(repair.inputs)
           j == JudgedBy(d)
<1>1. d' = d
  BY DEF TheOnly
<1>2. JudgedSound(d) /\ JudgedSound(d)'
  <2>1. \A x : JudgedSound(x)
    BY JudgedSoundly
  <2>2. (\A x : JudgedSound(x))'
    BY JudgedSoundlyNext
  <2> QED BY <2>1, <2>2
<1>3. j # 0 /\ j \in Judging(d) /\ (\A i \in Judging(d) : j <= i) /\ \A k \in 1 .. j : evals[k].status # "running"
  BY <1>2 DEF Opened, JudgedSound
<1>4. Len(evals) \in Nat /\ Len(evals') \in Nat /\ j \in 1 .. Len(evals) /\ Len(evals) <= Len(evals')
  BY <1>3 DEF Judging, EvalsMove
<1>5. \A k \in 1 .. j : evals'[k] = evals[k]
  BY <1>3, <1>4 DEF EvalsMove
<1>6. \A k \in 1 .. j : (k \in Judging(d) <=> k \in Judging(d)')
  BY <1>1, <1>4, <1>5 DEF Judging
<1>7. JudgedBy(d)' = j
  <2>1. j \in Judging(d)'
    BY <1>3, <1>4, <1>6
  <2>2. JudgedBy(d)' # 0 /\ JudgedBy(d)' \in Nat /\ JudgedBy(d)' \in Judging(d)' /\ JudgedBy(d)' <= j
    BY <1>2, <2>1 DEF JudgedSound
  <2>3. JudgedBy(d)' \in Judging(d)
    BY <1>4, <1>6, <2>2
  <2>4. j <= JudgedBy(d)'
    BY <1>3, <2>3
  <2> QED BY <1>4, <2>2, <2>4
<1>8. evals'[j] = evals[j]
  BY <1>4, <1>5
<1>9. Opened(repair)'
  BY <1>3, <1>5, <1>7 DEF Opened
<1>10. Refusal(repair)' = Refusal(repair)
  BY <1>7, <1>8, Zenon DEF Refusal
<1>11. RoundOf(repair)' = RoundOf(repair)
  BY <1>7, <1>8 DEF RoundOf
<1> QED BY <1>9, <1>10, <1>11

Extends == Len(repairs) <= Len(repairs') /\ \A n \in 1 .. Len(repairs) : repairs'[n] = repairs[n]

LEMMA ReadAlike ==
  ASSUME evals \in Seq(Range(evals)), (evals \in Seq(Range(evals)))', EvalsMove, rule' = rule,
         repairs \in Seq(Range(repairs)), (repairs \in Seq(Range(repairs)))', Extends,
         \A n \in 1 .. Len(repairs) : Opened(repairs[n])
  PROVE  Alike(Len(repairs), Counts, Each, Counts', Each')
<1> SUFFICES ASSUME NEW n \in 1 .. Len(repairs)
             PROVE (Counts[n] <=> Counts'[n]) /\ Each[n] = Each'[n]
  BY DEF Alike
<1>0. Len(repairs) \in Nat /\ Len(repairs') \in Nat /\ n \in 1 .. Len(repairs') /\ repairs'[n] = repairs[n]
  BY DEF Extends
<1>1. PICK r : r = repairs[n]
  OBVIOUS
<1>2. Opened(r)
  BY <1>1
<1>3. Refusal(r)' = Refusal(r) /\ RoundOf(r)' = RoundOf(r)
  BY <1>2, RoundStands
<1>4. Counts[n] = (rule # NoPolicy /\ Refusal(r) = "none") /\ Each[n] = RoundOf(r)
  BY <1>1 DEF Counts, Each
<1>5. Counts'[n] = (rule' # NoPolicy /\ Refusal(r)' = "none") /\ Each'[n] = RoundOf(r)'
  <2>1. r = repairs'[n]
    BY <1>0, <1>1
  <2>2. \A x : x = r => Refusal(x)' = Refusal(r)' /\ RoundOf(x)' = RoundOf(r)'
    OBVIOUS
  <2> QED BY <1>0, <2>1, <2>2 DEF Counts, Each
<1> QED BY <1>3, <1>4, <1>5

LEMMA RoundsMove ==
  ASSUME evals \in Seq(Range(evals)), (evals \in Seq(Range(evals)))', EvalsMove, rule' = rule,
         repairs \in Seq(Range(repairs)), (repairs \in Seq(Range(repairs)))', Extends,
         \A n \in 1 .. Len(repairs) : Opened(repairs[n])
  PROVE  /\ \E T : Rounds \in Seq(T)
         /\ repairs' = repairs => Rounds' = Rounds
         /\ Len(repairs') = Len(repairs) + 1 =>
              Rounds' = Rounds \/ Rounds' = Append(Rounds, RoundOf(repairs[Len(repairs)])')
<1> DEFINE N == Len(repairs)
           M == Len(repairs')
<1>0. N \in Nat /\ M \in Nat /\ N <= M
  BY DEF Extends
<1>1. Alike(N, Counts, Each, Counts', Each')
  BY ReadAlike
<1>2. PICK T : \E f \in [0 .. N -> Seq(T)] : Grown(f, N, Counts, Each) /\ Rounds = f[N]
  BY RoundsGrow DEF Grows
<1>3. PICK f \in [0 .. N -> Seq(T)] : Grown(f, N, Counts, Each) /\ Rounds = f[N]
  BY <1>2
<1>4. \E U : \E g \in [0 .. M -> Seq(U)] : Grown(g, M, Counts', Each') /\ Rounds' = g[M]
  BY RoundsGrowNext DEF Grows, Grown
<1>5. PICK g : Grown(g, M, Counts', Each') /\ Rounds' = g[M]
  BY <1>4
<1>6. g[N] = Rounds
  <2>1. Grown(f, N, Counts, Each) /\ Grown(g, M, Counts', Each')
    BY <1>3, <1>5
  <2>2. \A n \in 0 .. N : f[n] = g[n]
    <3> HIDE DEF N, M
    <3> QED BY <1>0, <1>1, <2>1, GrownAgree
  <2> QED BY <1>0, <1>3, <2>2
<1>7. Rounds \in Seq(T)
  BY <1>0, <1>3
<1>8. repairs' = repairs => Rounds' = Rounds
  BY <1>5, <1>6
<1>9. ASSUME M = N + 1
      PROVE  Rounds' = Rounds \/ Rounds' = Append(Rounds, RoundOf(repairs[Len(repairs)])')
  <2>1. \A n \in 1 .. M : g[n] = IF Counts'[n] THEN Append(g[n - 1], Each'[n]) ELSE g[n - 1]
    <3>1. PICK m : m = M
      OBVIOUS
    <3>2. PICK ok : ok = Counts'
      OBVIOUS
    <3>3. PICK x : x = Each'
      OBVIOUS
    <3>4. m \in Nat /\ Grown(g, m, ok, x)
      BY <1>0, <1>5, <3>1, <3>2, <3>3
    <3>5. \A n \in 1 .. m : g[n] = IF ok[n] THEN Append(g[n - 1], x[n]) ELSE g[n - 1]
      BY <3>4, GrownAt DEF GrownTo
    <3> QED BY <3>1, <3>2, <3>3, <3>5
  <2>2. M \in 1 .. M /\ M - 1 = N
    BY <1>0, <1>9
  <2>3. Rounds' = IF Counts'[M] THEN Append(Rounds, Each'[M]) ELSE Rounds
    BY <1>5, <1>6, <2>1, <2>2
  <2>4. Each'[M] = RoundOf(repairs[Len(repairs)])'
    <3> HIDE DEF RoundOf
    <3> QED BY <2>2 DEF Each
  <2> QED BY <2>3, <2>4
<1> QED BY <1>7, <1>8, <1>9

ReworkMoves ==
  /\ EvalsMove /\ rule' = rule /\ approved \subseteq approved'

LEMMA Begins ==
  ASSUME NEW T, NEW s \in Seq(T), NEW e
  PROVE  /\ Len(s) <= Len(Append(s, e)) /\ SubSeq(Append(s, e), 1, Len(s)) = s
         /\ Len(s) <= Len(s) /\ SubSeq(s, 1, Len(s)) = s
<1>1. Len(s) \in Nat /\ s = [n \in 1 .. Len(s) |-> s[n]]
  OBVIOUS
<1>2. s \in Seq(T \cup {e}) /\ e \in T \cup {e}
  OBVIOUS
<1>3. Append(s, e) \in Seq(T \cup {e}) /\ Len(Append(s, e)) = Len(s) + 1
      /\ \A n \in 1 .. Len(s) : Append(s, e)[n] = s[n]
  BY <1>2
<1> QED BY <1>1, <1>2, <1>3

LEMMA Kept ==
  ASSUME ReworkInv, ReworkFormed', ReworkMoves, repairs' = repairs
  PROVE  ReworkInv' /\ RoundsEndure
<1>1. /\ evals \in Seq(Range(evals)) /\ (evals \in Seq(Range(evals)))' /\ EvalsMove /\ rule' = rule
      /\ repairs \in Seq(Range(repairs)) /\ (repairs \in Seq(Range(repairs)))'
      /\ \A n \in 1 .. Len(repairs) : Opened(repairs[n])
  BY DEF ReworkInv, ReworkFormed, ReworkMoves
<1>2. Extends
  <2>1. Len(repairs) \in Nat
    BY <1>1
  <2> QED BY <2>1 DEF Extends
<1>3. (\E T : Rounds \in Seq(T)) /\ Rounds' = Rounds
  BY <1>1, <1>2, RoundsMove
<1>4. ASSUME NEW n \in 1 .. Len(repairs) PROVE Opened(repairs[n])'
  <2>1. PICK r : r = repairs[n]
    OBVIOUS
  <2>2. Opened(r)'
    BY <1>1, <2>1, RoundStands
  <2> QED BY <2>1, <2>2 DEF Opened
<1>5. Licensed'
  BY <1>1, <1>3 DEF Licensed, ReworkInv, ReworkMoves
<1>6. RoundsEndure
  BY <1>3, Begins DEF RoundsEndure
<1> QED BY <1>4, <1>5, <1>6 DEF ReworkInv

LEMMA Repaired ==
  ASSUME ReworkInv, NEW status, NEW outputs, Repair(status, outputs)
  PROVE  ReworkInv' /\ RoundsEndure
<1> DEFINE d == Decision.digest
           N == Len(repairs)
<1>1. /\ Decision.kind = "rework"
      /\ repairs' = Append(repairs, [status |-> status, inputs |-> {d}, outputs |-> outputs])
      /\ channels' = channels /\ rule' = rule /\ evals' = evals /\ approved' = approved
  BY DEF Repair
<1>2. PICK r : r = [status |-> status, inputs |-> {d}, outputs |-> outputs]
  OBVIOUS
<1>3. TheOnly(r.inputs) = d
  BY <1>2 DEF TheOnly
<1>4. evals \in Seq(Range(evals)) /\ (evals \in Seq(Range(evals)))' /\ repairs \in Seq(Range(repairs)) /\ N \in Nat
  <2>1. evals \in Seq(Range(evals)) /\ repairs \in Seq(Range(repairs))
    BY DEF ReworkInv, ReworkFormed
  <2> QED BY <1>1, <2>1
<1>5. /\ RunningEvaluation = 0 /\ LatestJudged # 0 /\ d = TheOnly(evals[LatestJudged].inputs) /\ rule # NoPolicy
      /\ d \in approved \/ (~Spent(Rounds) /\ \A n \in DOMAIN Rounds : Rounds[n].input # d)
  BY <1>1, <1>4, RoundAsked
<1>6. LatestJudged \in Judging(d)
  <2>1. LatestJudged \in 1 .. Len(evals) /\ evals[LatestJudged].status = "succeeded"
    BY <1>4, <1>5, LatestIs
  <2>2. evals[LatestJudged].inputs # {}
    BY <2>1 DEF ReworkInv, ReworkFormed, Evaluated
  <2> QED BY <1>5, <2>1, <2>2 DEF TheOnly, Judging
<1>7. Opened(r)
  <2>1. JudgedBy(d) # 0 /\ JudgedBy(d) \in Judging(d) /\ JudgedBy(d) \in Nat
    BY <1>4, <1>6, JudgedIs
  <2>2. \A k \in 1 .. Len(evals) : evals[k].status # "running"
    BY <1>4, <1>5, NoneRunning
  <2>3. Len(evals) \in Nat /\ JudgedBy(d) \in 1 .. Len(evals)
    BY <1>4, <2>1 DEF Judging
  <2> QED BY <1>3, <2>1, <2>2, <2>3 DEF Opened
<1>8. EvalsMove
  <2>1. Len(evals) \in Nat
    BY <1>4
  <2> QED BY <1>1, <2>1 DEF EvalsMove
<1>9. (repairs \in Seq(Range(repairs)))' /\ Len(repairs') = N + 1 /\ repairs'[N + 1] = r
      /\ \A n \in 1 .. N : repairs'[n] = repairs[n]
  <2>1. repairs \in Seq(Range(repairs) \cup {r}) /\ repairs' = Append(repairs, r)
    BY <1>1, <1>2, <1>4
  <2>2. Len(repairs') = N + 1 /\ repairs'[N + 1] = r /\ \A n \in 1 .. N : repairs'[n] = repairs[n]
    BY <1>4, <2>1
  <2>3. repairs' \in Seq(Range(repairs) \cup {r})
    BY <2>1
  <2>4. \A n \in 1 .. Len(repairs') : repairs'[n] \in Range(repairs')
    BY <2>3 DEF Range
  <2> QED BY <1>4, <2>2, <2>3, <2>4
<1>10. Extends
  BY <1>4, <1>9 DEF Extends
<1>11. \A n \in 1 .. N : Opened(repairs[n])
  BY DEF ReworkInv
<1>12. /\ \E T : Rounds \in Seq(T)
       /\ Rounds' = Rounds \/ Rounds' = Append(Rounds, RoundOf(r)')
  <2>1. /\ \E T : Rounds \in Seq(T)
        /\ Rounds' = Rounds \/ Rounds' = Append(Rounds, RoundOf(repairs[Len(repairs)])')
    BY <1>1, <1>4, <1>8, <1>9, <1>10, <1>11, RoundsMove
  <2>2. RoundOf(repairs[Len(repairs)])' = RoundOf(r)'
    BY <1>9 DEF RoundOf
  <2> QED BY <2>1, <2>2
<1>13. RoundOf(r)'.input = d
  BY <1>3 DEF RoundOf, TheOnly
<1>14. ASSUME NEW n \in 1 .. Len(repairs') PROVE Opened(repairs[n])'
  <2>1. PICK x : x = repairs'[n]
    OBVIOUS
  <2>2. Opened(x)
    <3>1. CASE n \in 1 .. N
      BY <1>9, <1>11, <2>1, <3>1
    <3>2. CASE n = N + 1
      BY <1>7, <1>9, <2>1, <3>2
    <3> QED BY <1>4, <1>9, <3>1, <3>2
  <2>3. Opened(x)'
    BY <1>1, <1>4, <1>8, <2>2, RoundStands
  <2> QED BY <2>1, <2>3 DEF Opened
<1>15. Licensed'
  <2>1. PICK T : Rounds \in Seq(T)
    BY <1>12
  <2>2. CASE Rounds' = Rounds
    BY <1>1, <2>2 DEF Licensed, ReworkInv
  <2>3. CASE Rounds' = Append(Rounds, RoundOf(r)')
    <3> DEFINE L == Len(Rounds)
    <3>1. L \in Nat /\ DOMAIN Rounds = 1 .. L /\ DOMAIN Rounds' = 1 .. L + 1
          /\ Rounds'[L + 1] = RoundOf(r)' /\ \A n \in 1 .. L : Rounds'[n] = Rounds[n]
      <4>1. PICK e : e = RoundOf(r)'
        OBVIOUS
      <4>2. Rounds \in Seq(T \cup {e}) /\ Rounds' = Append(Rounds, e)
        BY <2>1, <2>3, <4>1
      <4> QED BY <4>1, <4>2
    <3>2. rule.maxRounds \in Nat
      BY <1>5, ReworkAssumption DEF ReworkInv, ReworkFormed
    <3>3. d \in approved \/ (L + 1 <= rule.maxRounds /\ \A j \in 1 .. L : Rounds[j].input # d)
      BY <1>5, <3>1, <3>2 DEF Spent
    <3>4. ASSUME NEW i \in 1 .. L + 1
          PROVE  \/ Rounds'[i].input \in approved
                 \/ i <= rule.maxRounds /\ \A j \in 1 .. i - 1 : Rounds'[j].input # Rounds'[i].input
      <4>1. CASE i = L + 1
        BY <1>13, <3>1, <3>3, <4>1
      <4>2. CASE i \in 1 .. L
        BY <3>1, <4>2 DEF Licensed, ReworkInv
      <4> QED BY <3>1, <4>1, <4>2
    <3> QED BY <1>1, <3>1, <3>4 DEF Licensed
  <2> QED BY <1>12, <2>2, <2>3
<1>16. RoundsEndure
  BY <1>12, Begins DEF RoundsEndure
<1>17. ReworkFormed'
  BY <1>1, <1>4, <1>9 DEF ReworkInv, ReworkFormed, Evaluated
<1> QED BY <1>14, <1>15, <1>16, <1>17 DEF ReworkInv

LEMMA Starts ==
  ReworkInit => ReworkInv
<1> SUFFICES ASSUME ReworkInit PROVE ReworkInv
  OBVIOUS
<1>1. evals = <<>> /\ repairs = <<>> /\ rule \in ReworkPolicies \cup {NoPolicy}
  BY DEF ReworkInit
<1>2. ReworkFormed
  BY <1>1 DEF ReworkFormed
<1>3. Rounds = <<>>
  <2>1. Len(repairs) = 0
    BY <1>1
  <2>2. PICK T : \E f \in [0 .. 0 -> Seq(T)] : Grown(f, 0, Counts, Each) /\ Rounds = f[0]
    BY <1>2, <2>1, RoundsGrow DEF Grows, ReworkFormed
  <2> QED BY <2>2 DEF Grown
<1> QED BY <1>1, <1>2, <1>3 DEF ReworkInv, Licensed

LEMMA Settles ==
  ASSUME NEW e, Evaluated(e), NEW said
  PROVE  Evaluated(SettledAs(e, said)) /\ Evaluated([e EXCEPT !.status = "failed"])
<1> DEFINE x == [e EXCEPT !.status = "succeeded"]
           y == [e EXCEPT !.status = "failed"]
           z == [e EXCEPT !.status = IF BlockingClasses(said) = {} THEN "succeeded" ELSE "failed",
                          !.observed = {o.class : o \in Range(said)}, !.count = CountOf(said)]
<1>1. Evaluated(x) /\ Evaluated(y)
  BY DEF Evaluated
<1>2. Evaluated(z)
  <2>1. PICK s, t, c : s = (IF BlockingClasses(said) = {} THEN "succeeded" ELSE "failed")
                       /\ t = {o.class : o \in Range(said)} /\ c = CountOf(said)
    OBVIOUS
  <2>2. z = [e EXCEPT !.status = s, !.observed = t, !.count = c] /\ s \in {"succeeded", "failed"}
    BY <2>1
  <2>3. e = [status |-> e.status, inputs |-> e.inputs, observed |-> e.observed, count |-> e.count]
        /\ e.inputs # {}
    BY DEF Evaluated
  <2>4. z = [status |-> s, inputs |-> e.inputs, observed |-> t, count |-> c]
    <3> HIDE DEF z
    <3> QED BY <2>2, <2>3
  <2> HIDE DEF z
  <2> QED BY <2>2, <2>3, <2>4 DEF Evaluated
<1>3. SettledAs(e, said) \in {x, y, z}
  BY Zenon DEF SettledAs
<1> QED BY <1>1, <1>2, <1>3

LEMMA Started ==
  ASSUME ReworkInv, NEW inputs, inputs # {}, StartEvaluation(inputs)
  PROVE  ReworkInv' /\ RoundsEndure
<1> DEFINE e == [status |-> "running", inputs |-> inputs, observed |-> Unrecorded, count |-> Unrecorded]
           N == Len(evals)
<1>1. evals' = Append(evals, e) /\ rule' = rule /\ repairs' = repairs /\ approved' = approved
  BY DEF StartEvaluation
<1>2. evals \in Seq(Range(evals) \cup {e}) /\ N \in Nat
  BY DEF ReworkInv, ReworkFormed
<1>3. /\ evals' \in Seq(Range(evals) \cup {e}) /\ Len(evals') = N + 1
      /\ evals'[N + 1] = e /\ \A k \in 1 .. N : evals'[k] = evals[k]
  <2> HIDE DEF e
  <2> QED BY <1>1, <1>2
<1>4. evals' \in Seq(Range(evals'))
  <2>1. \A k \in 1 .. Len(evals') : evals'[k] \in Range(evals')
    BY <1>3 DEF Range
  <2> QED BY <1>2, <1>3, <2>1
<1>5. \A k \in 1 .. N + 1 : Evaluated(evals'[k])
  <2>1. Evaluated(e)
    BY DEF Evaluated
  <2> HIDE DEF e
  <2> QED BY <1>2, <1>3, <2>1 DEF ReworkInv, ReworkFormed
<1>6. EvalsMove
  BY <1>2, <1>3 DEF EvalsMove
<1>7. ReworkFormed'
  BY <1>1, <1>3, <1>4, <1>5 DEF ReworkInv, ReworkFormed, Evaluated
<1> QED BY <1>1, <1>6, <1>7, Kept DEF ReworkMoves

LEMMA Settling ==
  ASSUME ReworkInv, NEW i \in DOMAIN evals, evals[i].status = "running",
         NEW e, Evaluated(e), evals' = [evals EXCEPT ![i] = e],
         rule' = rule, repairs' = repairs, approved' = approved
  PROVE  ReworkInv' /\ RoundsEndure
<1> DEFINE N == Len(evals)
<1>1. evals \in Seq(Range(evals) \cup {e}) /\ N \in Nat /\ i \in 1 .. N
  BY DEF ReworkInv, ReworkFormed
<1>2. /\ evals' \in Seq(Range(evals) \cup {e}) /\ Len(evals') = N
      /\ evals'[i] = e /\ \A k \in 1 .. N : k # i => evals'[k] = evals[k]
  BY <1>1
<1>3. evals' \in Seq(Range(evals'))
  <2>1. \A k \in 1 .. Len(evals') : evals'[k] \in Range(evals')
    BY <1>2 DEF Range
  <2>2. PICK s, U : s = evals' /\ U = Range(evals')
    OBVIOUS
  <2>3. s \in Seq(Range(evals) \cup {e}) /\ \A k \in 1 .. Len(s) : s[k] \in U
    BY <1>2, <2>1, <2>2
  <2>4. s \in Seq(U)
    BY <2>3
  <2> QED BY <2>2, <2>4
<1>4. \A k \in 1 .. N : Evaluated(evals'[k])
  BY <1>1, <1>2 DEF ReworkInv, ReworkFormed
<1>5. EvalsMove
  BY <1>1, <1>2 DEF EvalsMove
<1>6. ReworkFormed'
  BY <1>2, <1>3, <1>4 DEF ReworkInv, ReworkFormed, Evaluated
<1> QED BY <1>5, <1>6, Kept DEF ReworkMoves

LEMMA ReworkSteps ==
  ASSUME ReworkInv, [ReworkNext]_reworkVars
  PROVE  ReworkInv' /\ RoundsEndure
<1>1. CASE UNCHANGED reworkVars
  <2>1. evals' = evals /\ repairs' = repairs /\ rule' = rule /\ approved' = approved /\ channels' = channels
    BY <1>1 DEF reworkVars
  <2>2. ReworkFormed'
    BY <2>1 DEF ReworkInv, ReworkFormed, Evaluated
  <2>3. Len(evals) \in Nat
    BY DEF ReworkInv, ReworkFormed
  <2>4. ReworkMoves
    BY <2>1, <2>3 DEF ReworkMoves, EvalsMove
  <2> QED BY <2>1, <2>2, <2>4, Kept
<1>2. ASSUME NEW inputs \in (SUBSET Known) \ {{}}, StartEvaluation(inputs) PROVE ReworkInv' /\ RoundsEndure
  BY <1>2, Started
<1>3. ASSUME NEW i \in DOMAIN evals, FailEvaluation(i) PROVE ReworkInv' /\ RoundsEndure
  <2>1. Evaluated(evals[i])
    BY DEF ReworkInv, ReworkFormed
  <2>2. PICK e : e = [evals[i] EXCEPT !.status = "failed"]
    OBVIOUS
  <2>3. Evaluated(e)
    BY <2>1, <2>2, Settles
  <2>4. evals[i].status = "running" /\ evals' = [evals EXCEPT ![i] = e]
        /\ rule' = rule /\ repairs' = repairs /\ approved' = approved
    BY <1>3, <2>2 DEF FailEvaluation
  <2> QED BY <2>3, <2>4, Settling
<1>4. ASSUME NEW i \in DOMAIN evals, NEW said, FinishEvaluation(i, said) PROVE ReworkInv' /\ RoundsEndure
  <2>1. Evaluated(evals[i])
    BY DEF ReworkInv, ReworkFormed
  <2>2. PICK e : e = SettledAs(evals[i], said)
    OBVIOUS
  <2>3. Evaluated(e)
    BY <2>1, <2>2, Settles
  <2>4. evals[i].status = "running" /\ evals' = [evals EXCEPT ![i] = e]
        /\ rule' = rule /\ repairs' = repairs /\ approved' = approved
    BY <1>4, <2>2 DEF FinishEvaluation
  <2> QED BY <2>3, <2>4, Settling
<1>5. ASSUME NEW status, NEW outputs, Repair(status, outputs) PROVE ReworkInv' /\ RoundsEndure
  BY <1>5, Repaired
<1>6. ASSUME ApproveContinuing PROVE ReworkInv' /\ RoundsEndure
  <2>1. evals' = evals /\ repairs' = repairs /\ rule' = rule /\ approved \subseteq approved'
    BY <1>6 DEF ApproveContinuing
  <2>2. ReworkFormed'
    BY <2>1 DEF ReworkInv, ReworkFormed, Evaluated
  <2>3. Len(evals) \in Nat
    BY DEF ReworkInv, ReworkFormed
  <2>4. ReworkMoves
    BY <2>1, <2>3 DEF ReworkMoves, EvalsMove
  <2> QED BY <2>1, <2>2, <2>4, Kept
<1> QED BY <1>1, <1>2, <1>3, <1>4, <1>5, <1>6 DEF ReworkNext

(* However often a candidate is judged again, taken over or refused, rounds *)
(* on record keep their numbers and their contents; and a round nobody      *)
(* approved is within the bound and of an artifact not repaired before      *)
(* (rework.ts, decideRework; rework-rounds.ts, deriveReworkRounds).         *)
THEOREM Bounded == ReworkSpec => RoundsAreLicensed
<1>1. ReworkInit => ReworkInv
  BY Starts
<1>2. ReworkInv /\ [ReworkNext]_reworkVars => ReworkInv'
  BY ReworkSteps
<1>3. ReworkInv /\ ReworkInv' /\ [ReworkNext]_reworkVars => [RoundsEndure /\ Licensed']_reworkVars
  <2> SUFFICES ASSUME ReworkInv, ReworkInv', [ReworkNext]_reworkVars PROVE RoundsEndure /\ Licensed'
    OBVIOUS
  <2>1. RoundsEndure
    BY ReworkSteps
  <2> QED BY <2>1 DEF ReworkInv
<1> QED BY <1>1, <1>2, <1>3, PTL DEF ReworkSpec, RoundsAreLicensed

-----------------------------------------------------------------------------
(* Regression.  What the counts say of the cases they count; and that no    *)
(* slice can fall behind the whole corpus without another one running ahead *)
(* of it.                                                                   *)

-----------------------------------------------------------------------------
LEMMA FiniteRange ==
  ASSUME NEW T, NEW s \in Seq(T)
  PROVE  IsFiniteSet(Range(s))
<1> DEFINE n == Len(s)
           R == Range(s)
<1>1. n \in Nat /\ s = [i \in 1 .. n |-> s[i]]
  OBVIOUS
<1>2. IsFiniteSet(1 .. n)
  <2> HIDE DEF n
  <2>1. n \in Int /\ 1 \in Int
    BY <1>1
  <2> QED BY <2>1, FS_Interval
<1>3. s \in Surjection(1 .. n, R)
  BY <1>1 DEF Surjection, Range
<1>4. IsFiniteSet(R)
  <2> HIDE DEF n, R
  <2> QED BY <1>2, <1>3, FS_Surjection
<1> QED BY <1>4

(* Two parts of a finite set.                                               *)
LEMMA Parts ==
  ASSUME NEW S, IsFiniteSet(S), NEW X, NEW Y, X \cup Y = S, X \cap Y = {}
  PROVE  /\ Cardinality(X) \in Nat /\ Cardinality(Y) \in Nat
         /\ Cardinality(S) = Cardinality(X) + Cardinality(Y)
<1>1. IsFiniteSet(X) /\ IsFiniteSet(Y)
  <2>1. X \in SUBSET S /\ Y \in SUBSET S
    OBVIOUS
  <2> QED BY <2>1, FS_Subset
<1>2. Cardinality(X) \in Nat /\ Cardinality(Y) \in Nat
  BY <1>1, FS_CardinalityType
<1>3. Cardinality(S) = Cardinality(X) + Cardinality(Y) - Cardinality(X \cap Y)
  BY <1>1, FS_Union
<1> QED BY <1>2, <1>3, FS_EmptySet

(* Of what is in S, what is filed under a key of K; and under one key.       *)
Under(S, key, K) == {c \in S : key[c] \in K}

LEMMA OneKey ==
  ASSUME NEW S, IsFiniteSet(S), NEW key, NEW L, NEW v \in L
  PROVE  /\ Cardinality(Under(S, key, L)) \in Nat
         /\ Cardinality(Under(S, key, L \ {v})) \in Nat /\ Cardinality(Under(S, key, {v})) \in Nat
         /\ Cardinality(Under(S, key, L)) = Cardinality(Under(S, key, L \ {v})) + Cardinality(Under(S, key, {v}))
<1>1. PICK U, X, Y : U = Under(S, key, L) /\ X = Under(S, key, L \ {v}) /\ Y = Under(S, key, {v})
  OBVIOUS
<1>2. U \in SUBSET S /\ X \cup Y = U /\ X \cap Y = {}
  BY <1>1 DEF Under
<1>3. IsFiniteSet(U)
  BY <1>2, FS_Subset
<1>4. /\ Cardinality(X) \in Nat /\ Cardinality(Y) \in Nat
      /\ Cardinality(U) = Cardinality(X) + Cardinality(Y)
  BY <1>2, <1>3, Parts
<1> QED BY <1>1, <1>4

EachReaches(C, G, key, A, N) ==
  \A c \in C : Cardinality(Under(G, key, {key[c]})) * N >= A * Cardinality(Under(C, key, {key[c]}))

(* If each key does at least as well as A in N, so do any of them together.  *)
LEMMA Together ==
  ASSUME NEW C, IsFiniteSet(C), NEW G \in SUBSET C, NEW key, NEW A \in Nat, NEW N \in Nat,
         EachReaches(C, G, key, A, N),
         NEW K
  PROVE  Cardinality(Under(G, key, K)) * N >= A * Cardinality(Under(C, key, K))
<1> DEFINE Good(L) == Cardinality(Under(G, key, L)) * N >= A * Cardinality(Under(C, key, L))
           Bad == {n \in Nat : \E L : Cardinality(Under(C, key, L)) = n /\ ~Good(L)}
<1>0. IsFiniteSet(G)
  BY FS_Subset
<1>1. ASSUME NEW L PROVE /\ IsFiniteSet(Under(C, key, L)) /\ IsFiniteSet(Under(G, key, L))
                         /\ Cardinality(Under(C, key, L)) \in Nat /\ Cardinality(Under(G, key, L)) \in Nat
  <2>1. Under(C, key, L) \in SUBSET C /\ Under(G, key, L) \in SUBSET G
    BY DEF Under
  <2>2. IsFiniteSet(Under(C, key, L)) /\ IsFiniteSet(Under(G, key, L))
    BY <1>0, <2>1, FS_Subset
  <2> QED BY <2>2, FS_CardinalityType
<1>2. ASSUME Bad # {} PROVE FALSE
  <2>1. PICK n \in Bad : \A m \in Bad : n <= m
    BY <1>2, Least
  <2>2. PICK L : Cardinality(Under(C, key, L)) = n /\ ~Good(L)
    BY <2>1
  <2>3. Under(C, key, L) # {}
    <3> SUFFICES ASSUME Under(C, key, L) = {} PROVE FALSE
      OBVIOUS
    <3>1. Under(G, key, L) = {}
      BY DEF Under
    <3>2. Cardinality(Under(C, key, L)) = 0 /\ Cardinality(Under(G, key, L)) = 0
      BY <3>1, FS_EmptySet
    <3> QED BY <2>2, <3>2
  <2>4. PICK c \in C : key[c] \in L
    BY <2>3 DEF Under
  <2> DEFINE v == key[c]
             M == L \ {v}
  <2>6. c \in Under(C, key, {v})
    BY <2>4 DEF Under
  <2>7. /\ Cardinality(Under(C, key, L)) = Cardinality(Under(C, key, M)) + Cardinality(Under(C, key, {v}))
        /\ Cardinality(Under(G, key, L)) = Cardinality(Under(G, key, M)) + Cardinality(Under(G, key, {v}))
    BY <1>0, <2>4, OneKey
  <2> HIDE DEF v, M
  <2>8. Cardinality(Under(C, key, {v})) # 0
    BY <1>1, <2>6, FS_EmptySet
  <2>9. Cardinality(Under(C, key, M)) \notin Bad
    <3>1. Cardinality(Under(C, key, M)) \in Nat /\ Cardinality(Under(C, key, {v})) \in Nat
      BY <1>1
    <3>2. n \in Nat /\ Cardinality(Under(C, key, M)) < n
      BY <2>1, <2>2, <2>7, <2>8, <3>1
    <3> HIDE DEF Bad
    <3> QED BY <2>1, <3>1, <3>2
  <2>10. Good(M)
    BY <1>1, <2>9
  <2>11. Good({v})
    BY DEF v, EachReaches
  <2>12. PICK x, y, z, w \in Nat : /\ x = Cardinality(Under(C, key, M)) /\ y = Cardinality(Under(C, key, {v}))
                                  /\ z = Cardinality(Under(G, key, M)) /\ w = Cardinality(Under(G, key, {v}))
    BY <1>1
  <2>13. z * N >= A * x /\ w * N >= A * y /\ ~ ((z + w) * N >= A * (x + y))
    BY <2>2, <2>7, <2>10, <2>11, <2>12
  <2> QED BY <2>13
<1> QED BY <1>1, <1>2

(* And then each is exactly as good as all of them.                          *)
LEMMA NoneAbove ==
  ASSUME NEW C, IsFiniteSet(C), NEW G \in SUBSET C, NEW key,
         EachReaches(C, G, key, Cardinality(G), Cardinality(C)),
         NEW c \in C
  PROVE  Cardinality(Under(G, key, {key[c]})) * Cardinality(C) = Cardinality(G) * Cardinality(Under(C, key, {key[c]}))
<1> DEFINE L == {key[x] : x \in C}
           K == L \ {key[c]}
<1>1. C = Under(C, key, L) /\ G = Under(G, key, L) /\ key[c] \in L
  BY DEF Under
<1>2. IsFiniteSet(G)
  BY FS_Subset
<1>3. /\ Cardinality(Under(C, key, K)) \in Nat /\ Cardinality(Under(C, key, {key[c]})) \in Nat
      /\ Cardinality(C) = Cardinality(Under(C, key, K)) + Cardinality(Under(C, key, {key[c]}))
      /\ Cardinality(Under(G, key, K)) \in Nat /\ Cardinality(Under(G, key, {key[c]})) \in Nat
      /\ Cardinality(G) = Cardinality(Under(G, key, K)) + Cardinality(Under(G, key, {key[c]}))
  <2> DEFINE v == key[c]
  <2>0. v \in L
    BY <1>1
  <2> HIDE DEF L, v
  <2>3. /\ Cardinality(Under(C, key, L \ {v})) \in Nat /\ Cardinality(Under(C, key, {v})) \in Nat
        /\ Cardinality(Under(C, key, L)) = Cardinality(Under(C, key, L \ {v})) + Cardinality(Under(C, key, {v}))
    BY <2>0, OneKey
  <2>4. /\ Cardinality(Under(G, key, L \ {v})) \in Nat /\ Cardinality(Under(G, key, {v})) \in Nat
        /\ Cardinality(Under(G, key, L)) = Cardinality(Under(G, key, L \ {v})) + Cardinality(Under(G, key, {v}))
    <3>1. PICK g : g = G
      OBVIOUS
    <3>2. IsFiniteSet(g)
      BY <1>2, <3>1
    <3>3. /\ Cardinality(Under(g, key, L \ {v})) \in Nat /\ Cardinality(Under(g, key, {v})) \in Nat
          /\ Cardinality(Under(g, key, L)) = Cardinality(Under(g, key, L \ {v})) + Cardinality(Under(g, key, {v}))
      BY <2>0, <3>2, OneKey
    <3> QED BY <3>1, <3>3
  <2>1. /\ Cardinality(Under(C, key, K)) \in Nat /\ Cardinality(Under(C, key, {key[c]})) \in Nat
        /\ Cardinality(Under(C, key, L)) = Cardinality(Under(C, key, K)) + Cardinality(Under(C, key, {key[c]}))
    BY <2>3 DEF v
  <2>2. /\ Cardinality(Under(G, key, K)) \in Nat /\ Cardinality(Under(G, key, {key[c]})) \in Nat
        /\ Cardinality(Under(G, key, L)) = Cardinality(Under(G, key, K)) + Cardinality(Under(G, key, {key[c]}))
    BY <2>4 DEF v
  <2> QED BY <1>1, <2>1, <2>2
<1> HIDE DEF K
<1>4. PICK x, y, z, w \in Nat : /\ x = Cardinality(Under(C, key, K)) /\ y = Cardinality(Under(C, key, {key[c]}))
                                /\ z = Cardinality(Under(G, key, K)) /\ w = Cardinality(Under(G, key, {key[c]}))
  BY <1>3
<1>5. Cardinality(C) = x + y /\ Cardinality(G) = z + w
  BY <1>3, <1>4
<1>6. Cardinality(Under(G, key, K)) * Cardinality(C) >= Cardinality(G) * Cardinality(Under(C, key, K))
  <2>1. Cardinality(C) \in Nat /\ Cardinality(G) \in Nat
    BY <1>5
  <2> QED BY <2>1, Together
<1>7. z * (x + y) >= (z + w) * x /\ w * (x + y) >= (z + w) * y
  BY <1>4, <1>5, <1>6 DEF EachReaches
<1>8. w * (x + y) = (z + w) * y
  BY <1>7
<1> QED BY <1>4, <1>5, <1>8

CorpusInv ==
  /\ corpus = [schema |-> corpus.schema, cases |-> corpus.cases] /\ corpus.cases \in Seq(Range(corpus.cases))
  /\ policy \in Policies /\ PolicyValid(policy)

LEMMA CorpusStarts == CorpusInit => CorpusInv
<1> SUFFICES ASSUME CorpusInit PROVE CorpusInv
  OBVIOUS
<1>1. PICK v \in Versions : corpus = [schema |-> v[1], cases |-> <<>>]
  BY DEF CorpusInit
<1>2. corpus = [schema |-> corpus.schema, cases |-> corpus.cases] /\ corpus.cases = <<>>
  BY <1>1
<1>3. <<>> \in Seq(Range(<<>>))
  OBVIOUS
<1> QED BY <1>2, <1>3 DEF CorpusInv, CorpusInit

LEMMA CorpusSteps == CorpusInv /\ [CorpusNext]_corpusVars => CorpusInv'
<1> SUFFICES ASSUME CorpusInv, [CorpusNext]_corpusVars PROVE CorpusInv'
  OBVIOUS
<1>1. ASSUME corpus' = corpus, policy' = policy PROVE CorpusInv'
  BY <1>1 DEF CorpusInv, PolicyValid
<1>2. ASSUME NEW c, Label(c) PROVE CorpusInv'
  <2>1. corpus' = [corpus EXCEPT !.cases = Append(@, c)] /\ policy' = policy
    BY <1>2 DEF Label
  <2>2. corpus' = [schema |-> corpus'.schema, cases |-> corpus'.cases] /\ corpus'.cases = Append(corpus.cases, c)
    BY <2>1 DEF CorpusInv
  <2>3. PICK s, t : s = corpus.cases /\ t = Append(s, c)
    OBVIOUS
  <2>4. s \in Seq(Range(s) \cup {c})
    BY <2>3 DEF CorpusInv
  <2>5. t \in Seq(Range(s) \cup {c})
    BY <2>3, <2>4
  <2>6. \A n \in 1 .. Len(t) : t[n] \in Range(t)
    BY <2>5 DEF Range
  <2>7. t \in Seq(Range(t))
    BY <2>5, <2>6
  <2> QED BY <2>1, <2>2, <2>3, <2>7 DEF CorpusInv, PolicyValid
<1>3. ASSUME NEW o, Report(o) PROVE CorpusInv'
  BY <1>1, <1>3 DEF Report
<1>4. ASSUME NEW b, RecordSpot(b) PROVE CorpusInv'
  BY <1>1, <1>4 DEF RecordSpot
<1> QED BY <1>1, <1>2, <1>3, <1>4 DEF CorpusNext, corpusVars

-----------------------------------------------------------------------------
Cases == Range(corpus.cases)

LEMMA FewCases ==
  ASSUME CorpusInv
  PROVE  /\ IsFiniteSet(Cases)
         /\ \A S \in SUBSET Cases : IsFiniteSet(S) /\ Cardinality(S) \in Nat /\ (Cardinality(S) = 0 <=> S = {})
<1>1. IsFiniteSet(Cases)
  BY FiniteRange DEF Cases, CorpusInv
<1>2. ASSUME NEW S \in SUBSET Cases
      PROVE  IsFiniteSet(S) /\ Cardinality(S) \in Nat /\ (Cardinality(S) = 0 <=> S = {})
  <2>1. IsFiniteSet(S)
    BY <1>1, FS_Subset
  <2> QED BY <2>1, FS_CardinalityType, FS_EmptySet
<1> QED BY <1>1, <1>2

(* The part of a slice of one verdict.                                       *)
Of(selector, v) == {c \in Matching(selector) : CaseVerdict(c) = v}
Agreeing(selector) == Of(selector, "truePositive") \cup Of(selector, "trueNegative")

LEMMA Figures ==
  ASSUME NEW selector
  PROVE  LET m == Summarise(selector)
         IN  /\ m.selector = selector /\ m.cases = Cardinality(Matching(selector))
             /\ m.defective = Cardinality({c \in Matching(selector) : c.defective})
             /\ m.clean = Cardinality({c \in Matching(selector) : ~c.defective})
             /\ m.truePositives = Cardinality(Of(selector, "truePositive"))
             /\ m.falsePositives = Cardinality(Of(selector, "falsePositive"))
             /\ m.agreed = Cardinality(Agreeing(selector))
BY DEF Summarise, Of, Agreeing

LEMMA ClearsTheBar ==
  ASSUME NEW m, Shortfalls(m) = {}
  PROVE  /\ m.defective # 0 /\ m.clean # 0
         /\ ~Below(m.truePositives, m.defective, policy.minRecall)
         /\ ~ (policy.maxFalsePositives.num * m.clean < m.falsePositives * policy.maxFalsePositives.den)
         /\ ~ (policy.openBlindSpotDisqualifies /\ OpenFor(m.selector) # {})
<1>1. ~Unmeasurable(m)
  BY DEF Shortfalls
<1> QED BY <1>1 DEF Shortfalls, Unmeasurable

LEMMA Promoted ==
  ASSUME NEW selector \in PromotableScopes
  PROVE  Shortfalls(Summarise(selector)) = {}
BY Figures, Zenon DEF PromotableScopes, Slices

LEMMA BlindSpots == BlindSpotsHold
<1> SUFFICES ASSUME policy.openBlindSpotDisqualifies, NEW selector \in PromotableScopes,
                    NEW b \in Range(registry), NEW c \in Matching(selector),
                    b.evaluator = Evaluator, b.status = "open", ScopeMatches(c.scope, b.scope)
             PROVE FALSE
  BY DEF BlindSpotsHold
<1>1. OpenFor(selector) = {}
  BY Promoted, ClearsTheBar, Figures
<1>2. b \in OpenFor(selector)
  BY DEF OpenFor, Matching, ScopeMatches
<1> QED BY <1>1, <1>2

LEMMA Times ==
  /\ \A x, y \in Int : x > 0 /\ y > 0 => x * y > 0
  /\ \A x, y \in Nat : x = 0 => x * y = 0
  /\ \A n, d, x, y \in Int : d > n /\ n >= 0 /\ x > 0 /\ y >= x => n * x < y * d
OBVIOUS

LEMMA Earned == CorpusInv => PromotionIsEarned
<1> SUFFICES ASSUME CorpusInv, policy.minRecall.num > 0, policy.maxFalsePositives.num < policy.maxFalsePositives.den,
                    NEW selector \in PromotableScopes
             PROVE  /\ \E c \in Cases : ScopeMatches(c.scope, selector) /\ c.defective /\ Flagged(c)
                    /\ \E c \in Cases : ScopeMatches(c.scope, selector) /\ ~c.defective /\ ~Flagged(c)
  BY DEF PromotionIsEarned, Cases
<1> DEFINE m == Summarise(selector)
           D == {c \in Matching(selector) : c.defective}
           L == {c \in Matching(selector) : ~c.defective}
           TP == Of(selector, "truePositive")
           FP == Of(selector, "falsePositive")
<1>1. PICK def, clean, tp, fp \in Nat : /\ def = Cardinality(D) /\ clean = Cardinality(L)
                                      /\ tp = Cardinality(TP) /\ fp = Cardinality(FP)
  <2>1. D \in SUBSET Cases /\ L \in SUBSET Cases /\ TP \in SUBSET Cases /\ FP \in SUBSET Cases
    BY DEF Of, Matching, Cases
  <2> HIDE DEF D, L, TP, FP
  <2> QED BY <2>1, FewCases
<1>2. m.defective = def /\ m.clean = clean /\ m.truePositives = tp /\ m.falsePositives = fp
  BY <1>1, Figures
<1>3. Shortfalls(m) = {}
  BY Promoted
<1>4. PICK rn, rd, fn, fd \in Int : /\ rn = policy.minRecall.num /\ rd = policy.minRecall.den
                                  /\ fn = policy.maxFalsePositives.num /\ fd = policy.maxFalsePositives.den
  BY RegressionAssumption DEF CorpusInv
<1>5. rn > 0 /\ rn <= rd /\ 0 <= fn /\ fn < fd
  BY <1>4 DEF CorpusInv, PolicyValid, IsRate
<1>6. def # 0 /\ clean # 0 /\ ~ (tp * rd < rn * def) /\ ~ (fn * clean < fp * fd)
  <2> HIDE DEF m
  <2> QED BY <1>2, <1>3, <1>4, ClearsTheBar DEF Below
<1>7. tp # 0
  <2>1. rn * def > 0
    BY <1>1, <1>5, <1>6, Times
  <2> QED BY <1>6, <2>1
<1>8. fp < clean
  BY <1>1, <1>5, <1>6, Times
<1>9. PICK c \in Cases : c \in TP
  <2>1. TP # {}
    BY <1>1, <1>7, FS_EmptySet
  <2> QED BY <2>1 DEF Of, Matching, Cases
<1>10. ScopeMatches(c.scope, selector) /\ c.defective /\ Flagged(c)
  BY <1>9 DEF Of, Matching, CaseVerdict
<1>11. PICK x \in Cases : x \in L /\ x \notin FP
  <2>1. L # FP
    <3> HIDE DEF L, FP
    <3>1. Cardinality(L) # Cardinality(FP)
      BY <1>1, <1>8
    <3> QED BY <3>1
  <2>2. FP \subseteq L
    BY DEF Of, CaseVerdict
  <2> QED BY <2>1, <2>2 DEF Matching, Cases
<1>12. ScopeMatches(x.scope, selector) /\ ~x.defective /\ ~Flagged(x)
  BY <1>11 DEF Of, Matching, CaseVerdict
<1> QED BY <1>9, <1>10, <1>11, <1>12

Selector(c, d) == [x \in {d} |-> c.scope[x]]

LEMMA SlicedAlone ==
  ASSUME Groupings = ByDimension, NEW d \in ObservedDimensions,
         \A c \in Cases : d \in DOMAIN c.scope
  PROVE  /\ \A c \in Cases : Selector(c, d) \in DeriveScopeSelectors
         /\ \A s \in DeriveScopeSelectors : DOMAIN s = {d} => \E c \in Cases : s = Selector(c, d)
<1> DEFINE slices(dims) == {[x \in dims |-> c.scope[x]] : c \in {e \in Cases : dims \subseteq DOMAIN e.scope}}
<1>1. DeriveScopeSelectors = UNION {slices(dims) : dims \in {{e} : e \in ObservedDimensions}}
  BY DEF DeriveScopeSelectors, Cases
<1>2. ASSUME NEW c \in Cases PROVE Selector(c, d) \in DeriveScopeSelectors
  <2>1. Selector(c, d) \in slices({d})
    BY DEF Selector
  <2> HIDE DEF slices
  <2> QED BY <1>1, <2>1
<1>3. ASSUME NEW s \in DeriveScopeSelectors, DOMAIN s = {d} PROVE \E c \in Cases : s = Selector(c, d)
  <2>1. PICK e \in ObservedDimensions : s \in slices({e})
    <3> HIDE DEF slices
    <3> QED BY <1>1
  <2>2. PICK c \in Cases : s = [x \in {e} |-> c.scope[x]]
    BY <2>1
  <2>3. e = d
    BY <1>3, <2>2
  <2> QED BY <2>2, <2>3 DEF Selector
<1> QED BY <1>2, <1>3

LEMMA Flattered == CorpusInv => NoSilentFlattery
<1> SUFFICES ASSUME CorpusInv, ~AggregateFlatters, Groupings = ByDimension,
                    NEW d \in ObservedDimensions, \A c \in Cases : d \in DOMAIN c.scope,
                    NEW m \in Slices, DOMAIN m.selector = {d}
             PROVE  m.agreed * Summarise(WholeCorpus).cases = Summarise(WholeCorpus).agreed * m.cases
  BY DEF NoSilentFlattery, Cases
<1> DEFINE key == [c \in Cases |-> c.scope[d]]
           G == Agreeing(WholeCorpus)
<1>1. IsFiniteSet(Cases) /\ G \in SUBSET Cases /\ Matching(WholeCorpus) = Cases
  <2>1. Matching(WholeCorpus) = Cases
    BY DEF Matching, Cases, ScopeMatches, WholeCorpus
  <2> QED BY <2>1, FewCases DEF Agreeing, Of
<1>2. ASSUME NEW c \in Cases
      PROVE  /\ Matching(Selector(c, d)) = Under(Cases, key, {key[c]})
             /\ Agreeing(Selector(c, d)) = Under(G, key, {key[c]})
  <2>1. ASSUME NEW e \in Cases PROVE ScopeMatches(e.scope, Selector(c, d)) <=> e.scope[d] = c.scope[d]
    BY DEF ScopeMatches, Selector
  <2>2. Matching(Selector(c, d)) = Under(Cases, key, {key[c]})
    BY <2>1 DEF Matching, Under, Cases
  <2> QED BY <1>1, <2>2 DEF Agreeing, Of, Under
<1>3. PICK N, A : N = Cardinality(Cases) /\ A = Cardinality(G)
  OBVIOUS
<1>4. Summarise(WholeCorpus).cases = N /\ Summarise(WholeCorpus).agreed = A
  BY <1>1, <1>3, Figures
<1>5. ASSUME NEW c \in Cases
      PROVE  Cardinality(Under(G, key, {key[c]})) * N >= A * Cardinality(Under(Cases, key, {key[c]}))
  <2> DEFINE s == Summarise(Selector(c, d))
  <2>1. s \in Slices
    BY SlicedAlone DEF Slices
  <2>2. s.cases = Cardinality(Under(Cases, key, {key[c]})) /\ s.agreed = Cardinality(Under(G, key, {key[c]}))
    <3>1. s.cases = Cardinality(Matching(Selector(c, d))) /\ s.agreed = Cardinality(Agreeing(Selector(c, d)))
      BY Figures
    <3> HIDE DEF s, key, G
    <3> QED BY <1>2, <3>1, Zenon
  <2>3. s.cases \in Nat /\ s.agreed \in Nat /\ s.cases # 0 /\ N \in Nat /\ A \in Nat
    <3>1. Under(Cases, key, {key[c]}) \in SUBSET Cases /\ Under(G, key, {key[c]}) \in SUBSET Cases
          /\ c \in Under(Cases, key, {key[c]})
      BY <1>1 DEF Under
    <3> HIDE DEF key, G, s
    <3> QED BY <1>1, <1>3, <2>2, <3>1, FewCases
  <2>4. ~LessAgreed(s, Summarise(WholeCorpus))
    <3> HIDE DEF s
    <3> QED BY <2>1, <2>3 DEF AggregateFlatters
  <2>5. ~ (s.agreed * N < A * s.cases)
    BY <1>4, <2>4 DEF LessAgreed
  <2> QED BY <2>2, <2>3, <2>5
<1>6. EachReaches(Cases, G, key, A, N)
  BY <1>5 DEF EachReaches
<1>7. PICK s \in DeriveScopeSelectors : m = Summarise(s)
  BY DEF Slices
<1>8. m.selector = s
  BY <1>7, Figures
<1>9. PICK c \in Cases : s = Selector(c, d)
  BY <1>8, SlicedAlone
<1>10. m.cases = Cardinality(Under(Cases, key, {key[c]})) /\ m.agreed = Cardinality(Under(G, key, {key[c]}))
  <2>1. m.cases = Cardinality(Matching(s)) /\ m.agreed = Cardinality(Agreeing(s))
    BY <1>7, Figures
  <2> HIDE DEF key, G
  <2> QED BY <1>2, <1>9, <2>1, Zenon
<1>11. Cardinality(Under(G, key, {key[c]})) * N = A * Cardinality(Under(Cases, key, {key[c]}))
  <2> HIDE DEF key, G
  <2> QED BY <1>1, <1>3, <1>6, NoneAbove
<1> QED BY <1>4, <1>10, <1>11

(* For any corpus, run, registry and valid policy: a promoted scope holds a *)
(* caught defect and a clean case let pass, no case of an open blind spot,  *)
(* and no whole-corpus figure flatters unwarned (promotion.ts, metrics.ts,  *)
(* blindspots.ts).                                                          *)
THEOREM PromotionWarranted == CorpusSpec => []PromotionIsWarranted
<1>1. CorpusInv => PromotionIsWarranted
  BY Earned, BlindSpots, Flattered DEF PromotionIsWarranted
<1> QED BY <1>1, CorpusStarts, CorpusSteps, PTL DEF CorpusSpec

-----------------------------------------------------------------------------
(* The doors: the MCP surface first, then the CLI.                          *)

(* Of a stage id there are finitely many versions, each with one definition. *)
RegistryInv ==
  /\ \A d \in registered : d \in Definitions
  /\ \A d, e \in registered : d.id = e.id /\ d.version = e.version => d = e
  /\ \A id : IsFiniteSet(VersionsOf(id))

(* A stage call that was let through without the right to spend: it found a *)
(* definition to run and none that requires authorization.                  *)
Free(args) ==
  /\ \A d \in Resolved(args) : ~d.requiresAuthorization
  /\ IF args.version # Unset THEN Get(args.id, args.version) # {} ELSE VersionsOf(args.id) # {}

Admitted(call) ==
  /\ call.session \in McpSession /\ call.tool \in Tools \ ReadTools
  /\ RequiredCapability[call.tool] \in grant[call.session]
  /\ call.actor = ResolveActor(identity[call.session])
  /\ call.tool \in StageTools =>
       /\ call.args \in StageArgs
       /\ call.args.force => "stage:force" \in grant[call.session]
       /\ "spend" \in grant[call.session] \/ Free(call.args)

SurfaceInv == RegistryInv /\ \A call \in inflight : Admitted(call)

LEMMA EffectsTake ==
  ASSUME NEW tool \in Tools \ ReadTools
  PROVE  Takes[EffectOf[tool]] = RequiredCapability[tool]
<1>1. CASE tool \in StageTools
  BY <1>1 DEF Takes, EffectOf, RequiredCapability, StageTools, ReadTools, Tools
<1>2. CASE tool \notin StageTools
  <2>1. tool \in DOMAIN Verbs /\ EffectOf[tool] = Verbs[tool].effect /\ RequiredCapability[tool] = Verbs[tool].capability
    BY <1>2 DEF Tools, EffectOf, RequiredCapability
  <2>2. Takes[Verbs[tool].effect] = Verbs[tool].capability
    BY <2>1 DEF Verbs, Verb, Takes
  <2> QED BY <2>1, <2>2
<1> QED BY <1>1, <1>2

LEMMA OneVersion ==
  ASSUME NEW S, IsFiniteSet(S), Cardinality(S) = 1, NEW v \in S, NEW w \in S
  PROVE  v = w
<1>1. PICK x : S = {x}
  BY FS_Singleton
<1> QED BY <1>1

(* What a registration leaves of what could be run: all of it, or nothing.  *)
LEMMA RegisterKeeps ==
  ASSUME RegistryInv, NEW definition \in Definitions, Register(definition)
  PROVE  /\ RegistryInv'
         /\ \A args \in StageArgs : Free(args) => Free(args)'
<1>1. registered' = registered \cup {definition} /\ Get(definition.id, definition.version) = {}
  BY DEF Register, Registrable
<1>2. \A d \in registered : ~(d.id = definition.id /\ d.version = definition.version)
  BY <1>1 DEF Get
<1>3. ASSUME NEW id
      PROVE  VersionsOf(id)' = IF id = definition.id THEN VersionsOf(id) \cup {definition.version} ELSE VersionsOf(id)
  BY <1>1 DEF VersionsOf
<1>4. ASSUME NEW id PROVE IsFiniteSet(VersionsOf(id)')
  <2>1. IsFiniteSet(VersionsOf(id))
    BY DEF RegistryInv
  <2> QED BY <1>3, <2>1, FS_AddElement
<1>5. RegistryInv'
  BY <1>1, <1>2, <1>4 DEF RegistryInv
<1>6. ASSUME NEW args \in StageArgs, Free(args) PROVE Free(args)'
  <2>1. CASE args.version # Unset
    <3>1. Get(args.id, args.version)' = Get(args.id, args.version)
      BY <1>1, <1>6, <2>1 DEF Free, Get
    <3> QED BY <1>6, <2>1, <3>1 DEF Free, Resolved
  <2>2. CASE args.version = Unset
    <3>1. PICK v \in VersionsOf(args.id) : TRUE
      BY <1>6, <2>2 DEF Free
    <3>2. VersionsOf(args.id)' # {} /\ v \in VersionsOf(args.id)'
      BY <1>3, <3>1
    <3>3. ASSUME NEW d \in Resolved(args)' PROVE ~d.requiresAuthorization
      <4>1. d \in registered' /\ d.id = args.id /\ Cardinality(VersionsOf(args.id)') = 1
        BY <2>2 DEF Resolved
      <4>2. d.version \in VersionsOf(args.id)'
        BY <4>1 DEF VersionsOf
      <4>3. \A w \in VersionsOf(args.id)' : w = v
        BY <1>4, <3>2, <4>1, OneVersion
      <4>4. PICK e \in registered : e.id = args.id /\ e.version = v
        BY <3>1 DEF VersionsOf
      <4>5. d \in registered
        BY <1>1, <1>2, <4>1, <4>2, <4>3, <4>4
      <4>6. VersionsOf(args.id)' = VersionsOf(args.id)
        BY <1>3, <3>1, <4>2, <4>3
      <4>7. d \in Resolved(args)
        BY <2>2, <4>1, <4>5, <4>6 DEF Resolved
      <4> QED BY <1>6, <4>7 DEF Free
    <3> QED BY <2>2, <3>2, <3>3 DEF Free
  <2> QED BY <2>1, <2>2
<1> QED BY <1>5, <1>6

LEMMA CallAdmits ==
  ASSUME NEW s \in McpSession, NEW tool \in Tools, NEW args \in StageArgs \cup {Unset}, CallTool(s, tool, args),
         tool \notin ReadTools
  PROVE  Admitted([session |-> s, tool |-> tool, args |-> args, actor |-> ResolveActor(identity[s])])
<1> DEFINE call == [session |-> s, tool |-> tool, args |-> args, actor |-> ResolveActor(identity[s])]
<1>1. Required(tool, args) \subseteq grant[s] /\ (tool \in StageTools <=> args # Unset)
  BY DEF CallTool
<1>2. RequiredCapability[tool] \in grant[s]
  BY <1>1 DEF Required
<1>3. ASSUME tool \in StageTools
      PROVE  /\ args \in StageArgs
             /\ args.force => "stage:force" \in grant[s]
             /\ "spend" \in grant[s] \/ Free(args)
  <2>1. args \in StageArgs /\ StageExtras(args) \subseteq grant[s]
    BY <1>1, <1>3 DEF Required
  <2>2. args.force => "stage:force" \in grant[s]
    BY <2>1 DEF StageExtras
  <2>3. "spend" \in grant[s] \/ ~RequiresSpendAuthorization(args)
    BY <2>1 DEF StageExtras
  <2>4. ASSUME ~RequiresSpendAuthorization(args) PROVE Free(args)
    <3>1. Resolved(args) # {} /\ \A d \in Resolved(args) : ~d.requiresAuthorization
      BY <2>4, Zenon DEF RequiresSpendAuthorization
    <3>2. args.version = Unset => VersionsOf(args.id) # {}
      BY <3>1 DEF Resolved, VersionsOf
    <3> QED BY <3>1, <3>2 DEF Free, Resolved
  <2> QED BY <2>1, <2>2, <2>3, <2>4
<1>4. call.session = s /\ call.tool = tool /\ call.args = args /\ call.actor = ResolveActor(identity[s])
  OBVIOUS
<1> HIDE DEF call
<1>5. Admitted(call)
  BY <1>2, <1>3, <1>4 DEF Admitted
<1> QED BY <1>5 DEF call

LEMMA SurfaceSteps ==
  ASSUME SurfaceInv, SessionsStayWithinGrant, [SurfaceNext]_surfaceVars
  PROVE  SurfaceInv' /\ SessionsStayWithinGrant'
<1>0. RegistryInv /\ \A call \in inflight : Admitted(call)
  BY DEF SurfaceInv
<1>1. ASSUME NEW d \in Definitions, Register(d) PROVE SurfaceInv' /\ SessionsStayWithinGrant'
  <2>1. RegistryInv' /\ \A args \in StageArgs : Free(args) => Free(args)'
    BY <1>0, <1>1, RegisterKeeps
  <2>2. UNCHANGED <<grant, identity, inflight, log>>
    BY <1>1 DEF Register, sessionVars
  <2>3. ASSUME NEW call \in inflight' PROVE Admitted(call)'
    <3>1. Admitted(call)
      BY <1>0, <2>2, <2>3
    <3> QED BY <2>1, <2>2, <3>1 DEF Admitted, ResolveActor, Confirmed
  <2> QED BY <2>1, <2>2, <2>3 DEF SurfaceInv, SessionsStayWithinGrant, Confirmed
<1>2. ASSUME NEW s \in McpSession, NEW tool \in Tools, NEW args \in StageArgs \cup {Unset}, CallTool(s, tool, args)
      PROVE  SurfaceInv' /\ SessionsStayWithinGrant'
  <2> DEFINE new == [session |-> s, tool |-> tool, args |-> args, actor |-> ResolveActor(identity[s])]
  <2>1. /\ UNCHANGED <<grant, identity, registered, log>>
        /\ inflight' = IF tool \in ReadTools THEN inflight ELSE inflight \cup {new}
    BY <1>2 DEF CallTool, sessionVars
  <2>2. tool \notin ReadTools => Admitted(new)
    BY <1>2, CallAdmits
  <2> HIDE DEF new
  <2>3. ASSUME NEW call \in inflight' PROVE Admitted(call)'
    <3>1. Admitted(call)
      BY <1>0, <2>1, <2>2, <2>3
    <3> QED BY <2>1, <3>1 DEF Admitted, ResolveActor, Confirmed, Free, Resolved, Get, VersionsOf
  <2> QED BY <1>0, <2>1, <2>3 DEF SurfaceInv, SessionsStayWithinGrant, Confirmed, RegistryInv, VersionsOf
<1>3. ASSUME NEW call \in inflight, ServeStage(call) \/ ServeOther(call), inflight' = inflight \ {call},
             UNCHANGED <<sessionVars, registered, toolCalls>>
      PROVE  SurfaceInv' /\ SessionsStayWithinGrant'
  <2>1. UNCHANGED <<grant, identity, registered>>
    BY <1>3 DEF sessionVars
  <2>2. SurfaceInv'
    BY <1>0, <1>3, <2>1
       DEF SurfaceInv, Admitted, ResolveActor, Confirmed, Free, Resolved, Get, VersionsOf, RegistryInv
  <2>3. Admitted(call)
    BY <1>0
  <2> DEFINE Fits(e) ==
        /\ Takes[e.effect] \in grant[e.session]
        /\ e.definition # Unset /\ e.definition.requiresAuthorization => "spend" \in grant[e.session]
        /\ e.tookOver => "stage:force" \in grant[e.session]
        /\ e.actor.kind = "human" => /\ Confirmed(identity[e.session])
                                     /\ e.actor.id = identity[e.session].operator.id
  <2>4. Takes[EffectOf[call.tool]] \in grant[call.session]
    BY <2>3, EffectsTake DEF Admitted
  <2>5. call.actor.kind = "human" => /\ Confirmed(identity[call.session])
                                     /\ call.actor.id = identity[call.session].operator.id
    BY <2>3 DEF Admitted, ResolveActor
  <2>6. ASSUME NEW definition, NEW took,
               definition # Unset /\ definition.requiresAuthorization => "spend" \in grant[call.session],
               took => "stage:force" \in grant[call.session],
               Done(call, definition, took)
        PROVE  SessionsStayWithinGrant'
    <3> DEFINE new == [session |-> call.session, effect |-> EffectOf[call.tool], actor |-> call.actor,
                       definition |-> definition, tookOver |-> took]
    <3>1. log' = log \cup {new}
      BY <2>6 DEF Done
    <3>2. /\ new.session = call.session /\ new.effect = EffectOf[call.tool] /\ new.actor = call.actor
          /\ new.definition = definition /\ new.tookOver = took
      OBVIOUS
    <3> HIDE DEF new
    <3>3. Fits(new)
      BY <2>4, <2>5, <2>6, <3>2, Zenon
    <3>4. \A e \in log : Fits(e)
      BY DEF SessionsStayWithinGrant
    <3>5. \A e \in log' : Fits(e)
      BY <3>1, <3>3, <3>4
    <3> QED BY <2>1, <3>5 DEF SessionsStayWithinGrant, Confirmed
  <2>7. ASSUME ServeStage(call) PROVE SessionsStayWithinGrant'
    <3>1. ASSUME NEW d \in Resolved(call.args), NEW took \in {FALSE, call.args.force}, Done(call, d, took)
          PROVE  SessionsStayWithinGrant'
      <4>1. call.args.force => "stage:force" \in grant[call.session]
        BY <2>3, <2>7 DEF Admitted, ServeStage
      <4>2. "spend" \in grant[call.session] \/ ~d.requiresAuthorization
        BY <2>3, <2>7, <3>1 DEF Admitted, ServeStage, Free
      <4> QED BY <2>6, <3>1, <4>1, <4>2, Zenon
    <3>2. ASSUME UNCHANGED log PROVE SessionsStayWithinGrant'
      BY <2>1, <3>2 DEF SessionsStayWithinGrant, Confirmed
    <3> QED BY <2>7, <3>1, <3>2, Zenon DEF ServeStage, Resolve
  <2>8. ASSUME ServeOther(call) PROVE SessionsStayWithinGrant'
    <3>1. ASSUME UNCHANGED log PROVE SessionsStayWithinGrant'
      BY <2>1, <3>1 DEF SessionsStayWithinGrant, Confirmed
    <3>2. ASSUME Done(call, Unset, FALSE) PROVE SessionsStayWithinGrant'
      BY <2>6, <3>2, Zenon
    <3> QED BY <2>8, <3>1, <3>2 DEF ServeOther
  <2> QED BY <1>3, <2>2, <2>7, <2>8
<1>4. CASE UNCHANGED surfaceVars
  BY <1>0, <1>4 DEF surfaceVars, sessionVars, SurfaceInv, SessionsStayWithinGrant, RegistryInv, Admitted, ResolveActor,
       Confirmed, Free, Resolved, Get, VersionsOf
<1> QED BY <1>1, <1>2, <1>3, <1>4 DEF SurfaceNext

(* Whatever sessions connect, register and call, in whatever order their    *)
(* calls end: nobody takes an effect without its capability, and a stage    *)
(* that may spend is reached only by who may spend (mcp server.ts, registry.ts).*)
THEOREM Granted == SurfaceSpec => []SessionsStayWithinGrant
<1>1. SurfaceInit => SurfaceInv /\ SessionsStayWithinGrant
  <2> SUFFICES ASSUME SurfaceInit PROVE SurfaceInv /\ SessionsStayWithinGrant
    OBVIOUS
  <2>1. registered = {} /\ inflight = {} /\ log = {}
    BY DEF SurfaceInit
  <2>2. ASSUME NEW id PROVE IsFiniteSet(VersionsOf(id))
    <3>1. VersionsOf(id) = {}
      BY <2>1 DEF VersionsOf
    <3> QED BY <3>1, FS_EmptySet
  <2> QED BY <2>1, <2>2 DEF SurfaceInv, SessionsStayWithinGrant, RegistryInv
<1> QED BY <1>1, SurfaceSteps, PTL DEF SurfaceSpec

(* What an entry of the trail and an end of an invocation must look like.   *)
HonestEntry(e) ==
  LET i == e.call.of
  IN  /\ e.recordedBy # NotGiven
      /\ e.decidedBy # e.recordedBy => i.verbatim \notin {NotGiven, ""}
      /\ e.effect \in {"finding", "investigation", "abandonment", "judgement"} => e.decidedBy.kind = "human"
      /\ e.effect \in {"judgement", "change"} => e.decidedBy = e.recordedBy
      /\ i.workspace.leading = NotGiven \/ i.workspace.after = NotGiven => e.workspace = BoundWorkspace(i)

Truthful(i, code, recorded) ==
  /\ code = ExitCodes.success /\ VerbOf[i] \in Judgements \ {"settleSpend"} => recorded
  /\ Previewed(i) => ~recorded
  /\ recorded => RowsOf(i) # {} /\ VerbOf[i] \notin Reads
  /\ recorded /\ VerbOf[i] \in Judgements => code # ExitCodes.refused
  /\ ~Invalid(i) /\ VerbOf[i] \in GateVerbs /\ ActorOf(i) # NotGiven /\ Decider(i).kind \notin PermittedKinds[i.id]
       => code = ExitCodes.refused

Recorded(call) == \E e \in trail : e.call = call

(* An invocation is under way, or it has ended and may have left something. *)
Numbered(call) == call.number \in Nat /\ call.number < started

(* What the check of a judgement established of who makes it.               *)
LetThrough(call) ==
  LET i == call.of
  IN  /\ ActorOf(i) # NotGiven
      /\ VerbOf[i] \in {"settleSpend", "abandonDispatch"} => ~NotHuman(i)
      /\ VerbOf[i] = "decideTake" => ~TakeRefused(i)

CliInv ==
  /\ started \in Nat /\ checked \subseteq calls
  /\ \A call \in checked : VerbOf[call.of] \in {"settleSpend", "abandonDispatch", "decideTake"} /\ LetThrough(call)
  /\ \A call \in calls : Numbered(call) /\ call.of \in Invocation /\ ~Invalid(call.of)
  /\ \A e \in trail : Numbered(e.call) /\ e.call \notin calls /\ HonestEntry(e)
  /\ \A x \in exits : Numbered(x.call) /\ x.call \notin calls /\ Truthful(x.call.of, x.code, Recorded(x.call))

(* What is on record of the reservation, and what has been answered about it. *)
Backed(i) == Says(i) \in OnRecord("finding") \cup OnRecord("investigation")

Standing ==
  /\ \A e \in trail : e.effect \in {"finding", "abandonment"} => reservation # "reserved"
  /\ ReservationIsDecidedOnce
  /\ \A x \in exits : x.code = ExitCodes.success /\ VerbOf[x.call.of] = "settleSpend" => Backed(x.call.of)

(* How a call may end.                                                      *)
Entry(call, effect) ==
  [call |-> call, effect |-> effect, decidedBy |-> Decider(call.of),
   recordedBy |-> Recorder(call.of), workspace |-> Workspace(call.of)]

EndsWith(call, code) ==
  /\ exits' = exits \cup {[call |-> call, code |-> code]}
  /\ \/ UNCHANGED trail /\ Truthful(call.of, code, FALSE)
     \/ \E e : e.call = call /\ HonestEntry(e) /\ trail' = trail \cup {e} /\ Truthful(call.of, code, TRUE)

Ends(call) == \E code : EndsWith(call, code) /\ calls' = calls \ {call} /\ checked' = checked \ {call}

LEMMA Honestly == CliInv /\ Standing => InvocationsAreHonest
<1> SUFFICES ASSUME CliInv, Standing PROVE InvocationsAreHonest
  OBVIOUS
<1>1. \A e \in trail : HonestEntry(e)
  BY DEF CliInv
<1>2. \A x \in exits : Truthful(x.call.of, x.code, Recorded(x.call))
  BY DEF CliInv
<1>3. TrailIsHonest /\ OneWorkspace
  BY <1>1 DEF TrailIsHonest, OneWorkspace, HonestEntry
<1>4. ExitsTellTheTruth
  <2>1. \A x \in exits : x.code = ExitCodes.success /\ VerbOf[x.call.of] = "settleSpend" => Backed(x.call.of)
    BY DEF Standing
  <2> QED BY <1>2, <2>1, Zenon DEF ExitsTellTheTruth, Truthful, Recorded, Backed
<1> QED BY <1>3, <1>4 DEF InvocationsAreHonest, Standing

(* A valid invocation decides with somebody's words or in its own name.     *)
LEMMA Attributed ==
  ASSUME NEW i \in Invocation, ~Invalid(i)
  PROVE  /\ Decider(i) # ActorOf(i) => i.verbatim \notin {NotGiven, ""}
         /\ VerbOf[i] \notin Transcribing => Decider(i) = ActorOf(i)
         /\ RowsOf(i) # {}
<1>1. ~Unknown(i) /\ ~TranscriptionRefused(i)
  BY DEF Invalid
<1>2. RowsOf(i) # {} /\ (VerbOf[i] \notin Transcribing => i.decidedBy = NotGiven)
  BY <1>1, Zenon DEF Unknown
<1>3. VerbOf[i] \in Transcribing => ~HalfTranscribed(i)
  BY <1>1 DEF TranscriptionRefused
<1> QED BY <1>2, <1>3 DEF Decider, Either, HalfTranscribed

(* What shows a release instead of executing it is a read.                  *)
LEMMA PreviewReads ==
  ASSUME NEW i \in Invocation, Previewed(i), RowsOf(i) # {}
  PROVE  VerbOf[i] \in Reads
<1>1. PICK row \in RowsOf(i) : RowOf(i) = row
  BY DEF RowOf
<1>2. row \in Commands /\ row.command = "release" /\ row.sub = "execute"
  BY DEF RowsOf, Previewed
<1>3. row.verb = "executeRelease"
  BY <1>2, SMTT(60) DEF Commands, RunCommands, GateCommands, RecordCommands, SpendCommands, ReleaseCommands, TtsCommands,
       TakeCommands, Row
<1>4. DryRun(i, RowOf(i).verb)
  BY <1>1, <1>3 DEF DryRun, Previewed
<1>5. VerbOf[i] = "releaseBundleStatus"
  BY <1>4, Zenon DEF VerbOf
<1> QED BY <1>5 DEF Reads

LEMMA WorkspaceBound ==
  ASSUME NEW i, i.workspace.leading = NotGiven \/ i.workspace.after = NotGiven
  PROVE  Workspace(i) = BoundWorkspace(i)
BY DEF Workspace, BoundWorkspace, FlagValue, Either

LEMMA EntryIsHonest ==
  ASSUME NEW call, call.of \in Invocation, ~Invalid(call.of), ActorOf(call.of) # NotGiven,
         NEW effect \in {"decision", "finding", "investigation", "abandonment", "judgement", "change"},
         effect \in {"finding", "investigation", "abandonment", "judgement"} => Decider(call.of).kind = "human",
         effect \in {"judgement", "change"} => VerbOf[call.of] \notin Transcribing
  PROVE  HonestEntry(Entry(call, effect))
<1> DEFINE e == Entry(call, effect)
<1>1. /\ e.call = call /\ e.effect = effect /\ e.decidedBy = Decider(call.of) /\ e.recordedBy = ActorOf(call.of)
      /\ e.workspace = Workspace(call.of)
  BY DEF Entry, Recorder
<1> HIDE DEF e
<1>2. HonestEntry(e)
  BY <1>1, Attributed, WorkspaceBound, Zenon DEF HonestEntry
<1> QED BY <1>2 DEF e

(* What ends without a trace, and what ends with one.                       *)
LEMMA EndsQuietly ==
  ASSUME NEW call, call.of \in Invocation, NEW outcome \in DOMAIN ExitCodes, Answer(call, outcome), UNCHANGED trail,
         outcome = "success" => VerbOf[call.of] \notin Judgements \ {"settleSpend"},
         VerbOf[call.of] \in GateVerbs /\ ActorOf(call.of) # NotGiven
           /\ Decider(call.of).kind \notin PermittedKinds[call.of.id] => outcome = "refused"
  PROVE  Ends(call)
<1>1. /\ exits' = exits \cup {[call |-> call, code |-> ExitCodes[outcome]]}
      /\ calls' = calls \ {call} /\ checked' = checked \ {call}
  BY DEF Exit, Answer
<1>2. ExitCodes[outcome] = ExitCodes.success <=> outcome = "success"
  BY DEF ExitCodes
<1>3. outcome = "refused" => ExitCodes[outcome] = ExitCodes.refused
  OBVIOUS
<1>4. Truthful(call.of, ExitCodes[outcome], FALSE)
  BY <1>2, <1>3, Zenon DEF Truthful
<1> QED BY <1>1, <1>4, Zenon DEF Ends, EndsWith

LEMMA EndsOnRecord ==
  ASSUME NEW call, call.of \in Invocation, ~Invalid(call.of), NEW outcome \in DOMAIN ExitCodes, Answer(call, outcome),
         NEW effect, Record(call, effect), HonestEntry(Entry(call, effect)),
         VerbOf[call.of] \notin Reads,
         VerbOf[call.of] \in Judgements => outcome # "refused",
         VerbOf[call.of] \in GateVerbs => Decider(call.of).kind \in PermittedKinds[call.of.id]
  PROVE  Ends(call)
<1>1. /\ exits' = exits \cup {[call |-> call, code |-> ExitCodes[outcome]]}
      /\ calls' = calls \ {call} /\ checked' = checked \ {call}
  BY DEF Exit, Answer
<1>2. trail' = trail \cup {Entry(call, effect)} /\ Entry(call, effect).call = call
  BY DEF Record, Entry
<1>3. RowsOf(call.of) # {} /\ ~Previewed(call.of)
  BY Attributed, PreviewReads
<1>4. outcome # "refused" => ExitCodes[outcome] # ExitCodes.refused
  BY DEF ExitCodes
<1>5. Truthful(call.of, ExitCodes[outcome], TRUE)
  BY <1>3, <1>4, Zenon DEF Truthful
<1> QED BY <1>1, <1>2, <1>5, Zenon DEF Ends, EndsWith

(* Every verb ends in one of these ways, or goes on to what it writes.      *)
Passes(call) == checked' = checked \cup {call} /\ UNCHANGED <<calls, exits, trail>>

LEMMA VerbSets ==
  /\ {"success", "error", "refused", "unsuccessful"} = DOMAIN ExitCodes
  /\ GateVerbs \cap Reads = {} /\ Judgements \cap Reads = {} /\ GateVerbs \subseteq Judgements
  /\ "decideTake" \notin GateVerbs \cup Transcribing \cup Reads /\ Transcribing \subseteq Judgements
  /\ Judgements \ GateVerbs = {"settleSpend", "abandonDispatch", "decideTake"}
BY DEF GateVerbs, SpendVerbs, Reads, Transcribing, Judgements, ExitCodes

LEMMA VerbsCheck ==
  ASSUME NEW call, call.of \in Invocation, ~Invalid(call.of), Check(call)
  PROVE  Ends(call) \/ (Passes(call) /\ VerbOf[call.of] \in {"settleSpend", "abandonDispatch", "decideTake"} /\ LetThrough(call))
<1> DEFINE i == call.of
<1>1. VerbOf[i] \in {"settleSpend", "abandonDispatch", "decideTake"} /\ ActorOf(i) # NotGiven /\ UNCHANGED trail
  BY VerbSets DEF Check
<1>2. ASSUME NEW outcome \in {"refused", "error"}, Answer(call, outcome) PROVE Ends(call)
  BY <1>1, <1>2, VerbSets, EndsQuietly
<1>3. ASSUME ~Refused(i), checked' = checked \cup {call}, UNCHANGED <<calls, exits>> PROVE Passes(call) /\ LetThrough(call)
  BY <1>1, <1>3 DEF Passes, LetThrough, Refused, SettlementRefused, AbandonmentRefused
<1> QED BY <1>1, <1>2, <1>3 DEF Check

LEMMA VerbsEnd ==
  ASSUME CliInv, NEW call \in calls,
         \/ Unattributed(call) \/ Read(call) \/ DecideGate(call) \/ Change(call) \/ Stops(call)
         \/ CliSettleSpend(call) \/ CliAbandonDispatch(call) \/ CliDecideTake(call)
  PROVE  Ends(call)
<1> DEFINE i == call.of
<1>1. /\ i \in Invocation /\ ~Invalid(i)
      /\ call \in checked => VerbOf[i] \in {"settleSpend", "abandonDispatch", "decideTake"} /\ LetThrough(call)
  BY DEF CliInv
<1>2. ASSUME Unattributed(call) PROVE Ends(call)
  BY <1>1, <1>2, VerbSets, EndsQuietly DEF Unattributed
<1>3. ASSUME Read(call) PROVE Ends(call)
  BY <1>1, <1>3, VerbSets, EndsQuietly DEF Read
<1>4. ASSUME DecideGate(call) PROVE Ends(call)
  <2>1. VerbOf[i] \in GateVerbs /\ ActorOf(i) # NotGiven
    BY <1>4 DEF DecideGate
  <2>2. ASSUME NotPermitted(i), Answer(call, "refused"), UNCHANGED trail PROVE Ends(call)
    BY <1>1, <2>1, <2>2, VerbSets, EndsQuietly
  <2>3. ASSUME ~NotPermitted(i), Answer(call, "error"), UNCHANGED trail PROVE Ends(call)
    BY <1>1, <2>1, <2>3, VerbSets, EndsQuietly DEF NotPermitted
  <2>4. ASSUME ~NotPermitted(i), Record(call, "decision"), NEW outcome \in {"success", "error"}, Answer(call, outcome)
        PROVE  Ends(call)
    <3>1. HonestEntry(Entry(call, "decision"))
      BY <1>1, <2>1, EntryIsHonest
    <3> QED BY <1>1, <2>1, <2>4, <3>1, VerbSets, EndsOnRecord DEF NotPermitted
  <2> QED BY <1>4, <2>2, <2>3, <2>4 DEF DecideGate
<1>5. ASSUME Stops(call) PROVE Ends(call)
  BY <1>1, <1>5, VerbSets, EndsQuietly DEF Stops
<1>6. ASSUME CliSettleSpend(call) PROVE Ends(call)
  <2>1. VerbOf[i] = "settleSpend" /\ ActorOf(i) # NotGiven /\ Decider(i).kind = "human"
    BY <1>1, <1>6 DEF CliSettleSpend, LetThrough, NotHuman
  <2>2. ASSUME NEW outcome \in {"success", "error"}, Answer(call, outcome), UNCHANGED trail PROVE Ends(call)
    BY <1>1, <2>1, <2>2, VerbSets, EndsQuietly
  <2>3. ASSUME NEW outcome \in {"success", "error"}, Answer(call, outcome),
               NEW noted \in {"finding", "investigation"}, Record(call, noted)
        PROVE  Ends(call)
    <3>1. HonestEntry(Entry(call, noted))
      BY <1>1, <2>1, EntryIsHonest
    <3> QED BY <1>1, <2>1, <2>3, <3>1, VerbSets, EndsOnRecord
  <2>4. ASSUME NEW outcome \in {"success", "error"}, Answer(call, outcome),
               NEW noted \in {"finding", "investigation"}, SaidOnce(call, noted)
        PROVE  Ends(call)
    BY <2>2, <2>3, <2>4 DEF SaidOnce
  <2> QED BY <1>6, <2>2, <2>4 DEF CliSettleSpend
<1>7. ASSUME CliAbandonDispatch(call) PROVE Ends(call)
  <2>1. VerbOf[i] = "abandonDispatch" /\ ActorOf(i) # NotGiven /\ Decider(i).kind = "human"
    BY <1>1, <1>7 DEF CliAbandonDispatch, LetThrough, NotHuman
  <2>2. ASSUME Answer(call, "error"), UNCHANGED trail PROVE Ends(call)
    BY <1>1, <2>1, <2>2, VerbSets, EndsQuietly
  <2>3. ASSUME Record(call, "abandonment"), NEW outcome \in {"success", "error"}, Answer(call, outcome) PROVE Ends(call)
    <3>1. HonestEntry(Entry(call, "abandonment"))
      BY <1>1, <2>1, EntryIsHonest
    <3> QED BY <1>1, <2>1, <2>3, <3>1, VerbSets, EndsOnRecord
  <2> QED BY <1>7, <2>2, <2>3 DEF CliAbandonDispatch
<1>8. ASSUME CliDecideTake(call) PROVE Ends(call)
  <2>1. /\ VerbOf[i] = "decideTake" /\ ActorOf(i) # NotGiven /\ ActorOf(i).kind \in TakeKinds
        /\ Record(call, "judgement") /\ \E outcome \in {"success", "error"} : Answer(call, outcome)
    BY <1>1, <1>8 DEF CliDecideTake, LetThrough, TakeRefused
  <2>2. Decider(i).kind = "human"
    BY <1>1, <2>1, VerbSets, Attributed DEF TakeKinds
  <2>3. HonestEntry(Entry(call, "judgement"))
    BY <1>1, <2>1, <2>2, VerbSets, EntryIsHonest
  <2> QED BY <1>1, <2>1, <2>3, VerbSets, EndsOnRecord
<1>9. ASSUME Change(call) PROVE Ends(call)
  <2>1. VerbOf[i] \notin Reads \cup Judgements /\ ActorOf(i) # NotGiven
    BY <1>9 DEF Change
  <2>2. ASSUME NEW outcome \in DOMAIN ExitCodes, Answer(call, outcome), UNCHANGED trail PROVE Ends(call)
    BY <1>1, <2>1, <2>2, VerbSets, EndsQuietly
  <2>3. ASSUME Record(call, "change"), NEW outcome \in DOMAIN ExitCodes, Answer(call, outcome) PROVE Ends(call)
    <3>1. HonestEntry(Entry(call, "change"))
      BY <1>1, <2>1, VerbSets, EntryIsHonest
    <3> QED BY <1>1, <2>1, <2>3, <3>1, VerbSets, EndsOnRecord
  <2> QED BY <1>9, <2>2, <2>3 DEF Change
<1> QED BY <1>2, <1>3, <1>4, <1>5, <1>6, <1>7, <1>8, <1>9

(* What was settled at the start stays: so does all that is read off it.    *)
LEMMA SettingsStay ==
  ASSUME UNCHANGED settings
  PROVE  /\ \A i : ActorOf(i)' = ActorOf(i) /\ BoundWorkspace(i)' = BoundWorkspace(i)
         /\ \A i : Invalid(i)' <=> Invalid(i)
         /\ \A e : HonestEntry(e)' <=> HonestEntry(e)
         /\ \A i, code, recorded : Truthful(i, code, recorded)' <=> Truthful(i, code, recorded)
         /\ \A call : LetThrough(call)' <=> LetThrough(call)
         /\ \A i : Says(i)' = Says(i)
<1>1. host' = host /\ config' = config /\ shell' = shell
  BY DEF settings
<1>2. \A i : ActorOf(i)' = ActorOf(i) /\ BoundWorkspace(i)' = BoundWorkspace(i)
  BY <1>1 DEF ActorOf, BoundWorkspace, FlagValue, Either
<1>3. \A i : Invalid(i)' <=> Invalid(i)
  <2>1. \A i : StagesUnconfigured(i)' <=> StagesUnconfigured(i)
    BY <1>1 DEF StagesUnconfigured, Merged
  <2>2. \A i : Unknown(i)' <=> Unknown(i)
    BY <1>2 DEF Unknown
  <2> QED BY <2>1, <2>2 DEF Invalid, EpisodeUnnamed, SubjectMissing, TranscriptionRefused, HalfTranscribed, DispositionUnclear,
                            ActorParses
<1>4. \A e : HonestEntry(e)' <=> HonestEntry(e)
  BY <1>2 DEF HonestEntry
<1>5. \A i, code, recorded : Truthful(i, code, recorded)' <=> Truthful(i, code, recorded)
  BY <1>2, <1>3 DEF Truthful, Decider
<1>6. (\A call : LetThrough(call)' <=> LetThrough(call)) /\ \A i : Says(i)' = Says(i)
  BY <1>2 DEF LetThrough, NotHuman, TakeRefused, Decider, Says
<1> QED BY <1>2, <1>3, <1>4, <1>5, <1>6

LEMMA CallEnds ==
  ASSUME CliInv, NEW call \in calls, Ends(call), UNCHANGED settings, started' = started
  PROVE  CliInv'
<1>1. PICK code : EndsWith(call, code) /\ calls' = calls \ {call} /\ checked' = checked \ {call}
  BY DEF Ends
<1>0. /\ checked' \subseteq calls'
      /\ \A c \in checked' : VerbOf[c.of] \in {"settleSpend", "abandonDispatch", "decideTake"} /\ LetThrough(c)'
  BY <1>1, SettingsStay DEF CliInv
<1> DEFINE end == [call |-> call, code |-> code]
<1>2. end.call = call /\ end.code = code /\ exits' = exits \cup {end}
  BY <1>1 DEF EndsWith
<1> HIDE DEF end
<1>3. Numbered(call) /\ (\A c : Numbered(c)' <=> Numbered(c)) /\ started' \in Nat
  BY DEF CliInv, Numbered
<1>4. \A c \in calls' : Numbered(c)' /\ c.of \in Invocation /\ ~Invalid(c.of)'
  BY <1>1, <1>3, SettingsStay DEF CliInv
<1>5. \A e \in trail : e.call # call
  BY DEF CliInv
<1>6. ASSUME NEW e \in trail' PROVE Numbered(e.call)' /\ e.call \notin calls' /\ HonestEntry(e)'
  <2>1. e \in trail \/ (e.call = call /\ HonestEntry(e))
    BY <1>1 DEF EndsWith
  <2> QED BY <1>1, <1>3, <2>1, SettingsStay DEF CliInv
<1>7. \A c : c # call => (Recorded(c)' <=> Recorded(c))
  BY <1>1 DEF EndsWith, Recorded
<1>8. Truthful(call.of, code, Recorded(call)')
  <2>1. ASSUME UNCHANGED trail, Truthful(call.of, code, FALSE) PROVE Truthful(call.of, code, Recorded(call)')
    <3>1. Recorded(call)' <=> FALSE
      BY <1>5, <2>1 DEF Recorded
    <3> QED BY <2>1, <3>1, Zenon DEF Truthful
  <2>2. ASSUME NEW e, e.call = call, trail' = trail \cup {e}, Truthful(call.of, code, TRUE)
        PROVE  Truthful(call.of, code, Recorded(call)')
    <3>1. Recorded(call)' <=> TRUE
      BY <2>2 DEF Recorded
    <3> QED BY <2>2, <3>1, Zenon DEF Truthful
  <2> QED BY <1>1, <2>1, <2>2 DEF EndsWith
<1>9. ASSUME NEW x \in exits'
      PROVE  Numbered(x.call)' /\ x.call \notin calls' /\ Truthful(x.call.of, x.code, Recorded(x.call))'
  <2>1. CASE x = end
    BY <1>1, <1>2, <1>3, <1>8, <2>1, SettingsStay
  <2>2. CASE x \in exits
    <3>1. Numbered(x.call) /\ x.call \notin calls /\ Truthful(x.call.of, x.code, Recorded(x.call)) /\ x.call # call
      BY <2>2 DEF CliInv
    <3>2. Recorded(x.call)' <=> Recorded(x.call)
      BY <1>7, <3>1
    <3>3. Truthful(x.call.of, x.code, Recorded(x.call)')
      BY <3>1, <3>2, Zenon DEF Truthful
    <3> QED BY <1>1, <1>3, <3>1, <3>3, SettingsStay
  <2> QED BY <1>2, <2>1, <2>2
<1> QED BY <1>0, <1>3, <1>4, <1>6, <1>9 DEF CliInv

LEMMA RunKeeps ==
  ASSUME CliInv, NEW i \in Invocation, Run(i)
  PROVE  CliInv'
<1>0. PICK call : call = [number |-> started, of |-> i]
  OBVIOUS
<1>1. /\ UNCHANGED settings /\ trail' = trail /\ checked' = checked /\ started' = started + 1 /\ started \in Nat
      /\ \/ Exit(call, "refused") /\ TakeUnattributed(i) /\ UNCHANGED calls
         \/ Exit(call, "error") /\ UNCHANGED calls /\ Invalid(i)
         \/ ~Invalid(i) /\ calls' = calls \cup {call} /\ UNCHANGED exits
  BY <1>0 DEF Run, CliInv
<1>2. call.number = started /\ call.of = i
  BY <1>0
<1>3. /\ started' \in Nat /\ Numbered(call)' /\ ~Numbered(call)
      /\ \A c : Numbered(c) => Numbered(c)' /\ c # call
  <2>1. started \in Nat /\ started' = started + 1 /\ call.number = started
    BY <1>1, <1>2
  <2>2. started' \in Nat /\ Numbered(call)' /\ ~Numbered(call)
    BY <2>1 DEF Numbered
  <2>3. ASSUME NEW c, Numbered(c) PROVE Numbered(c)' /\ c # call
    BY <2>1, <2>3 DEF Numbered
  <2> QED BY <2>2, <2>3
<1>4. /\ \A c : Recorded(c)' <=> Recorded(c)
      /\ call \notin calls /\ ~Recorded(call)
  BY <1>1, <1>3 DEF Recorded, CliInv
<1>9. \A c \in checked' : VerbOf[c.of] \in {"settleSpend", "abandonDispatch", "decideTake"} /\ LetThrough(c)'
  BY <1>1, SettingsStay DEF CliInv
<1>10. checked' \subseteq calls'
  BY <1>1 DEF CliInv
<1>5. ASSUME NEW c \in calls' PROVE Numbered(c)' /\ c.of \in Invocation /\ ~Invalid(c.of)'
  <2>1. c \in calls \/ (c = call /\ ~Invalid(i))
    BY <1>1
  <2>2. (Numbered(c) \/ c = call) /\ c.of \in Invocation /\ ~Invalid(c.of)
    BY <1>2, <2>1 DEF CliInv
  <2> QED BY <1>1, <1>3, <2>2, SettingsStay
<1>6. \A e \in trail' : Numbered(e.call)' /\ e.call \notin calls' /\ HonestEntry(e)'
  BY <1>1, <1>3, SettingsStay DEF CliInv
<1>7. ASSUME NEW outcome \in {"refused", "error"}, Exit(call, outcome), UNCHANGED calls,
             Invalid(i) \/ outcome = "refused"
      PROVE  CliInv'
  <2> DEFINE end == [call |-> call, code |-> ExitCodes[outcome]]
  <2>1. end.call = call /\ end.code = ExitCodes[outcome] /\ exits' = exits \cup {end}
    BY <1>7 DEF Exit
  <2> HIDE DEF end
  <2>2. ExitCodes[outcome] # ExitCodes.success /\ (outcome = "refused" => ExitCodes[outcome] = ExitCodes.refused)
    BY DEF ExitCodes
  <2>3. Truthful(i, ExitCodes[outcome], Recorded(call))
    BY <1>4, <1>7, <2>2, Zenon DEF Truthful
  <2>4. ASSUME NEW x \in exits'
        PROVE  Numbered(x.call)' /\ x.call \notin calls' /\ Truthful(x.call.of, x.code, Recorded(x.call))'
    <3>1. /\ x.call \notin calls /\ (Numbered(x.call) \/ x.call = call)
          /\ Truthful(x.call.of, x.code, Recorded(x.call))
      BY <1>2, <1>4, <2>1, <2>3, <2>4 DEF CliInv
    <3>2. Truthful(x.call.of, x.code, Recorded(x.call)')
      BY <1>4, <3>1, Zenon DEF Truthful
    <3>3. Truthful(x.call.of, x.code, Recorded(x.call))'
      BY <1>1, <3>2, SettingsStay
    <3> QED BY <1>3, <1>7, <3>1, <3>3
  <2> QED BY <1>3, <1>5, <1>6, <1>9, <1>10, <2>4 DEF CliInv
<1>8. ASSUME ~Invalid(i), calls' = calls \cup {call}, UNCHANGED exits PROVE CliInv'
  <2>1. ASSUME NEW x \in exits'
        PROVE  Numbered(x.call)' /\ x.call \notin calls' /\ Truthful(x.call.of, x.code, Recorded(x.call))'
    <3>1. x.call \notin calls /\ Numbered(x.call) /\ Truthful(x.call.of, x.code, Recorded(x.call))
      BY <1>8 DEF CliInv
    <3>2. Truthful(x.call.of, x.code, Recorded(x.call)')
      BY <1>4, <3>1, Zenon DEF Truthful
    <3> QED BY <1>1, <1>3, <1>8, <3>1, <3>2, SettingsStay
  <2> QED BY <1>3, <1>5, <1>6, <1>9, <1>10, <2>1 DEF CliInv
<1> QED BY <1>1, <1>7, <1>8

LEMMA CallPasses ==
  ASSUME CliInv, NEW call \in calls, Passes(call), LetThrough(call), UNCHANGED settings, started' = started,
         VerbOf[call.of] \in {"settleSpend", "abandonDispatch", "decideTake"}
  PROVE  CliInv'
<1>1. (\A c : Numbered(c)' <=> Numbered(c)) /\ (\A c : Recorded(c)' <=> Recorded(c)) /\ started' \in Nat
  BY DEF Numbered, Recorded, CliInv, Passes
<1>2. checked' \subseteq calls' /\ \A c \in checked' : VerbOf[c.of] \in {"settleSpend", "abandonDispatch", "decideTake"} /\ LetThrough(c)'
  BY SettingsStay DEF CliInv, Passes
<1>3. ASSUME NEW x \in exits' PROVE Truthful(x.call.of, x.code, Recorded(x.call))'
  <2>1. Truthful(x.call.of, x.code, Recorded(x.call))
    BY DEF CliInv, Passes
  <2>2. Truthful(x.call.of, x.code, Recorded(x.call)')
    BY <1>1, <2>1, Zenon DEF Truthful
  <2> QED BY <2>2, SettingsStay
<1> QED BY <1>1, <1>2, <1>3, SettingsStay DEF CliInv, Passes

LEMMA CliSteps ==
  ASSUME CliInv, [CliNext]_cliVars
  PROVE  CliInv'
<1>1. ASSUME NEW i \in Invocation, Run(i) PROVE CliInv'
  BY <1>1, RunKeeps
<1>2. ASSUME NEW call \in calls, ServeInvocation(call) PROVE CliInv'
  <2>1. call.of \in Invocation /\ ~Invalid(call.of)
    BY DEF CliInv
  <2>2. UNCHANGED settings /\ started' = started
    BY <1>2 DEF ServeInvocation
  <2>3. CASE Check(call)
    BY <2>1, <2>2, <2>3, VerbsCheck, CallEnds, CallPasses
  <2>4. CASE \/ Unattributed(call) \/ Read(call) \/ DecideGate(call) \/ Change(call) \/ Stops(call)
             \/ CliSettleSpend(call) \/ CliAbandonDispatch(call) \/ CliDecideTake(call)
    BY <2>2, <2>4, VerbsEnd, CallEnds
  <2> QED BY <1>2, <2>3, <2>4 DEF ServeInvocation
<1>3. ASSUME UNCHANGED <<settings, calls, checked, trail, exits, started>> PROVE CliInv'
  <2>1. (\A c : Numbered(c)' <=> Numbered(c)) /\ (\A c : Recorded(c)' <=> Recorded(c)) /\ started' \in Nat
    BY <1>3 DEF Numbered, Recorded, CliInv
  <2>2. ASSUME NEW x \in exits' PROVE Truthful(x.call.of, x.code, Recorded(x.call))'
    <3>1. Truthful(x.call.of, x.code, Recorded(x.call))
      BY <1>3 DEF CliInv
    <3>2. Truthful(x.call.of, x.code, Recorded(x.call)')
      BY <2>1, <3>1, Zenon DEF Truthful
    <3> QED BY <1>3, <3>2, SettingsStay
  <2> QED BY <1>3, <2>1, <2>2, SettingsStay DEF CliInv
<1> QED BY <1>1, <1>2, <1>3 DEF CliNext, DispatchEnds, cliVars

(* A finding is added where none contradicts it, an abandonment where the     *)
(* reservation was reserved, which it never is again.                       *)
MayBeAdded(call, effect) ==
  /\ trail' = trail \cup {Entry(call, effect)}
  /\ effect = "finding" => reservation # "reserved" /\ ~Contradicted(call.of)
  /\ effect = "abandonment" => reservation = "reserved" /\ reservation' # "reserved"

LEMMA StandingGrows ==
  ASSUME Standing, UNCHANGED settings, NEW call, NEW code,
         reservation # "reserved" => reservation' # "reserved",
         UNCHANGED trail \/ \E effect : MayBeAdded(call, effect),
         exits' \subseteq exits \cup {[call |-> call, code |-> code]},
         code = ExitCodes.success /\ VerbOf[call.of] = "settleSpend" => Backed(call.of)'
  PROVE  Standing'
<1>1. \A i : Says(i)' = Says(i)
  BY SettingsStay
<1>2. \A effect : OnRecord(effect) \subseteq OnRecord(effect)'
  BY <1>1 DEF OnRecord, MayBeAdded
<1>3. ASSUME NEW x \in exits', x.code = ExitCodes.success, VerbOf[x.call.of] = "settleSpend" PROVE Backed(x.call.of)'
  <2>1. CASE x \in exits
    BY <1>1, <1>2, <1>3, <2>1 DEF Standing, Backed
  <2>2. CASE x = [call |-> call, code |-> code]
    BY <1>3, <2>2
  <2> QED BY <2>1, <2>2
<1>4. CASE UNCHANGED trail
  BY <1>1, <1>3, <1>4 DEF Standing, ReservationIsDecidedOnce
<1>5. ASSUME NEW effect, MayBeAdded(call, effect) PROVE Standing'
  <2> DEFINE new == Entry(call, effect)
  <2>1. new.call = call /\ new.effect = effect /\ trail' = trail \cup {new}
    BY <1>5 DEF Entry, MayBeAdded
  <2> HIDE DEF new
  <2>2. \A e \in trail' : e.effect \in {"finding", "abandonment"} => reservation' # "reserved"
    BY <1>5, <2>1 DEF Standing, MayBeAdded
  <2>3. effect = "abandonment" => \A e \in trail : e.effect # "abandonment"
    BY <1>5 DEF Standing, MayBeAdded
  <2>4. effect = "finding" => \A e \in trail : e.effect = "finding" => Says(e.call.of) = Says(call.of)
    BY <1>5 DEF MayBeAdded, Contradicted, OnRecord
  <2>5. ReservationIsDecidedOnce'
    <3>1. \A e, f \in trail' : e.effect = "abandonment" /\ f.effect = "abandonment" => e = f
      BY <2>1, <2>3 DEF Standing, ReservationIsDecidedOnce
    <3>2. \A e, f \in trail' : e.effect = "finding" /\ f.effect = "finding" => Says(e.call.of) = Says(f.call.of)
      BY <2>1, <2>4 DEF Standing, ReservationIsDecidedOnce
    <3> QED BY <1>1, <3>1, <3>2 DEF ReservationIsDecidedOnce
  <2> QED BY <1>3, <2>2, <2>5 DEF Standing
<1> QED BY <1>4, <1>5

LEMMA SettlementStands ==
  ASSUME Standing, UNCHANGED settings, NEW call, CliSettleSpend(call)
  PROVE  Standing'
<1> DEFINE i == call.of
           noted == IF "investigation-ended" \in i.given THEN "investigation" ELSE "finding"
<1>1. VerbOf[i] = "settleSpend" /\ noted \in {"finding", "investigation"}
  BY DEF CliSettleSpend
<1>2. ASSUME Answer(call, "error"), UNCHANGED <<reservation, trail>> PROVE Standing'
  BY <1>2, StandingGrows DEF Answer, Exit, ExitCodes
<1>3. ASSUME Answer(call, "success"), UNCHANGED <<reservation, trail>>, Says(i) \in OnRecord("finding") PROVE Standing'
  <2>1. Backed(i)'
    BY <1>3, SettingsStay DEF Backed, OnRecord
  <2> QED BY <1>3, <2>1, StandingGrows DEF Answer, Exit
<1>4. ASSUME ~Contradicted(i), reservation = "billing_unknown", SaidOnce(call, noted),
             reservation' \in Concluded(i) \cup {reservation}, NEW outcome \in {"success", "error"}, Answer(call, outcome)
      PROVE  Standing'
  <2>1. reservation' # "reserved"
    BY <1>4 DEF Concluded
  <2>2. UNCHANGED trail \/ MayBeAdded(call, noted)
    BY <1>1, <1>4 DEF SaidOnce, Record, Entry, MayBeAdded
  <2>3. Says(i) \in OnRecord(noted)'
    <3>1. CASE Says(i) \in OnRecord(noted)
      BY <1>4, <3>1, SettingsStay DEF SaidOnce, OnRecord
    <3>2. CASE trail' = trail \cup {Entry(call, noted)}
      <4>1. Entry(call, noted).effect = noted /\ Entry(call, noted).call = call
        BY DEF Entry
      <4> QED BY <3>2, <4>1, SettingsStay DEF OnRecord
    <3> QED BY <1>4, <3>1, <3>2 DEF SaidOnce, Record, Entry
  <2>4. Backed(i)'
    <3>1. \A effect \in {"finding", "investigation"} : Says(i)' \in OnRecord(effect)' => Backed(i)'
      BY DEF Backed
    <3>2. Says(i)' = Says(i)
      BY SettingsStay
    <3> QED BY <1>1, <2>3, <3>1, <3>2, Zenon
  <2>5. exits' = exits \cup {[call |-> call, code |-> ExitCodes[outcome]]}
    BY <1>4 DEF Answer, Exit
  <2> QED BY <2>1, <2>2, <2>4, <2>5, StandingGrows
<1> QED BY <1>2, <1>3, <1>4 DEF CliSettleSpend

LEMMA StandingSteps ==
  ASSUME Standing, [CliNext]_cliVars
  PROVE  Standing'
<1>1. ASSUME NEW i \in Invocation, Run(i) PROVE Standing'
  <2> DEFINE call == [number |-> started, of |-> i]
  <2>1. UNCHANGED settings /\ UNCHANGED <<reservation, trail>>
    BY <1>1 DEF Run
  <2>2. Exit(call, "refused") \/ Exit(call, "error") \/ UNCHANGED exits
    BY <1>1 DEF Run
  <2>3. PICK code : exits' \subseteq exits \cup {[call |-> call, code |-> code]} /\ code # ExitCodes.success
    BY <2>2 DEF Exit, ExitCodes
  <2> QED BY <2>1, <2>3, StandingGrows
<1>2. ASSUME NEW call \in calls, ServeInvocation(call) PROVE Standing'
  <2>1. UNCHANGED settings
    BY <1>2 DEF ServeInvocation
  <2>2. ASSUME UNCHANGED <<reservation, trail>>, NEW outcome, Answer(call, outcome),
               ExitCodes[outcome] = ExitCodes.success => VerbOf[call.of] # "settleSpend"
        PROVE  Standing'
    BY <2>1, <2>2, StandingGrows DEF Answer, Exit
  <2>3. ASSUME NEW effect \in {"decision", "change", "judgement"}, Record(call, effect), UNCHANGED reservation,
               NEW outcome, Answer(call, outcome), VerbOf[call.of] # "settleSpend"
        PROVE  Standing'
    <3>1. MayBeAdded(call, effect)
      BY <2>3 DEF MayBeAdded, Record, Entry
    <3> QED BY <2>1, <2>3, <3>1, StandingGrows DEF Answer, Exit
  <2>4. "settleSpend" \notin Reads \cup GateVerbs /\ "settleSpend" \in Judgements
        /\ ExitCodes["refused"] # ExitCodes.success /\ ExitCodes["error"] # ExitCodes.success
    BY DEF Reads, GateVerbs, Judgements, SpendVerbs, ExitCodes
  <2>5. CASE Unattributed(call) \/ Read(call) \/ Stops(call)
    BY <2>2, <2>4, <2>5 DEF Unattributed, Read, Stops
  <2>6. CASE DecideGate(call)
    BY <2>2, <2>3, <2>4, <2>6 DEF DecideGate
  <2>7. CASE Change(call)
    BY <2>2, <2>3, <2>4, <2>7 DEF Change
  <2>8. CASE Check(call)
    <3>1. UNCHANGED <<reservation, trail>> /\ (Answer(call, "refused") \/ Answer(call, "error") \/ UNCHANGED exits)
      BY <2>8 DEF Check
    <3>2. CASE UNCHANGED exits
      BY <2>1, <3>1, <3>2, <2>4, StandingGrows
    <3> QED BY <2>2, <2>4, <3>1, <3>2
  <2>9. CASE CliSettleSpend(call)
    BY <2>1, <2>9, SettlementStands
  <2>10. CASE CliAbandonDispatch(call)
    <3>1. ASSUME MayBeAbandoned, Record(call, "abandonment"), reservation' = "billing_unknown",
                 NEW outcome, Answer(call, outcome)
          PROVE  Standing'
      <4>1. MayBeAdded(call, "abandonment")
        BY <3>1 DEF MayBeAdded, MayBeAbandoned, Record, Entry
      <4>2. VerbOf[call.of] # "settleSpend"
        BY <2>10 DEF CliAbandonDispatch
      <4> QED BY <2>1, <3>1, <4>1, <4>2, StandingGrows DEF Answer, Exit
    <3> QED BY <2>2, <2>4, <2>10, <3>1 DEF CliAbandonDispatch
  <2>11. CASE CliDecideTake(call)
    BY <2>3, <2>11 DEF CliDecideTake
  <2> QED BY <1>2, <2>5, <2>6, <2>7, <2>8, <2>9, <2>10, <2>11 DEF ServeInvocation
<1>3. ASSUME UNCHANGED <<settings, trail, exits>>, reservation # "reserved" => reservation' # "reserved" PROVE Standing'
  BY <1>3, SettingsStay DEF Standing, ReservationIsDecidedOnce, Backed, OnRecord
<1>4. CASE DispatchEnds
  BY <1>3, <1>4 DEF DispatchEnds
<1>5. CASE UNCHANGED cliVars
  BY <1>3, <1>5 DEF cliVars
<1> QED BY <1>1, <1>2, <1>4, <1>5 DEF CliNext

(* Whatever is typed, and whatever others do to the workspace meanwhile:    *)
(* the trail names who acted and on what it rested, one person gives a       *)
(* dispatch up, findings agree, and the exit code says what was recorded     *)
(* (cli.ts, services.ts, spend-service.ts).                                *)
THEOREM Answered == CliSpec => []InvocationsAreHonest
<1>1. CliInit => CliInv /\ Standing
  BY DEF CliInit, CliInv, Standing, ReservationIsDecidedOnce
<1> QED BY <1>1, CliSteps, StandingSteps, Honestly, PTL DEF CliSpec

LEMMA BothDoors == SessionsStayWithinGrant /\ InvocationsAreHonest <=> DoorsAreHonest
BY DEF DoorsAreHonest

(* Both doors at once, as they are run side by side.                        *)
THEOREM DoorsHonest == SurfaceSpec /\ CliSpec => []DoorsAreHonest
BY Granted, Answered, BothDoors, PTL

-----------------------------------------------------------------------------
(* Knowledge packs: what they decide does not depend on how they are listed. *)
(* A sort.                                                                   *)
Linear(I, order) ==
  /\ \A i, j \in I : <<i, j>> \in order \/ <<j, i>> \in order
  /\ \A i, j \in I : <<i, j>> \in order /\ <<j, i>> \in order => i = j
  /\ \A i, j, k \in I : <<i, j>> \in order /\ <<j, k>> \in order => <<i, k>> \in order

UpTo(I, order, i) == {j \in I : <<j, i>> \in order}

LEMMA UpToCounts ==
  ASSUME NEW I, IsFiniteSet(I), NEW order, Linear(I, order), NEW i \in I
  PROVE  /\ IsFiniteSet(UpTo(I, order, i)) /\ Cardinality(UpTo(I, order, i)) \in 1 .. Cardinality(I)
         /\ \A j \in I : /\ <<i, j>> \in order => Cardinality(UpTo(I, order, i)) <= Cardinality(UpTo(I, order, j))
                         /\ <<i, j>> \notin order => Cardinality(UpTo(I, order, j)) < Cardinality(UpTo(I, order, i))
<1>1. \A j \in I : IsFiniteSet(UpTo(I, order, j)) /\ Cardinality(UpTo(I, order, j)) \in Nat
                   /\ Cardinality(UpTo(I, order, j)) <= Cardinality(I)
  <2> SUFFICES ASSUME NEW j \in I
               PROVE  IsFiniteSet(UpTo(I, order, j)) /\ Cardinality(UpTo(I, order, j)) \in Nat
                      /\ Cardinality(UpTo(I, order, j)) <= Cardinality(I)
    OBVIOUS
  <2>1. UpTo(I, order, j) \in SUBSET I
    BY DEF UpTo
  <2> QED BY <2>1, FS_Subset, FS_CardinalityType
<1>2. Cardinality(I) \in Nat
  BY FS_CardinalityType
<1>3. Cardinality(UpTo(I, order, i)) # 0
  <2>1. i \in UpTo(I, order, i)
    BY DEF UpTo, Linear
  <2> QED BY <1>1, <2>1, FS_EmptySet
<1>4. ASSUME NEW j \in I, <<i, j>> \in order
      PROVE  Cardinality(UpTo(I, order, i)) <= Cardinality(UpTo(I, order, j))
  <2>1. UpTo(I, order, i) \in SUBSET UpTo(I, order, j)
    BY <1>4 DEF UpTo, Linear
  <2> QED BY <1>1, <2>1, FS_Subset
<1>5. ASSUME NEW j \in I, <<i, j>> \notin order
      PROVE  Cardinality(UpTo(I, order, j)) < Cardinality(UpTo(I, order, i))
  <2>1. <<j, i>> \in order
    BY <1>5 DEF Linear
  <2>2. UpTo(I, order, j) \in SUBSET UpTo(I, order, i)
    BY <2>1 DEF UpTo, Linear
  <2>3. i \in UpTo(I, order, i) /\ i \notin UpTo(I, order, j)
    BY <1>5 DEF UpTo, Linear
  <2> QED BY <1>1, <2>2, <2>3, FS_Subset
<1> QED BY <1>1, <1>2, <1>3, <1>4, <1>5

(* Every place is taken, by one position.                                    *)
LEMMA Places ==
  ASSUME NEW I, IsFiniteSet(I), NEW order, Linear(I, order), NEW n \in 1 .. Cardinality(I)
  PROVE  \E i \in I : Cardinality(UpTo(I, order, i)) = n
<1> DEFINE N == Cardinality(I)
           place == [i \in I |-> Cardinality(UpTo(I, order, i))]
<1>1. N \in Nat
  BY FS_CardinalityType
<1>2. place \in Injection(I, 1 .. N)
  <2>1. place \in [I -> 1 .. N]
    BY UpToCounts
  <2>2. ASSUME NEW i \in I, NEW j \in I, place[i] = place[j] PROVE i = j
    <3>1. Cardinality(UpTo(I, order, i)) = Cardinality(UpTo(I, order, j))
      BY <2>2
    <3>2. Cardinality(UpTo(I, order, i)) \in Int /\ Cardinality(UpTo(I, order, j)) \in Int
      BY UpToCounts
    <3>3. <<i, j>> \in order /\ <<j, i>> \in order
      BY <3>1, <3>2, UpToCounts
    <3> QED BY <3>3 DEF Linear
  <2> QED BY <2>1, <2>2 DEF Injection, IsInjective
<1>3. IsFiniteSet(1 .. N) /\ Cardinality(1 .. N) = N
  <2> HIDE DEF N
  <2>1. N \in Int /\ 1 \in Int
    BY <1>1
  <2>2. IsFiniteSet(1 .. N) /\ Cardinality(1 .. N) = IF 1 > N THEN 0 ELSE N - 1 + 1
    BY <2>1, FS_Interval
  <2> QED BY <1>1, <2>2
<1>4. place \in Surjection(I, 1 .. N)
  <2> HIDE DEF place
  <2> QED BY <1>2, <1>3, FS_Injection
<1>5. PICK i \in I : place[i] = n
  BY <1>4 DEF Surjection
<1> QED BY <1>5

LEMMA SortedIs ==
  ASSUME NEW I, IsFiniteSet(I), NEW order, Linear(I, order)
  PROVE  /\ Sorted(I, order) \in [1 .. Cardinality(I) -> I]
         /\ \A n \in 1 .. Cardinality(I) : Cardinality(UpTo(I, order, Sorted(I, order)[n])) = n
         /\ \A i \in I : /\ Cardinality(UpTo(I, order, i)) \in 1 .. Cardinality(I)
                         /\ Sorted(I, order)[Cardinality(UpTo(I, order, i))] = i
<1>1. ASSUME NEW n \in 1 .. Cardinality(I)
      PROVE  Sorted(I, order)[n] \in I /\ Cardinality(UpTo(I, order, Sorted(I, order)[n])) = n
  <2>1. \E i \in I : Cardinality(UpTo(I, order, i)) = n
    BY Places
  <2>2. Sorted(I, order)[n] = CHOOSE i \in I : Cardinality(UpTo(I, order, i)) = n
    BY DEF Sorted, UpTo
  <2> QED BY <2>1, <2>2
<1>2. ASSUME NEW i \in I
      PROVE  /\ Cardinality(UpTo(I, order, i)) \in 1 .. Cardinality(I)
             /\ Sorted(I, order)[Cardinality(UpTo(I, order, i))] = i
  <2>1. Cardinality(UpTo(I, order, i)) \in 1 .. Cardinality(I)
    BY UpToCounts
  <2>2. PICK j \in I : /\ j = Sorted(I, order)[Cardinality(UpTo(I, order, i))]
                       /\ Cardinality(UpTo(I, order, j)) = Cardinality(UpTo(I, order, i))
    BY <1>1, <2>1
  <2>3. Cardinality(UpTo(I, order, i)) \in Int /\ Cardinality(UpTo(I, order, j)) \in Int
    BY UpToCounts
  <2>4. <<i, j>> \in order /\ <<j, i>> \in order
    BY <2>2, <2>3, UpToCounts
  <2> QED BY <2>1, <2>2, <2>4 DEF Linear
<1>3. Sorted(I, order) \in [1 .. Cardinality(I) -> I]
  <2> DEFINE s(n) == CHOOSE i \in I : Cardinality({j \in I : <<j, i>> \in order}) = n
  <2>1. Sorted(I, order) = [n \in 1 .. Cardinality(I) |-> s(n)]
    BY DEF Sorted
  <2> HIDE DEF s
  <2>2. Sorted(I, order) = [n \in 1 .. Cardinality(I) |-> Sorted(I, order)[n]]
    BY <2>1
  <2> QED BY <1>1, <2>2
<1> QED BY <1>1, <1>2, <1>3

(* Who is placed earlier comes first.                                        *)
LEMMA SortedInOrder ==
  ASSUME NEW I, IsFiniteSet(I), NEW order, Linear(I, order), NEW m \in 1 .. Cardinality(I), NEW n \in 1 .. Cardinality(I),
         m <= n
  PROVE  <<Sorted(I, order)[m], Sorted(I, order)[n]>> \in order
<1> DEFINE i == Sorted(I, order)[m]
           j == Sorted(I, order)[n]
<1>1. /\ i \in I /\ j \in I
      /\ Cardinality(UpTo(I, order, i)) = m /\ Cardinality(UpTo(I, order, j)) = n
  <2>1. Sorted(I, order) \in [1 .. Cardinality(I) -> I]
    BY SortedIs
  <2>2. \A k \in 1 .. Cardinality(I) : Cardinality(UpTo(I, order, Sorted(I, order)[k])) = k
    BY SortedIs
  <2> QED BY <2>1, <2>2
<1>2. m \in Int /\ n \in Int
  OBVIOUS
<1>3. <<i, j>> \in order
  BY <1>1, <1>2, UpToCounts
<1> QED BY <1>1, <1>3

(* What parsing makes of the documents.                                      *)
Manifest == {Normalize(doc) : doc \in {d \in Documents : Parses(d)}}

LEMMA Normalized ==
  ASSUME NEW doc
  PROVE  /\ "packId" \in DOMAIN doc => Normalize(doc).packId = doc.packId
         /\ "precedence" \in DOMAIN doc => Normalize(doc).precedence = doc.precedence
         /\ "dependencies" \in DOMAIN doc => Normalize(doc).dependencies = doc.dependencies
BY DEF Normalize

LEMMA Placed ==
  ASSUME NEW pack
  PROVE  TierIndex(pack) \in Int
<1> DEFINE S == {i \in DOMAIN Ladder : Ladder[i] \cap DOMAIN pack.scope # {}} \cup {1}
           n == Len(Ladder)
           T == {m \in Nat : \A i \in S : i <= m}
<1>1. n \in Nat /\ DOMAIN Ladder = 1 .. n
  BY KnowledgeAssumption
<1>2. S \in SUBSET Nat /\ 1 \in S
  BY <1>1
<1>3. \A i \in S : i <= n + 1
  BY <1>1
<1> HIDE DEF n, S
<1>4. PICK m \in T : \A k \in T : m <= k
  <2>1. n + 1 \in T
    BY <1>1, <1>3
  <2> QED BY <2>1, Least
<1>5. m \in S
  <2> SUFFICES ASSUME m \notin S PROVE FALSE
    OBVIOUS
  <2>1. m # 0
    BY <1>2, <1>4
  <2>2. \A i \in S : i <= m /\ i # m /\ i \in Nat
    BY <1>2, <1>4
  <2>3. m - 1 \in T
    BY <1>4, <2>1, <2>2
  <2> QED BY <1>4, <2>3
<1>6. \A i \in S : m >= i
  BY <1>2, <1>4
<1> DEFINE top == CHOOSE x \in S : \A y \in S : x >= y
<1>7. top \in S
  BY <1>5, <1>6
<1>8. TierIndex(pack) = top - 1
  BY DEF TierIndex, S, Max
<1> HIDE DEF top
<1> QED BY <1>2, <1>7, <1>8

LEMMA Manifests ==
  ASSUME NEW p \in Manifest
  PROVE  /\ Rank[p.packId] \in Nat /\ AuthorityRank[p.authority] \in Int /\ EffectivePrecedence(p) \in Int
         /\ p.dependencies \in Seq(Range(p.dependencies))
         /\ \A q \in Manifest : Rank[p.packId] = Rank[q.packId] => p.packId = q.packId
<1>1. PICK doc \in Documents : p = Normalize(doc) /\ Parses(doc)
  BY DEF Manifest
<1>2. p.packId = doc.packId /\ p.precedence = doc.precedence /\ p.dependencies = doc.dependencies
  BY <1>1, Normalized, KnowledgeAssumption
<1>3. AuthorityRank[p.authority] \in Int
  <2>1. p.authority \in DOMAIN AuthorityRank
    BY <1>1 DEF Parses
  <2> QED BY <2>1 DEF AuthorityRank
<1>4. EffectivePrecedence(p) \in Int
  <2>1. TierIndex(p) \in Int
    BY Placed
  <2> QED BY <1>2, <2>1, KnowledgeAssumption DEF EffectivePrecedence, Stride
<1>5. ASSUME NEW q \in Manifest, Rank[p.packId] = Rank[q.packId] PROVE p.packId = q.packId
  <2>1. PICK other \in Documents : q = Normalize(other)
    BY DEF Manifest
  <2>2. q.packId = other.packId
    BY <2>1, Normalized, KnowledgeAssumption
  <2> QED BY <1>2, <1>5, <2>2, KnowledgeAssumption
<1>6. Rank[p.packId] \in Nat /\ p.dependencies \in Seq(Range(p.dependencies))
  BY <1>2, KnowledgeAssumption
<1> QED BY <1>3, <1>4, <1>5, <1>6

(* One pack is at least as strong as another; equals are one pack's.         *)
AsStrong(p, q) == ComparePackStrength(p, q) <= 0

LEMMA Comparison ==
  ASSUME NEW p \in Manifest, NEW q \in Manifest
  PROVE  /\ ComparePackStrength(p, q) \in Int
         /\ AsStrong(p, q) <=>
              \/ AuthorityRank[p.authority] > AuthorityRank[q.authority]
              \/ /\ AuthorityRank[p.authority] = AuthorityRank[q.authority]
                 /\ \/ EffectivePrecedence(p) > EffectivePrecedence(q)
                    \/ EffectivePrecedence(p) = EffectivePrecedence(q) /\ Rank[p.packId] <= Rank[q.packId]
         /\ ComparePackStrength(p, q) = 0 <=>
              /\ AuthorityRank[p.authority] = AuthorityRank[q.authority]
              /\ EffectivePrecedence(p) = EffectivePrecedence(q) /\ p.packId = q.packId
<1>1. /\ Rank[p.packId] \in Nat /\ AuthorityRank[p.authority] \in Int /\ EffectivePrecedence(p) \in Int
      /\ Rank[q.packId] \in Nat /\ AuthorityRank[q.authority] \in Int /\ EffectivePrecedence(q) \in Int
      /\ Rank[p.packId] = Rank[q.packId] => p.packId = q.packId
  BY Manifests
<1> QED BY <1>1 DEF ComparePackStrength, AsStrong

Preceding(packs, I) ==
  {pair \in I \X I :
     LET c == ComparePackStrength(packs[pair[1]], packs[pair[2]])
     IN  c < 0 \/ (c = 0 /\ pair[1] <= pair[2])}

LEMMA Precedes ==
  ASSUME NEW packs \in Seq(Manifest), NEW I \in SUBSET DOMAIN packs, NEW i \in I, NEW j \in I
  PROVE  <<i, j>> \in Preceding(packs, I) <=>
           AsStrong(packs[i], packs[j]) /\ (ComparePackStrength(packs[i], packs[j]) = 0 => i <= j)
<1>1. packs[i] \in Manifest /\ packs[j] \in Manifest
  OBVIOUS
<1>2. ComparePackStrength(packs[i], packs[j]) \in Int
  BY <1>1, Comparison
<1> QED BY <1>2 DEF Preceding, AsStrong

LEMMA StrengthIsLinear ==
  ASSUME NEW packs \in Seq(Manifest), NEW I \in SUBSET DOMAIN packs
  PROVE  IsFiniteSet(I) /\ Linear(I, Preceding(packs, I))
<1>1. IsFiniteSet(I)
  <2>1. Len(packs) \in Int /\ 1 \in Int /\ DOMAIN packs = 1 .. Len(packs)
    OBVIOUS
  <2>2. IsFiniteSet(DOMAIN packs)
    BY <2>1, FS_Interval
  <2> QED BY <2>2, FS_Subset
<1> DEFINE a == [i \in I |-> AuthorityRank[packs[i].authority]]
           e == [i \in I |-> EffectivePrecedence(packs[i])]
           r == [i \in I |-> Rank[packs[i].packId]]
<1>2. \A i \in I : packs[i] \in Manifest /\ i \in Int
  OBVIOUS
<1>3. \A i \in I : a[i] \in Int /\ e[i] \in Int /\ r[i] \in Int
  BY <1>2, Manifests
<1>4. ASSUME NEW i \in I, NEW j \in I
      PROVE  <<i, j>> \in Preceding(packs, I) <=>
               /\ a[i] > a[j] \/ (a[i] = a[j] /\ (e[i] > e[j] \/ (e[i] = e[j] /\ r[i] <= r[j])))
               /\ a[i] = a[j] /\ e[i] = e[j] /\ r[i] = r[j] => i <= j
  <2>1. r[i] = r[j] => packs[i].packId = packs[j].packId
    BY <1>2, Manifests
  <2>2. AsStrong(packs[i], packs[j]) <=>
          a[i] > a[j] \/ (a[i] = a[j] /\ (e[i] > e[j] \/ (e[i] = e[j] /\ r[i] <= r[j])))
    BY <1>2, Comparison
  <2>3. ComparePackStrength(packs[i], packs[j]) = 0 <=> a[i] = a[j] /\ e[i] = e[j] /\ r[i] = r[j]
    BY <1>2, <2>1, Comparison
  <2> HIDE DEF a, e, r
  <2> QED BY <2>2, <2>3, Precedes
<1> HIDE DEF a, e, r
<1>5. \A i, j \in I : <<i, j>> \in Preceding(packs, I) \/ <<j, i>> \in Preceding(packs, I)
  <2> SUFFICES ASSUME NEW i \in I, NEW j \in I
               PROVE  <<i, j>> \in Preceding(packs, I) \/ <<j, i>> \in Preceding(packs, I)
    OBVIOUS
  <2>1. a[i] \in Int /\ e[i] \in Int /\ r[i] \in Int /\ a[j] \in Int /\ e[j] \in Int /\ r[j] \in Int
    BY <1>3
  <2>2. i \in Int /\ j \in Int
    BY <1>2
  <2> QED BY <1>4, <2>1, <2>2
<1>6. \A i, j \in I : <<i, j>> \in Preceding(packs, I) /\ <<j, i>> \in Preceding(packs, I) => i = j
  <2> SUFFICES ASSUME NEW i \in I, NEW j \in I, <<i, j>> \in Preceding(packs, I), <<j, i>> \in Preceding(packs, I)
               PROVE  i = j
    OBVIOUS
  <2>1. a[i] \in Int /\ e[i] \in Int /\ r[i] \in Int /\ a[j] \in Int /\ e[j] \in Int /\ r[j] \in Int
    BY <1>3
  <2>2. /\ a[i] > a[j] \/ (a[i] = a[j] /\ (e[i] > e[j] \/ (e[i] = e[j] /\ r[i] <= r[j])))
        /\ a[j] > a[i] \/ (a[j] = a[i] /\ (e[j] > e[i] \/ (e[j] = e[i] /\ r[j] <= r[i])))
    BY <1>4
  <2>3. a[i] = a[j] /\ e[i] = e[j] /\ r[i] = r[j]
    BY <2>1, <2>2
  <2>4. i <= j /\ j <= i
    BY <1>4, <2>3
  <2> QED BY <1>2, <2>4
<1>7. \A i, j, k \in I : <<i, j>> \in Preceding(packs, I) /\ <<j, k>> \in Preceding(packs, I)
                           => <<i, k>> \in Preceding(packs, I)
  <2> SUFFICES ASSUME NEW i \in I, NEW j \in I, NEW k \in I,
                      <<i, j>> \in Preceding(packs, I), <<j, k>> \in Preceding(packs, I)
               PROVE  <<i, k>> \in Preceding(packs, I)
    OBVIOUS
  <2>3. a[i] \in Int /\ e[i] \in Int /\ r[i] \in Int /\ a[j] \in Int /\ e[j] \in Int /\ r[j] \in Int
        /\ a[k] \in Int /\ e[k] \in Int /\ r[k] \in Int
    BY <1>3
  <2>4. /\ a[i] > a[j] \/ (a[i] = a[j] /\ (e[i] > e[j] \/ (e[i] = e[j] /\ r[i] <= r[j])))
        /\ a[j] > a[k] \/ (a[j] = a[k] /\ (e[j] > e[k] \/ (e[j] = e[k] /\ r[j] <= r[k])))
    BY <1>4
  <2>1. a[i] > a[k] \/ (a[i] = a[k] /\ (e[i] > e[k] \/ (e[i] = e[k] /\ r[i] <= r[k])))
    <3>1. a[i] >= a[j] /\ a[j] >= a[k] /\ a[i] >= a[k]
      BY <2>3, <2>4
    <3>2. CASE a[i] > a[k]
      BY <3>2
    <3>3. CASE a[i] = a[k]
      <4>1. a[i] = a[j] /\ a[j] = a[k]
        BY <2>3, <3>1, <3>3
      <4>2. /\ e[i] > e[j] \/ (e[i] = e[j] /\ r[i] <= r[j])
            /\ e[j] > e[k] \/ (e[j] = e[k] /\ r[j] <= r[k])
        BY <2>3, <2>4, <4>1
      <4>3. e[i] > e[k] \/ (e[i] = e[k] /\ r[i] <= r[k])
        <5>1. CASE e[i] > e[j]
          <6>1. e[i] > e[k]
            BY <2>3, <4>2, <5>1
          <6> QED BY <6>1
        <5>2. CASE e[i] = e[j] /\ r[i] <= r[j] /\ e[j] > e[k]
          BY <5>2
        <5>3. CASE e[i] = e[j] /\ r[i] <= r[j] /\ e[j] = e[k] /\ r[j] <= r[k]
          <6>1. r[i] <= r[k]
            BY <2>3, <5>3
          <6> QED BY <5>3, <6>1
        <5> QED BY <4>2, <5>1, <5>2, <5>3
      <4> QED BY <3>3, <4>3
    <3> QED BY <2>3, <3>1, <3>2, <3>3
  <2>2. ASSUME a[i] = a[k], e[i] = e[k], r[i] = r[k] PROVE i <= k
    <3>1. a[i] = a[j] /\ a[j] = a[k]
      BY <2>2, <2>3, <2>4
    <3>2. e[i] = e[j] /\ e[j] = e[k]
      BY <2>2, <2>3, <2>4, <3>1
    <3>3. r[i] = r[j] /\ r[j] = r[k]
      BY <2>2, <2>3, <2>4, <3>1, <3>2
    <3>4. i <= j /\ j <= k
      BY <1>4, <3>1, <3>2, <3>3
    <3> QED BY <1>2, <3>4
  <2> QED BY <1>4, <2>1, <2>2
<1> QED BY <1>1, <1>5, <1>6, <1>7 DEF Linear

LEMMA StrongestIs ==
  ASSUME NEW packs \in Seq(Manifest), NEW I \in SUBSET DOMAIN packs
  PROVE  /\ Cardinality(I) \in Nat
         /\ Strongest(packs, I) \in Seq(Manifest) /\ Len(Strongest(packs, I)) = Cardinality(I)
         /\ \A n \in 1 .. Cardinality(I) :
              /\ Sorted(I, Preceding(packs, I))[n] \in I
              /\ Strongest(packs, I)[n] = packs[Sorted(I, Preceding(packs, I))[n]]
<1> DEFINE s == Sorted(I, Preceding(packs, I))
           N == Cardinality(I)
<1>1. IsFiniteSet(I) /\ Linear(I, Preceding(packs, I))
  BY StrengthIsLinear
<1>2. N \in Nat
  BY <1>1, FS_CardinalityType
<1>3. s \in [1 .. N -> I]
  BY <1>1, SortedIs
<1>4. Strongest(packs, I) = [n \in 1 .. N |-> packs[s[n]]]
  BY DEF Strongest, Preceding
<1> HIDE DEF s, N
<1>5. \A n \in 1 .. N : s[n] \in I /\ packs[s[n]] \in Manifest
  BY <1>3
<1>6. Strongest(packs, I) \in Seq(Manifest) /\ Len(Strongest(packs, I)) = N
  BY <1>2, <1>4, <1>5
<1> QED BY <1>2, <1>4, <1>5, <1>6 DEF s, N

(* The first is the strongest.                                               *)
LEMMA FirstIsStrongest ==
  ASSUME NEW packs \in Seq(Manifest), NEW I \in SUBSET DOMAIN packs, NEW i \in I
  PROVE  \E n \in 1 .. Cardinality(I) :
           /\ Strongest(packs, I)[n] = packs[i]
           /\ AsStrong(Strongest(packs, I)[1], packs[i])
           /\ 1 \in 1 .. Cardinality(I)
           /\ \A j \in I : Strongest(packs, I)[1] = packs[j] /\ Sorted(I, Preceding(packs, I))[1] = j /\ j # i => n # 1
           /\ \E j \in I : Strongest(packs, I)[1] = packs[j] /\ Sorted(I, Preceding(packs, I))[1] = j
<1> DEFINE order == Preceding(packs, I)
           n == Cardinality(UpTo(I, order, i))
<1>1. IsFiniteSet(I) /\ Linear(I, order)
  BY StrengthIsLinear
<1>2. n \in 1 .. Cardinality(I) /\ Sorted(I, order)[n] = i
  BY <1>1, SortedIs
<1>3. Cardinality(I) \in Nat
  BY <1>1, FS_CardinalityType
<1> HIDE DEF order, n
<1>4. 1 \in 1 .. Cardinality(I) /\ 1 <= n
  BY <1>2, <1>3
<1>5. <<Sorted(I, order)[1], Sorted(I, order)[n]>> \in order
  BY <1>1, <1>2, <1>4, SortedInOrder
<1>6. PICK j \in I : j = Sorted(I, order)[1] /\ Strongest(packs, I)[1] = packs[j]
  BY <1>4, StrongestIs DEF order
<1>7. AsStrong(packs[j], packs[i])
  BY <1>2, <1>5, <1>6, Precedes DEF order
<1>8. Strongest(packs, I)[n] = packs[i]
  BY <1>2, StrongestIs DEF order
<1> QED BY <1>2, <1>4, <1>6, <1>7, <1>8 DEF order

Distinct(packs) == \A i, j \in DOMAIN packs : packs[i].packId = packs[j].packId => i = j

LEMMA NoDuplicates ==
  ASSUME NEW packs
  PROVE  Duplicates(packs) = {} <=> Distinct(packs)
BY DEF Duplicates, Distinct

LEMMA OfItsId ==
  ASSUME NEW packs \in Seq(Manifest), Distinct(packs), NEW i \in DOMAIN packs
  PROVE  ById(packs, packs[i].packId) = packs[i]
<1> DEFINE P(k) == packs[k].packId = packs[i].packId /\ \A j \in DOMAIN packs : packs[j].packId = packs[i].packId => j <= k
           k == CHOOSE k \in DOMAIN packs : P(k)
<1>1. P(i)
  BY DEF Distinct
<1>2. k \in DOMAIN packs /\ P(k)
  BY <1>1
<1>3. k = i
  BY <1>2 DEF Distinct
<1>4. ById(packs, packs[i].packId) = packs[k]
  BY DEF ById
<1> QED BY <1>3, <1>4

Claimants(packs, key) == {i \in InForce(packs) : key \in packs[i].provides}

(* Of a claim nobody contests in vain.                                       *)
LEMMA HolderPrevails ==
  ASSUME NEW packs \in Seq(Manifest), Distinct(packs), NEW key, key \in Claimed(packs), key \notin Conflicts(packs),
         NEW i \in Claimants(packs, key),
         NEW holder, holder = ById(packs, Claims(packs)[key].holder),
         packs[i] # holder
  PROVE  \/ AuthorityRank[packs[i].authority] < AuthorityRank[holder.authority]
         \/ /\ AuthorityRank[packs[i].authority] = AuthorityRank[holder.authority]
            /\ \/ EffectivePrecedence(packs[i]) < EffectivePrecedence(holder)
               \/ EffectivePrecedence(packs[i]) = EffectivePrecedence(holder) /\ packs[i].authority # "normative"
<1> DEFINE I == Claimants(packs, key)
           W == Winner(packs, key)
<1>1. I \in SUBSET DOMAIN packs /\ i \in I
  BY DEF Claimants, InForce
<1>2. Contenders(packs, key) = Strongest(packs, I)
  BY DEF Contenders, Claimants
<1>3. W = Strongest(packs, I)[1]
  BY <1>2 DEF Winner
<1> HIDE DEF I, W
<1>4. PICK n \in 1 .. Cardinality(I) :
        /\ Strongest(packs, I)[n] = packs[i] /\ AsStrong(W, packs[i]) /\ 1 \in 1 .. Cardinality(I)
        /\ \E j \in I : W = packs[j]
  BY <1>1, <1>3, FirstIsStrongest
<1>5. PICK j \in DOMAIN packs : W = packs[j]
  BY <1>1, <1>4
<1>6. W \in Manifest /\ packs[i] \in Manifest
  BY <1>1, <1>5
<1>7. holder = W
  <2>1. Claims(packs)[key].holder = W.packId
    BY DEF Claims, W
  <2> QED BY <1>5, <2>1, OfItsId
<1>8. n # 1
  BY <1>3, <1>4, <1>7
<1>9. /\ AuthorityRank[W.authority] \in Int /\ EffectivePrecedence(W) \in Int
      /\ AuthorityRank[packs[i].authority] \in Int /\ EffectivePrecedence(packs[i]) \in Int
  BY <1>6, Manifests
<1>10. ASSUME AuthorityRank[packs[i].authority] = AuthorityRank[W.authority],
              EffectivePrecedence(packs[i]) = EffectivePrecedence(W), packs[i].authority = "normative"
       PROVE  FALSE
  <2>1. W.authority = "normative"
    <3>1. W.authority \in DOMAIN AuthorityRank
      <4>1. PICK doc \in Documents : W = Normalize(doc) /\ Parses(doc)
        BY <1>6 DEF Manifest
      <4> QED BY <4>1 DEF Parses
    <3> QED BY <1>10, <3>1 DEF AuthorityRank
  <2>2. DOMAIN Contenders(packs, key) = 1 .. Cardinality(I) /\ IsFiniteSet(1 .. Cardinality(I))
    <3>1. Cardinality(I) \in Nat /\ Strongest(packs, I) \in Seq(Manifest)
          /\ Len(Strongest(packs, I)) = Cardinality(I)
      BY <1>1, StrongestIs
    <3>2. Cardinality(I) \in Int /\ 1 \in Int
      BY <3>1
    <3>3. IsFiniteSet(1 .. Cardinality(I))
      BY <3>2, FS_Interval
    <3> QED BY <1>2, <3>1, <3>3
  <2> DEFINE T == NormativeTie(packs, key)
  <2>3. T \in SUBSET (1 .. Cardinality(I)) /\ n \in T /\ 1 \in T
    <3>1. Contenders(packs, key)[n] = packs[i] /\ Contenders(packs, key)[1] = W
      BY <1>2, <1>3, <1>4
    <3> QED BY <1>4, <1>10, <2>1, <2>2, <3>1 DEF NormativeTie, W
  <2> HIDE DEF T
  <2>4. IsFiniteSet(T)
    BY <2>2, <2>3, FS_Subset
  <2>5. Cardinality(T) \in Nat /\ Cardinality(T) # 0 /\ Cardinality(T) # 1
    <3>1. Cardinality(T) \in Nat
      BY <2>4, FS_CardinalityType
    <3>2. Cardinality(T) # 0
      BY <2>3, <2>4, FS_EmptySet
    <3>3. ~ \E x : T = {x}
      BY <1>8, <2>3
    <3>4. Cardinality(T) # 1
      BY <2>4, <3>3, FS_Singleton
    <3> QED BY <3>1, <3>2, <3>4
  <2>6. Cardinality(T) > 1
    BY <2>5
  <2> QED BY <2>6 DEF Conflicts, T
<1>11. \/ AuthorityRank[W.authority] > AuthorityRank[packs[i].authority]
       \/ /\ AuthorityRank[W.authority] = AuthorityRank[packs[i].authority]
          /\ EffectivePrecedence(W) >= EffectivePrecedence(packs[i])
  <2> DEFINE p == packs[i]
  <2>1. AsStrong(W, p)
    BY <1>4
  <2>2. p \in Manifest
    BY <1>6
  <2> HIDE DEF p
  <2>3. \/ AuthorityRank[W.authority] > AuthorityRank[p.authority]
        \/ /\ AuthorityRank[W.authority] = AuthorityRank[p.authority]
           /\ \/ EffectivePrecedence(W) > EffectivePrecedence(p)
              \/ EffectivePrecedence(W) = EffectivePrecedence(p) /\ Rank[W.packId] <= Rank[p.packId]
    BY <1>6, <2>1, <2>2, Comparison
  <2> QED BY <1>9, <2>3 DEF p
<1> QED BY <1>7, <1>9, <1>10, <1>11

-----------------------------------------------------------------------------
(* The same packs in another order: pi[i] is where the i-th one was.         *)
Rearranged(packs, other, pi) ==
  /\ pi \in Bijection(DOMAIN other, DOMAIN packs)
  /\ \A i \in DOMAIN other : other[i] = packs[pi[i]]

LEMMA SameStrongest ==
  ASSUME NEW packs \in Seq(Manifest), NEW other \in Seq(Manifest), Distinct(packs),
         NEW pi, Rearranged(packs, other, pi),
         NEW I \in SUBSET DOMAIN packs, NEW J \in SUBSET DOMAIN other, J = {i \in DOMAIN other : pi[i] \in I}
  PROVE  Strongest(other, J) = Strongest(packs, I)
<1> DEFINE P == Preceding(packs, I)
           Q == Preceding(other, J)
<1>0. /\ pi \in [DOMAIN other -> DOMAIN packs]
      /\ \A i, j \in DOMAIN other : pi[i] = pi[j] => i = j
      /\ \A k \in DOMAIN packs : \E i \in DOMAIN other : pi[i] = k
  BY DEF Rearranged, Bijection, Injection, Surjection, IsInjective
<1>1. IsFiniteSet(I) /\ IsFiniteSet(J) /\ Linear(I, P) /\ Linear(J, Q)
  BY StrengthIsLinear
<1>2. ASSUME NEW i \in J, NEW j \in J
      PROVE  <<i, j>> \in Q <=> <<pi[i], pi[j]>> \in P
  <2>1. pi[i] \in I /\ pi[j] \in I /\ other[i] = packs[pi[i]] /\ other[j] = packs[pi[j]]
        /\ i \in DOMAIN other /\ j \in DOMAIN other
    BY DEF Rearranged
  <2>2. <<i, j>> \in Q <=> AsStrong(other[i], other[j]) /\ (ComparePackStrength(other[i], other[j]) = 0 => i <= j)
    BY Precedes
  <2>3. <<pi[i], pi[j]>> \in P <=>
          /\ AsStrong(packs[pi[i]], packs[pi[j]])
          /\ ComparePackStrength(packs[pi[i]], packs[pi[j]]) = 0 => pi[i] <= pi[j]
    BY <2>1, Precedes
  <2>4. ASSUME ComparePackStrength(other[i], other[j]) = 0 PROVE i <= j /\ pi[i] <= pi[j]
    <3>0. other[i] \in Manifest /\ other[j] \in Manifest
      BY <2>1
    <3>1. packs[pi[i]].packId = packs[pi[j]].packId
      <4>1. other[i].packId = other[j].packId
        BY <2>4, <3>0, Comparison
      <4> QED BY <2>1, <4>1
    <3>2. pi[i] = pi[j] /\ pi[i] \in DOMAIN packs
      BY <2>1, <3>1 DEF Distinct
    <3>3. i = j
      BY <1>0, <2>1, <3>2
    <3> QED BY <2>1, <3>2, <3>3
  <2> QED BY <2>1, <2>2, <2>3, <2>4
<1>3. ASSUME NEW j \in J PROVE Cardinality(UpTo(I, P, pi[j])) = Cardinality(UpTo(J, Q, j))
  <2> DEFINE f == [i \in UpTo(J, Q, j) |-> pi[i]]
             S == UpTo(J, Q, j)
             T == UpTo(I, P, pi[j])
  <2>1. \A i \in S : i \in J /\ pi[i] \in T
    BY <1>2 DEF UpTo
  <2>2. \A k \in T : \E i \in S : pi[i] = k
    <3> SUFFICES ASSUME NEW k \in T PROVE \E i \in S : pi[i] = k
      OBVIOUS
    <3>1. k \in I /\ <<k, pi[j]>> \in P
      BY DEF UpTo
    <3>2. PICK i \in DOMAIN other : pi[i] = k
      BY <1>0, <3>1
    <3>3. i \in J
      BY <3>1, <3>2
    <3>4. <<i, j>> \in Q
      BY <1>2, <3>1, <3>2, <3>3
    <3> QED BY <3>2, <3>3, <3>4 DEF UpTo
  <2>3. IsFiniteSet(S)
    BY <1>1, UpToCounts
  <2>4. f \in Bijection(S, T)
    <3>1. f \in [S -> T]
      BY <2>1
    <3>2. \A x, y \in S : f[x] = f[y] => x = y
      BY <1>0, <2>1
    <3>3. \A k \in T : \E i \in S : f[i] = k
      BY <2>2
    <3> QED BY <3>1, <3>2, <3>3 DEF Bijection, Injection, Surjection, IsInjective
  <2> HIDE DEF S, T, f
  <2>5. Cardinality(T) = Cardinality(S)
    <3>1. ExistsBijection(S, T)
      BY <2>4 DEF ExistsBijection
    <3> QED BY <2>3, <3>1, FS_Bijection
  <2> QED BY <2>5 DEF S, T
<1>4. Cardinality(J) = Cardinality(I)
  <2> DEFINE f == [i \in J |-> pi[i]]
  <2>1. f \in Bijection(J, I)
    BY <1>0 DEF Bijection, Injection, Surjection, IsInjective
  <2>2. ExistsBijection(J, I)
    BY <2>1 DEF ExistsBijection
  <2> QED BY <1>1, <2>2, FS_Bijection
<1>5. /\ Strongest(packs, I) \in Seq(Manifest) /\ Len(Strongest(packs, I)) = Cardinality(I)
      /\ Strongest(other, J) \in Seq(Manifest) /\ Len(Strongest(other, J)) = Cardinality(I)
  BY <1>4, StrongestIs
<1>6. ASSUME NEW n \in 1 .. Cardinality(I) PROVE Strongest(other, J)[n] = Strongest(packs, I)[n]
  <2> DEFINE j == Sorted(J, Q)[n]
  <2>1. j \in J /\ Strongest(other, J)[n] = other[j]
    BY <1>4, StrongestIs
  <2>2. Cardinality(UpTo(J, Q, j)) = n
    BY <1>1, <1>4, SortedIs
  <2> HIDE DEF j, P, Q
  <2>3. pi[j] \in I /\ other[j] = packs[pi[j]]
    BY <2>1 DEF Rearranged
  <2>4. Sorted(I, P)[Cardinality(UpTo(I, P, pi[j]))] = pi[j]
    BY <1>1, <2>3, SortedIs
  <2>5. Sorted(I, P)[n] = pi[j]
    BY <1>3, <2>1, <2>2, <2>4
  <2>6. Strongest(packs, I)[n] = packs[Sorted(I, P)[n]]
    BY StrongestIs DEF P
  <2> QED BY <2>1, <2>3, <2>5, <2>6
<1> QED BY <1>5, <1>6

LEMMA SameResolution ==
  ASSUME NEW packs \in Seq(Manifest), NEW other \in Seq(Manifest), Distinct(packs),
         NEW pi, Rearranged(packs, other, pi)
  PROVE  Snapshot(other) = Snapshot(packs) /\ Claims(other) = Claims(packs)
<1>0. /\ pi \in [DOMAIN other -> DOMAIN packs]
      /\ \A k \in DOMAIN packs : \E i \in DOMAIN other : pi[i] = k
      /\ \A i \in DOMAIN other : other[i] = packs[pi[i]]
  BY DEF Rearranged, Bijection, Injection, Surjection
<1>1. InForce(other) = {i \in DOMAIN other : pi[i] \in InForce(packs)}
  BY <1>0 DEF InForce
<1>2. InForce(other) \in SUBSET DOMAIN other /\ InForce(packs) \in SUBSET DOMAIN packs
  BY DEF InForce
<1>3. Applicable(other) = Applicable(packs)
  BY <1>1, <1>2, SameStrongest DEF Applicable
<1>4. ASSUME NEW key PROVE Contenders(other, key) = Contenders(packs, key)
  <2>1. Claimants(other, key) = {i \in DOMAIN other : pi[i] \in Claimants(packs, key)}
    BY <1>0, <1>1, <1>2 DEF Claimants
  <2>2. Claimants(other, key) \in SUBSET DOMAIN other /\ Claimants(packs, key) \in SUBSET DOMAIN packs
    BY <1>2 DEF Claimants
  <2>3. Strongest(other, Claimants(other, key)) = Strongest(packs, Claimants(packs, key))
    BY <2>1, <2>2, SameStrongest
  <2> QED BY <2>3 DEF Contenders, Claimants
<1>5. Claimed(other) = Claimed(packs)
  <2>1. ASSUME NEW key PROVE (\E i \in InForce(other) : key \in other[i].provides)
                               <=> (\E i \in InForce(packs) : key \in packs[i].provides)
    BY <1>0, <1>1, <1>2
  <2>2. ASSUME NEW key PROVE key \in Claimed(other) <=> key \in Claimed(packs)
    BY <2>1 DEF Claimed
  <2> QED BY <2>2
<1>6. Claims(other) = Claims(packs)
  <2> DEFINE claim(ps, key) ==
        [holder |-> Winner(ps, key).packId,
         overridden |-> [n \in 1 .. Len(Contenders(ps, key)) - 1 |-> Contenders(ps, key)[n + 1].packId]]
  <2>1. ASSUME NEW key PROVE claim(other, key) = claim(packs, key)
    <3>1. Contenders(other, key) = Contenders(packs, key) /\ Winner(other, key) = Winner(packs, key)
      BY <1>4 DEF Winner
    <3> QED BY <3>1
  <2>2. /\ Claims(other) = [key \in Claimed(other) |-> claim(other, key)]
        /\ Claims(packs) = [key \in Claimed(packs) |-> claim(packs, key)]
    BY DEF Claims
  <2> HIDE DEF claim
  <2> QED BY <1>5, <2>1, <2>2
<1>7. Snapshot(other) = Snapshot(packs)
  BY <1>3, Zenon DEF Snapshot
<1> QED BY <1>6, <1>7

PackInv == supplied \in Seq(Manifest)

LEMMA SwapRearranges ==
  ASSUME NEW i \in Nat \ {0}, PackInv, Reorder(i)
  PROVE  PackInv' /\ \E pi : Rearranged(supplied, supplied', pi)
<1> DEFINE N == Len(supplied)
           pi == [k \in 1 .. N |-> IF k = i THEN i + 1 ELSE IF k = i + 1 THEN i ELSE k]
<1>1. N \in Nat /\ DOMAIN supplied = 1 .. N /\ i \in 1 .. N /\ i + 1 \in 1 .. N /\ i # i + 1
      /\ \A k \in 1 .. N : supplied[k] \in Manifest
  BY DEF Reorder, PackInv
<1>2. supplied' = [supplied EXCEPT ![i] = supplied[i + 1], ![i + 1] = supplied[i]]
  BY DEF Reorder
<1>3. DOMAIN supplied' = 1 .. N /\ supplied' \in Seq(Manifest)
  BY <1>1, <1>2 DEF PackInv
<1>4. /\ supplied'[i] = supplied[i + 1] /\ supplied'[i + 1] = supplied[i]
      /\ \A k \in 1 .. N : k # i /\ k # i + 1 => supplied'[k] = supplied[k]
  BY <1>1, <1>2
<1> HIDE DEF N
<1>5. ASSUME NEW k \in 1 .. N PROVE supplied'[k] = supplied[pi[k]]
  BY <1>1, <1>4
<1>6. pi \in [1 .. N -> 1 .. N] /\ \A k \in 1 .. N : pi[pi[k]] = k
  BY <1>1
<1> HIDE DEF pi
<1>7. /\ \A k, m \in 1 .. N : pi[k] = pi[m] => k = m
      /\ \A k \in 1 .. N : \E m \in 1 .. N : pi[m] = k
  BY <1>6
<1>8. pi \in Bijection(1 .. N, 1 .. N)
  BY <1>6, <1>7 DEF Bijection, Injection, Surjection, IsInjective
<1>9. Rearranged(supplied, supplied', pi)
  BY <1>1, <1>3, <1>5, <1>8 DEF Rearranged
<1> QED BY <1>3, <1>9 DEF PackInv

LEMMA SameDuplicates ==
  ASSUME NEW packs, NEW other, NEW pi, Rearranged(packs, other, pi), Distinct(other)
  PROVE  Distinct(packs)
<1> SUFFICES ASSUME NEW k \in DOMAIN packs, NEW m \in DOMAIN packs, packs[k].packId = packs[m].packId PROVE k = m
  BY DEF Distinct
<1>1. /\ \A n \in DOMAIN packs : \E i \in DOMAIN other : pi[i] = n
      /\ \A i \in DOMAIN other : other[i] = packs[pi[i]]
  BY DEF Rearranged, Bijection, Surjection
<1>2. PICK i \in DOMAIN other, j \in DOMAIN other : pi[i] = k /\ pi[j] = m
  BY <1>1
<1>3. other[i].packId = other[j].packId
  BY <1>1, <1>2
<1> QED BY <1>2, <1>3 DEF Distinct

LEMMA PackStarts == PackInit => PackInv
BY DEF PackInit, PackInv

LEMMA PackSteps == PackInv /\ [PackNext]_packVars => PackInv'
<1> SUFFICES ASSUME PackInv, [PackNext]_packVars PROVE PackInv'
  OBVIOUS
<1>1. ASSUME NEW doc \in Documents, Supply(doc) PROVE PackInv'
  BY <1>1 DEF Supply, PackInv, Manifest
<1>2. ASSUME NEW i \in 1 .. MaxPacks, Reorder(i) PROVE PackInv'
  <2>1. i \in Nat \ {0}
    OBVIOUS
  <2> QED BY <1>2, <2>1, SwapRearranges
<1>3. CASE UNCHANGED packVars
  BY <1>3 DEF packVars, PackInv
<1> QED BY <1>1, <1>2, <1>3 DEF PackNext

LEMMA Immaterial ==
  ASSUME PackInv, NEW i \in 1 .. MaxPacks, Reorder(i)
  PROVE  \/ Duplicates(supplied) # {} /\ ~IsResolutionClean(supplied')
         \/ Snapshot(supplied') = Snapshot(supplied) /\ Claims(supplied') = Claims(supplied)
<1>1. i \in Nat \ {0}
  OBVIOUS
<1>2. PICK pi : PackInv' /\ Rearranged(supplied, supplied', pi)
  BY <1>1, SwapRearranges
<1>3. CASE Distinct(supplied)
  BY <1>2, <1>3, SameResolution DEF PackInv
<1>4. CASE ~Distinct(supplied)
  <2>1. ~Distinct(supplied')
    BY <1>2, <1>4, SameDuplicates
  <2>2. Duplicates(supplied) # {} /\ Duplicates(supplied') # {}
    BY <1>4, <2>1, NoDuplicates
  <2> QED BY <2>2 DEF IsResolutionClean
<1> QED BY <1>3, <1>4

(* Handing over the same packs in another order changes neither who holds a *)
(* claim nor what a Run keeps of them, unless two packs have one id, which   *)
(* is reported (knowledge/resolve.ts, precedence.ts).                       *)
THEOREM Immaterially == PackSpec => OrderIsImmaterial
<1>1. PackInv /\ [PackNext]_packVars =>
        [(\E i \in 1 .. MaxPacks : Reorder(i)) =>
           \/ Duplicates(supplied) # {} /\ ~IsResolutionClean(supplied')
           \/ Snapshot(supplied') = Snapshot(supplied) /\ Claims(supplied') = Claims(supplied)]_packVars
  BY Immaterial
<1> QED BY <1>1, PackStarts, PackSteps, PTL DEF PackSpec, OrderIsImmaterial

LEMMA IdsOfPacks ==
  ASSUME NEW packs \in Seq(Manifest), Distinct(packs)
  PROVE  /\ IsFiniteSet(Ids(packs))
         /\ \A id \in Ids(packs) : ById(packs, id) \in Manifest
<1>1. IsFiniteSet(Range(packs))
  <2> DEFINE n == Len(packs)
  <2>1. n \in Nat /\ n \in Int /\ 1 \in Int /\ packs = [i \in 1 .. n |-> packs[i]]
    OBVIOUS
  <2>2. IsFiniteSet(1 .. n)
    <3> HIDE DEF n
    <3> QED BY <2>1, FS_Interval
  <2>3. packs \in Surjection(1 .. n, Range(packs))
    BY <2>1 DEF Surjection, Range
  <2> HIDE DEF n
  <2> QED BY <2>2, <2>3, FS_Surjection
<1>2. IsFiniteSet(Ids(packs))
  <2> DEFINE f == [p \in Range(packs) |-> p.packId]
  <2>1. f \in Surjection(Range(packs), Ids(packs))
    BY DEF Surjection, Ids
  <2> HIDE DEF f
  <2> QED BY <1>1, <2>1, FS_Surjection
<1>3. ASSUME NEW id \in Ids(packs) PROVE ById(packs, id) \in Manifest
  <2>1. PICK i \in DOMAIN packs : packs[i].packId = id
    BY DEF Ids, Range
  <2>2. ById(packs, id) = packs[i]
    BY <2>1, OfItsId
  <2> QED BY <2>2
<1> QED BY <1>2, <1>3

LEMMA InPlace ==
  ASSUME NEW n \in Nat, NEW I \in SUBSET (1 .. n)
  PROVE  IsFiniteSet(I) /\ Linear(I, {pair \in I \X I : pair[1] <= pair[2]})
<1>1. IsFiniteSet(I)
  <2>1. n \in Int /\ 1 \in Int
    OBVIOUS
  <2>2. IsFiniteSet(1 .. n)
    BY <2>1, FS_Interval
  <2> QED BY <2>2, FS_Subset
<1>2. \A i, j \in I : <<i, j>> \in {pair \in I \X I : pair[1] <= pair[2]} <=> i <= j
  OBVIOUS
<1>3. \A i \in I : i \in Int
  OBVIOUS
<1> QED BY <1>1, <1>2, <1>3 DEF Linear

LEMMA EdgesAre ==
  ASSUME NEW packs \in Seq(Manifest), Distinct(packs), NEW id \in Ids(packs)
  PROVE  /\ Edges(packs, id) \in Seq(Ids(packs))
         /\ \A d \in Range(ById(packs, id).dependencies) \cap Ids(packs) :
              \E k \in 1 .. Len(Edges(packs, id)) : Edges(packs, id)[k] = d
<1> DEFINE listed == ById(packs, id).dependencies
           I == {i \in DOMAIN listed : listed[i] \in Ids(packs)}
           order == {pair \in I \X I : pair[1] <= pair[2]}
           N == Cardinality(I)
           E == Edges(packs, id)
<1>1. listed \in Seq(Range(listed))
  <2>1. ById(packs, id) \in Manifest
    BY IdsOfPacks
  <2> QED BY <2>1, Manifests
<1>2. DOMAIN listed = 1 .. Len(listed) /\ Len(listed) \in Nat
  BY <1>1
<1>3. IsFiniteSet(I) /\ Linear(I, order)
  <2>1. I \in SUBSET (1 .. Len(listed))
    BY <1>2
  <2> QED BY <1>2, <2>1, InPlace
<1>4. E = [n \in 1 .. N |-> listed[Sorted(I, order)[n]]]
  BY DEF Edges
<1>5. N \in Nat
  BY <1>3, FS_CardinalityType
<1>6. /\ Sorted(I, order) \in [1 .. N -> I]
      /\ \A i \in I : /\ Cardinality(UpTo(I, order, i)) \in 1 .. N
                      /\ Sorted(I, order)[Cardinality(UpTo(I, order, i))] = i
  BY <1>3, SortedIs
<1>7. \A i \in I : listed[i] \in Ids(packs)
  OBVIOUS
<1>8. \A d \in Range(listed) \cap Ids(packs) : \E i \in I : listed[i] = d
  BY DEF Range
<1> HIDE DEF listed, I, order, N
<1>9. E \in Seq(Ids(packs)) /\ Len(E) = N
  <2>1. \A n \in 1 .. N : listed[Sorted(I, order)[n]] \in Ids(packs)
    BY <1>6, <1>7
  <2> HIDE DEF E
  <2> QED BY <1>4, <1>5, <2>1
<1>10. ASSUME NEW d \in Range(listed) \cap Ids(packs) PROVE \E k \in 1 .. Len(E) : E[k] = d
  <2>1. PICK i \in I : listed[i] = d
    BY <1>8
  <2> DEFINE k == Cardinality(UpTo(I, order, i))
  <2>2. k \in 1 .. N /\ Sorted(I, order)[k] = i
    BY <1>6
  <2> HIDE DEF k, E
  <2> QED BY <1>4, <1>9, <2>1, <2>2
<1> QED BY <1>9, <1>10 DEF listed

(* The walk over the dependencies.                                           *)
Frame(packs) == [packId : Ids(packs), next : Nat]
Walking(packs) ==
  [open : SUBSET Ids(packs), done : SUBSET Ids(packs), stack : Seq(Frame(packs)), cycles : SUBSET SUBSET Ids(packs)]

(* What is on the stack is open, each pack once, and some edge of it or its  *)
(* end is still to come.                                                     *)
OnStack(packs, s) ==
  /\ s \in Walking(packs)
  /\ \A i \in 1 .. Len(s.stack) :
       /\ s.stack[i].next \in 1 .. Len(Edges(packs, s.stack[i].packId)) + 1
       /\ s.stack[i].packId \in s.open /\ s.stack[i].packId \notin s.done
  /\ \A i, j \in 1 .. Len(s.stack) : s.stack[i].packId = s.stack[j].packId => i = j
  /\ \A id \in s.open : \E i \in 1 .. Len(s.stack) : s.stack[i].packId = id

(* A set of packs that can be loaded one after the other.                    *)
Loadable(packs, D) ==
  /\ \A id \in D : \A k \in 1 .. Len(Edges(packs, id)) : Edges(packs, id)[k] \in D
  /\ \A C \in (SUBSET D) \ {{}} : \E id \in C : \A k \in 1 .. Len(Edges(packs, id)) : Edges(packs, id)[k] \notin C

(* An edge that was looked at leads to what is done, or one step up.         *)
Examined(packs, s) ==
  \A i \in 1 .. Len(s.stack) : \A k \in 1 .. s.stack[i].next - 1 :
    \/ Edges(packs, s.stack[i].packId)[k] \in s.done
    \/ i < Len(s.stack) /\ Edges(packs, s.stack[i].packId)[k] = s.stack[i + 1].packId

WalkInv(packs, s) ==
  OnStack(packs, s) /\ (s.cycles = {} => Loadable(packs, s.done) /\ Examined(packs, s))

-----------------------------------------------------------------------------
LEMMA Entered ==
  ASSUME NEW packs, NEW s \in Walking(packs), NEW id \in Ids(packs)
  PROVE  /\ Enter(s, id) \in Walking(packs)
         /\ Enter(s, id).open = s.open \cup {id} /\ Enter(s, id).done = s.done /\ Enter(s, id).cycles = s.cycles
         /\ Enter(s, id).stack = Append(s.stack, [packId |-> id, next |-> 1])
<1>1. [packId |-> id, next |-> 1] \in Frame(packs)
  BY DEF Frame
<1>2. Append(s.stack, [packId |-> id, next |-> 1]) \in Seq(Frame(packs))
  BY <1>1 DEF Walking
<1> QED BY <1>2 DEF Enter, Walking

Advanced(s) == [s EXCEPT !.stack[Len(s.stack)].next = @ + 1]

LEMMA AdvancedIs ==
  ASSUME NEW packs, NEW s \in Walking(packs), s.stack # <<>>
  PROVE  /\ Advanced(s) \in Walking(packs)
         /\ Advanced(s).open = s.open /\ Advanced(s).done = s.done /\ Advanced(s).cycles = s.cycles
         /\ Len(Advanced(s).stack) = Len(s.stack)
         /\ \A i \in 1 .. Len(s.stack) :
              /\ Advanced(s).stack[i].packId = s.stack[i].packId
              /\ Advanced(s).stack[i].next = IF i = Len(s.stack) THEN s.stack[i].next + 1 ELSE s.stack[i].next
<1> DEFINE n == Len(s.stack)
           frame == s.stack[n]
           up == [frame EXCEPT !.next = @ + 1]
           st == [s.stack EXCEPT ![n] = up]
<1>1. s.stack \in Seq(Frame(packs)) /\ n \in Nat /\ n # 0
  BY DEF Walking
<1>2. frame \in Frame(packs) /\ \A i \in 1 .. n : s.stack[i] \in Frame(packs)
  BY <1>1
<1>3. up \in Frame(packs) /\ up.packId = frame.packId /\ up.next = frame.next + 1
  BY <1>2 DEF Frame
<1>4. Advanced(s) = [s EXCEPT !.stack = st]
  BY DEF Advanced
<1> HIDE DEF up
<1>5. st \in Seq(Frame(packs)) /\ Len(st) = n
      /\ \A i \in 1 .. n : st[i] = IF i = n THEN up ELSE s.stack[i]
  BY <1>1, <1>3
<1> HIDE DEF st
<1>6. /\ Advanced(s) \in Walking(packs) /\ Advanced(s).stack = st
      /\ Advanced(s).open = s.open /\ Advanced(s).done = s.done /\ Advanced(s).cycles = s.cycles
  BY <1>4, <1>5 DEF Walking
<1> QED BY <1>3, <1>5, <1>6

Dropped(s) ==
  LET id == s.stack[Len(s.stack)].packId
  IN  [s EXCEPT !.open = @ \ {id}, !.done = @ \cup {id}, !.stack = Front(@)]

LEMMA DroppedIs ==
  ASSUME NEW packs, NEW s \in Walking(packs), s.stack # <<>>
  PROVE  /\ Dropped(s) \in Walking(packs)
         /\ Dropped(s).open = s.open \ {s.stack[Len(s.stack)].packId}
         /\ Dropped(s).done = s.done \cup {s.stack[Len(s.stack)].packId}
         /\ Dropped(s).cycles = s.cycles /\ Len(Dropped(s).stack) = Len(s.stack) - 1
         /\ \A i \in 1 .. Len(s.stack) - 1 : Dropped(s).stack[i] = s.stack[i]
<1>1. s.stack \in Seq(Frame(packs)) /\ Len(s.stack) \in Nat /\ Len(s.stack) # 0
  BY DEF Walking
<1>2. Front(s.stack) \in Seq(Frame(packs)) /\ Len(Front(s.stack)) = Len(s.stack) - 1
      /\ \A i \in 1 .. Len(s.stack) - 1 : Front(s.stack)[i] = s.stack[i]
  BY <1>1 DEF Front
<1>3. s.stack[Len(s.stack)].packId \in Ids(packs)
  <2>1. s.stack[Len(s.stack)] \in Frame(packs)
    BY <1>1
  <2> QED BY <2>1 DEF Frame
<1> QED BY <1>2, <1>3 DEF Walking, Dropped

(* What is left to do.                                                       *)
Left(packs, s) ==
  {t \in Turns(packs) :
     /\ t[1] \notin s.done
     /\ t[1] \in s.open => \E i \in 1 .. Len(s.stack) : s.stack[i].packId = t[1] /\ t[2] >= s.stack[i].next}

Finished(packs, s) == s.stack = <<>> /\ Ids(packs) \subseteq s.done

(* A walk that goes on has something less to do, and is as it should be.     *)
Nearer(packs, s, t) ==
  /\ WalkInv(packs, t)
  /\ Left(packs, t) \subseteq Left(packs, s) /\ Left(packs, t) # Left(packs, s)

LEMMA DropsOn ==
  ASSUME NEW packs \in Seq(Manifest), Distinct(packs), NEW s, WalkInv(packs, s), s.stack # <<>>,
         s.stack[Len(s.stack)].next > Len(Edges(packs, s.stack[Len(s.stack)].packId)),
         NEW t, t = Dropped(s)
  PROVE  Nearer(packs, s, t)
<1> DEFINE n == Len(s.stack)
           f == s.stack[n]
           e(id) == Edges(packs, id)
<1>1. s \in Walking(packs) /\ n \in Nat /\ n # 0 /\ f \in Frame(packs) /\ \A i \in 1 .. n : s.stack[i] \in Frame(packs)
  BY DEF WalkInv, OnStack, Walking
<1>2. /\ t \in Walking(packs)
      /\ t.open = s.open \ {f.packId} /\ t.done = s.done \cup {f.packId}
      /\ t.cycles = s.cycles /\ Len(t.stack) = n - 1
      /\ \A i \in 1 .. n - 1 : t.stack[i] = s.stack[i]
  <2>1. s \in Walking(packs)
    BY <1>1
  <2>2. /\ t \in Walking(packs)
        /\ t.open = s.open \ {s.stack[Len(s.stack)].packId} /\ t.done = s.done \cup {s.stack[Len(s.stack)].packId}
        /\ t.cycles = s.cycles /\ Len(t.stack) = Len(s.stack) - 1
        /\ \A i \in 1 .. Len(s.stack) - 1 : t.stack[i] = s.stack[i]
    BY <2>1, DroppedIs
  <2> QED BY <2>2
<1>3. f.packId \in Ids(packs) /\ f.packId \in s.open /\ f.packId \notin s.done /\ f.next = Len(e(f.packId)) + 1
      /\ Len(e(f.packId)) \in Nat
  <2>1. f.packId \in Ids(packs)
    BY <1>1 DEF Frame
  <2>2. Len(e(f.packId)) \in Nat
    BY <2>1, EdgesAre
  <2>3. n \in 1 .. n
    BY <1>1
  <2>4. f.next \in 1 .. Len(e(f.packId)) + 1 /\ f.packId \in s.open /\ f.packId \notin s.done
    BY <2>3 DEF WalkInv, OnStack
  <2> QED BY <2>1, <2>2, <2>4
<1>4. \A i \in 1 .. n - 1 : s.stack[i].packId # f.packId
  <2>1. \A i \in 1 .. n : s.stack[i].packId = f.packId => i = n
    BY <1>1 DEF WalkInv, OnStack
  <2> QED BY <1>1, <2>1
<1>5. OnStack(packs, t)
  <2>1. \A i \in 1 .. n - 1 : i \in 1 .. n
    BY <1>1
  <2>2. OnStack(packs, s)
    BY DEF WalkInv
  <2>3. \A i \in 1 .. Len(t.stack) :
          /\ t.stack[i].next \in 1 .. Len(e(t.stack[i].packId)) + 1
          /\ t.stack[i].packId \in t.open /\ t.stack[i].packId \notin t.done
    BY <1>2, <1>4, <2>1, <2>2 DEF OnStack
  <2>4. \A i, j \in 1 .. Len(t.stack) : t.stack[i].packId = t.stack[j].packId => i = j
    <3>1. \A i \in 1 .. n - 1 : t.stack[i].packId = s.stack[i].packId
      BY <1>2
    <3>2. \A i, j \in 1 .. n : s.stack[i].packId = s.stack[j].packId => i = j
      BY <2>2 DEF OnStack
    <3>3. Len(t.stack) = n - 1
      BY <1>2
    <3> HIDE DEF n
    <3> QED BY <2>1, <3>1, <3>2, <3>3
  <2>5. \A id \in t.open : \E i \in 1 .. Len(t.stack) : t.stack[i].packId = id
    <3> SUFFICES ASSUME NEW id \in t.open PROVE \E i \in 1 .. n - 1 : t.stack[i].packId = id
      BY <1>2
    <3>1. PICK i \in 1 .. n : s.stack[i].packId = id
      BY <1>2, <2>2 DEF OnStack
    <3>2. i # n
      BY <1>2, <3>1
    <3>3. i \in 1 .. n - 1
      BY <1>1, <3>1, <3>2
    <3> QED BY <1>2, <3>1, <3>3
  <2> QED BY <1>2, <2>3, <2>4, <2>5 DEF OnStack
<1>6. ASSUME t.cycles = {} PROVE Loadable(packs, t.done) /\ Examined(packs, t)
  <2>1. Loadable(packs, s.done) /\ Examined(packs, s)
    BY <1>2, <1>6 DEF WalkInv
  <2>2. \A k \in 1 .. Len(e(f.packId)) : e(f.packId)[k] \in s.done
    <3> SUFFICES ASSUME NEW k \in 1 .. Len(e(f.packId)) PROVE e(f.packId)[k] \in s.done
      OBVIOUS
    <3>1. k \in 1 .. s.stack[n].next - 1 /\ n \in 1 .. n /\ ~(n < n)
      BY <1>1, <1>3
    <3> QED BY <2>1, <3>1 DEF Examined
  <2>3. Loadable(packs, t.done)
    <3>1. \A id \in t.done : \A k \in 1 .. Len(e(id)) : e(id)[k] \in s.done
      BY <1>2, <2>1, <2>2 DEF Loadable
    <3>2. ASSUME NEW C \in (SUBSET t.done) \ {{}}
          PROVE  \E id \in C : \A k \in 1 .. Len(e(id)) : e(id)[k] \notin C
      <4>1. CASE C = {f.packId}
        BY <1>3, <2>2, <4>1
      <4>2. CASE C # {f.packId}
        <5>1. C \ {f.packId} \in (SUBSET s.done) \ {{}}
          BY <1>2, <4>2
        <5>2. PICK id \in C \ {f.packId} : \A k \in 1 .. Len(e(id)) : e(id)[k] \notin C \ {f.packId}
          BY <2>1, <5>1 DEF Loadable
        <5>3. \A k \in 1 .. Len(e(id)) : e(id)[k] # f.packId
          BY <1>3, <3>1, <5>2
        <5> QED BY <5>2, <5>3
      <4> QED BY <4>1, <4>2
    <3> QED BY <1>2, <3>1, <3>2 DEF Loadable
  <2>4. Examined(packs, t)
    <3> SUFFICES \A i \in 1 .. n - 1 : \A k \in 1 .. s.stack[i].next - 1 :
                   \/ e(s.stack[i].packId)[k] \in t.done
                   \/ i < n - 1 /\ e(s.stack[i].packId)[k] = t.stack[i + 1].packId
      <4>1. \A i \in 1 .. Len(t.stack) : i \in 1 .. n - 1 /\ t.stack[i] = s.stack[i]
        BY <1>2
      <4>2. Len(t.stack) = n - 1
        BY <1>2
      <4> HIDE DEF n, e
      <4> QED BY <4>1, <4>2 DEF Examined, e
    <3> TAKE i \in 1 .. n - 1
    <3> TAKE k \in 1 .. s.stack[i].next - 1
    <3>1. i \in 1 .. n
      BY <1>1
    <3>2. \/ e(s.stack[i].packId)[k] \in s.done
          \/ i < n /\ e(s.stack[i].packId)[k] = s.stack[i + 1].packId
      BY <2>1, <3>1 DEF Examined
    <3>3. CASE i < n - 1
      <4>1. i + 1 \in 1 .. n - 1
        BY <1>1, <3>3
      <4> QED BY <1>2, <3>2, <3>3, <4>1
    <3>4. CASE i = n - 1
      <4>1. s.stack[i + 1].packId = f.packId
        BY <1>1, <3>4
      <4> QED BY <1>2, <3>2, <4>1
    <3> QED BY <1>1, <3>1, <3>3, <3>4
  <2> QED BY <2>3, <2>4
<1>7. Left(packs, t) \subseteq Left(packs, s)
  <2> SUFFICES ASSUME NEW x \in Left(packs, t), x[1] \in s.open
               PROVE  \E i \in 1 .. n : s.stack[i].packId = x[1] /\ x[2] >= s.stack[i].next
    BY <1>2 DEF Left
  <2>1. x[1] \in t.open
    BY <1>2 DEF Left
  <2>2. PICK i \in 1 .. n - 1 : t.stack[i].packId = x[1] /\ x[2] >= t.stack[i].next
    BY <1>2, <2>1 DEF Left
  <2>3. i \in 1 .. n
    BY <1>1
  <2> QED BY <1>2, <2>2, <2>3
<1>8. Left(packs, t) # Left(packs, s)
  <2> DEFINE x == <<f.packId, Len(e(f.packId)) + 1>>
  <2>1. x \in Turns(packs)
    BY <1>3 DEF Turns
  <2>2. x \in Left(packs, s)
    <3>1. x[1] = f.packId /\ x[2] = f.next /\ f.next >= f.next
      BY <1>3
    <3>2. n \in 1 .. n
      BY <1>1
    <3> HIDE DEF x
    <3> QED BY <1>3, <2>1, <3>1, <3>2 DEF Left
  <2>3. x \notin Left(packs, t)
    BY <1>2 DEF Left
  <2> QED BY <2>2, <2>3
<1>9. WalkInv(packs, t)
  BY <1>5, <1>6 DEF WalkInv
<1> QED BY <1>7, <1>8, <1>9 DEF Nearer

(* An edge is looked at.                                                     *)
LEMMA MovesOn ==
  ASSUME NEW packs \in Seq(Manifest), Distinct(packs), NEW s, OnStack(packs, s), s.stack # <<>>,
         s.stack[Len(s.stack)].next <= Len(Edges(packs, s.stack[Len(s.stack)].packId)),
         NEW t, t = Advanced(s)
  PROVE  /\ OnStack(packs, t)
         /\ Left(packs, t) \subseteq Left(packs, s) /\ Left(packs, t) # Left(packs, s)
<1> DEFINE n == Len(s.stack)
           f == s.stack[n]
           e(id) == Edges(packs, id)
<1>1. /\ s \in Walking(packs) /\ n \in Nat /\ n # 0 /\ n \in 1 .. n
      /\ \A i \in 1 .. n : s.stack[i] \in Frame(packs)
  BY DEF OnStack, Walking
<1>2. /\ t \in Walking(packs)
      /\ t.open = s.open /\ t.done = s.done /\ Len(t.stack) = n
      /\ \A i \in 1 .. n :
           /\ t.stack[i].packId = s.stack[i].packId
           /\ t.stack[i].next = IF i = n THEN s.stack[i].next + 1 ELSE s.stack[i].next
  <2>1. s \in Walking(packs)
    BY <1>1
  <2>2. /\ t \in Walking(packs)
        /\ t.open = s.open /\ t.done = s.done /\ Len(t.stack) = Len(s.stack)
        /\ \A i \in 1 .. Len(s.stack) :
             /\ t.stack[i].packId = s.stack[i].packId
             /\ t.stack[i].next = IF i = Len(s.stack) THEN s.stack[i].next + 1 ELSE s.stack[i].next
    BY <2>1, AdvancedIs
  <2> QED BY <2>2
<1>3. f.packId \in Ids(packs) /\ f.packId \in s.open /\ f.packId \notin s.done
      /\ f.next \in 1 .. Len(e(f.packId)) /\ Len(e(f.packId)) \in Nat
  <2>1. f.packId \in Ids(packs)
    BY <1>1 DEF Frame
  <2>2. Len(e(f.packId)) \in Nat
    BY <2>1, EdgesAre
  <2>3. f.next \in 1 .. Len(e(f.packId)) + 1 /\ f.packId \in s.open /\ f.packId \notin s.done
    BY <1>1 DEF OnStack
  <2> QED BY <2>1, <2>2, <2>3
<1>4. \A i \in 1 .. n :
        /\ s.stack[i].next \in 1 .. Len(e(s.stack[i].packId)) + 1
        /\ s.stack[i].packId \in s.open /\ s.stack[i].packId \notin s.done
  BY DEF OnStack
<1>5. \A i, j \in 1 .. n : s.stack[i].packId = s.stack[j].packId => i = j
  BY DEF OnStack
<1>6. \A i \in 1 .. n : t.stack[i].next \in 1 .. Len(e(t.stack[i].packId)) + 1
  <2> TAKE i \in 1 .. n
  <2>1. CASE i = n
    <3>1. t.stack[n].packId = f.packId /\ t.stack[n].next = f.next + 1
      BY <1>1, <1>2
    <3> HIDE DEF n, f
    <3> QED BY <1>3, <2>1, <3>1
  <2>2. CASE i # n
    <3>1. t.stack[i].packId = s.stack[i].packId /\ t.stack[i].next = s.stack[i].next
      BY <1>2, <2>2
    <3> QED BY <1>4, <3>1
  <2> QED BY <2>1, <2>2
<1>7. OnStack(packs, t)
  <2>1. \A id \in t.open : \E i \in 1 .. Len(t.stack) : t.stack[i].packId = id
    <3> TAKE id \in t.open
    <3>1. PICK i \in 1 .. n : s.stack[i].packId = id
      BY <1>2 DEF OnStack
    <3> QED BY <1>2, <3>1
  <2>2. \A i \in 1 .. Len(t.stack) :
          /\ t.stack[i].next \in 1 .. Len(e(t.stack[i].packId)) + 1
          /\ t.stack[i].packId \in t.open /\ t.stack[i].packId \notin t.done
    BY <1>2, <1>4, <1>6
  <2>3. \A i, j \in 1 .. Len(t.stack) : t.stack[i].packId = t.stack[j].packId => i = j
    BY <1>2, <1>5
  <2> QED BY <1>2, <2>1, <2>2, <2>3 DEF OnStack
<1>8. Left(packs, t) \subseteq Left(packs, s)
  <2> SUFFICES ASSUME NEW x \in Left(packs, t), x[1] \in s.open
               PROVE  \E i \in 1 .. n : s.stack[i].packId = x[1] /\ x[2] >= s.stack[i].next
    BY <1>2 DEF Left
  <2>1. PICK i \in 1 .. n : t.stack[i].packId = x[1] /\ x[2] >= t.stack[i].next
    BY <1>2 DEF Left
  <2>2. x[2] \in Nat
    <3>1. PICK id \in Ids(packs) : x \in {id} \X (0 .. Len(e(id)) + 1)
      BY DEF Left, Turns
    <3>2. Len(e(id)) \in Nat
      BY EdgesAre
    <3> QED BY <3>1, <3>2
  <2>3. s.stack[i].next \in Nat
    BY <1>1 DEF Frame
  <2> QED BY <1>2, <2>1, <2>2, <2>3
<1>9. Left(packs, t) # Left(packs, s)
  <2> DEFINE x == <<f.packId, f.next>>
  <2>1. x \in Turns(packs) /\ x[1] = f.packId /\ x[2] = f.next /\ f.next \in Nat
    BY <1>3 DEF Turns
  <2> HIDE DEF x
  <2>2. x \in Left(packs, s)
    BY <1>1, <1>3, <2>1 DEF Left
  <2>3. x \notin Left(packs, t)
    <3> SUFFICES ASSUME NEW i \in 1 .. n, t.stack[i].packId = f.packId, f.next >= t.stack[i].next
                 PROVE  FALSE
      BY <1>2, <1>3, <2>1 DEF Left
    <3>1. i = n
      BY <1>1, <1>2, <1>5
    <3> QED BY <1>2, <2>1, <3>1
  <2> QED BY <2>2, <2>3
<1> QED BY <1>7, <1>8, <1>9

(* A pack is entered.                                                        *)
LEMMA EntersOn ==
  ASSUME NEW packs \in Seq(Manifest), Distinct(packs), NEW s, OnStack(packs, s),
         NEW id \in Ids(packs), id \notin s.open, id \notin s.done,
         NEW t, t = Enter(s, id)
  PROVE  /\ OnStack(packs, t)
         /\ Left(packs, t) \subseteq Left(packs, s) /\ Left(packs, t) # Left(packs, s)
<1> DEFINE n == Len(s.stack)
           e(x) == Edges(packs, x)
<1>1. /\ s \in Walking(packs) /\ n \in Nat /\ s.stack \in Seq(Frame(packs))
      /\ \A i \in 1 .. n : s.stack[i] \in Frame(packs)
  BY DEF OnStack, Walking
<1>2. /\ t \in Walking(packs)
      /\ t.open = s.open \cup {id} /\ t.done = s.done
      /\ t.stack = Append(s.stack, [packId |-> id, next |-> 1])
  <2>1. s \in Walking(packs)
    BY <1>1
  <2> QED BY <2>1, Entered
<1>3. /\ Len(t.stack) = n + 1 /\ t.stack[n + 1].packId = id /\ t.stack[n + 1].next = 1
      /\ \A i \in 1 .. n : t.stack[i] = s.stack[i]
  BY <1>1, <1>2
<1>4. Len(e(id)) \in Nat
  BY EdgesAre
<1>5. \A i \in 1 .. n :
        /\ s.stack[i].next \in 1 .. Len(e(s.stack[i].packId)) + 1
        /\ s.stack[i].packId \in s.open /\ s.stack[i].packId \notin s.done
  BY DEF OnStack
<1>6. \A i, j \in 1 .. n : s.stack[i].packId = s.stack[j].packId => i = j
  BY DEF OnStack
<1>7. \A i \in 1 .. n + 1 : i \in 1 .. n \/ i = n + 1
  BY <1>1
<1>8. OnStack(packs, t)
  <2>1. \A i \in 1 .. n + 1 :
          /\ t.stack[i].next \in 1 .. Len(e(t.stack[i].packId)) + 1
          /\ t.stack[i].packId \in t.open /\ t.stack[i].packId \notin t.done
    <3> TAKE i \in 1 .. n + 1
    <3>1. CASE i \in 1 .. n
      BY <1>2, <1>3, <1>5, <3>1
    <3>2. CASE i = n + 1
      BY <1>2, <1>3, <1>4, <3>2
    <3> QED BY <1>7, <3>1, <3>2
  <2>2. ASSUME NEW i \in 1 .. n + 1, NEW j \in 1 .. n + 1, t.stack[i].packId = t.stack[j].packId
        PROVE  i = j
    <3>1. CASE i \in 1 .. n /\ j \in 1 .. n
      BY <1>3, <1>6, <2>2, <3>1
    <3>2. CASE i \in 1 .. n /\ j = n + 1
      BY <1>3, <1>5, <2>2, <3>2
    <3>3. CASE i = n + 1 /\ j \in 1 .. n
      BY <1>3, <1>5, <2>2, <3>3
    <3> QED BY <1>7, <3>1, <3>2, <3>3
  <2>3. \A x \in t.open : \E i \in 1 .. n + 1 : t.stack[i].packId = x
    <3> TAKE x \in t.open
    <3>1. n + 1 \in 1 .. n + 1 /\ \A i \in 1 .. n : i \in 1 .. n + 1
      BY <1>1
    <3>2. CASE x = id
      BY <1>3, <3>1, <3>2
    <3>3. CASE x \in s.open
      <4>1. PICK i \in 1 .. n : s.stack[i].packId = x
        BY <3>3 DEF OnStack
      <4> QED BY <1>3, <3>1, <4>1
    <3> QED BY <1>2, <3>2, <3>3
  <2>4. t \in Walking(packs) /\ Len(t.stack) = n + 1
    BY <1>2, <1>3
  <2> HIDE DEF n
  <2> QED BY <2>1, <2>2, <2>3, <2>4 DEF OnStack
<1>9. Left(packs, t) \subseteq Left(packs, s)
  <2> SUFFICES ASSUME NEW x \in Left(packs, t), x[1] \in s.open
               PROVE  \E i \in 1 .. n : s.stack[i].packId = x[1] /\ x[2] >= s.stack[i].next
    BY <1>2 DEF Left
  <2>1. PICK i \in 1 .. n + 1 : t.stack[i].packId = x[1] /\ x[2] >= t.stack[i].next
    BY <1>2, <1>3 DEF Left
  <2>2. i \in 1 .. n
    BY <1>3, <1>7, <2>1
  <2> QED BY <1>3, <2>1, <2>2
<1>10. Left(packs, t) # Left(packs, s)
  <2> DEFINE x == <<id, 0>>
  <2>1. x \in Turns(packs) /\ x[1] = id /\ x[2] = 0
    BY <1>4 DEF Turns
  <2> HIDE DEF x
  <2>2. x \in Left(packs, s)
    BY <2>1 DEF Left
  <2>3. x \notin Left(packs, t)
    <3> SUFFICES ASSUME NEW i \in 1 .. n + 1, t.stack[i].packId = id, 0 >= t.stack[i].next PROVE FALSE
      BY <1>2, <1>3, <2>1 DEF Left
    <3>1. i = n + 1
      BY <1>3, <1>5, <1>7
    <3> QED BY <1>3, <3>1
  <2> QED BY <2>2, <2>3
<1> QED BY <1>8, <1>9, <1>10

LEMMA Turned ==
  ASSUME NEW packs \in Seq(Manifest), Distinct(packs), NEW s, WalkInv(packs, s), s.stack # <<>>
  PROVE  Nearer(packs, s, Turn(packs, s))
<1> DEFINE n == Len(s.stack)
           f == s.stack[n]
           e(id) == Edges(packs, id)
           edge == e(f.packId)[f.next]
           moved == Advanced(s)
           cycle == {s.stack[i].packId : i \in {j \in 1 .. n : \E k \in 1 .. j : s.stack[k].packId = edge}}
<1>1. /\ OnStack(packs, s) /\ s \in Walking(packs) /\ n \in Nat /\ n # 0 /\ n \in 1 .. n
      /\ f \in Frame(packs) /\ \A i \in 1 .. n : s.stack[i] \in Frame(packs)
  <2>1. OnStack(packs, s) /\ s \in Walking(packs)
    BY DEF WalkInv, OnStack
  <2>2. s.stack \in Seq(Frame(packs))
    BY <2>1 DEF Walking
  <2> QED BY <2>1, <2>2
<1>2. f.packId \in Ids(packs) /\ f.next \in 1 .. Len(e(f.packId)) + 1 /\ Len(e(f.packId)) \in Nat
  <2>1. f.packId \in Ids(packs)
    BY <1>1 DEF Frame
  <2> QED BY <1>1, <2>1, EdgesAre DEF OnStack
<1>3. CASE f.next > Len(e(f.packId))
  <2>1. Turn(packs, s) = Dropped(s)
    BY <1>3 DEF Turn, Dropped
  <2> QED BY <1>3, <2>1, DropsOn
<1>4. CASE f.next <= Len(e(f.packId))
  <2>1. /\ OnStack(packs, moved)
        /\ Left(packs, moved) \subseteq Left(packs, s) /\ Left(packs, moved) # Left(packs, s)
    BY <1>1, <1>4, MovesOn
  <2>2. /\ moved \in Walking(packs)
        /\ moved.open = s.open /\ moved.done = s.done /\ moved.cycles = s.cycles /\ Len(moved.stack) = n
        /\ \A i \in 1 .. n :
             /\ moved.stack[i].packId = s.stack[i].packId
             /\ moved.stack[i].next = IF i = n THEN s.stack[i].next + 1 ELSE s.stack[i].next
    <3>1. /\ Advanced(s) \in Walking(packs)
          /\ Advanced(s).open = s.open /\ Advanced(s).done = s.done /\ Advanced(s).cycles = s.cycles
          /\ Len(Advanced(s).stack) = Len(s.stack)
          /\ \A i \in 1 .. Len(s.stack) :
               /\ Advanced(s).stack[i].packId = s.stack[i].packId
               /\ Advanced(s).stack[i].next = IF i = Len(s.stack) THEN s.stack[i].next + 1 ELSE s.stack[i].next
      BY <1>1, AdvancedIs
    <3> QED BY <3>1
  <2>3. edge \in Ids(packs)
    BY <1>2, <1>4, EdgesAre
  <2>4. Turn(packs, s) = IF edge \in s.done THEN moved
                         ELSE IF edge \in s.open THEN [moved EXCEPT !.cycles = @ \cup {cycle}]
                         ELSE Enter(moved, edge)
    BY <1>2, <1>4 DEF Turn, Advanced
  <2> HIDE DEF moved
  <2>5. ASSUME s.cycles = {}, NEW i \in 1 .. n, NEW k \in 1 .. moved.stack[i].next - 1
        PROVE  \/ e(s.stack[i].packId)[k] \in s.done
               \/ i < n /\ e(s.stack[i].packId)[k] = s.stack[i + 1].packId
               \/ i = n /\ e(s.stack[i].packId)[k] = edge
    <3>1. Examined(packs, s)
      BY <2>5 DEF WalkInv
    <3>2. s.stack[i].next \in Nat
      BY <1>1 DEF Frame
    <3>3. CASE k \in 1 .. s.stack[i].next - 1
      BY <3>1, <3>3 DEF Examined
    <3>4. CASE i = n /\ k = s.stack[i].next
      BY <3>4
    <3> QED BY <2>2, <3>2, <3>3, <3>4
  <2>6. CASE edge \in s.done
    <3>1. Turn(packs, s) = moved
      BY <2>4, <2>6
    <3>2. ASSUME moved.cycles = {} PROVE Loadable(packs, moved.done) /\ Examined(packs, moved)
      <4>1. Loadable(packs, moved.done)
        BY <2>2, <3>2 DEF WalkInv
      <4>2. \A i \in 1 .. n : \A k \in 1 .. moved.stack[i].next - 1 :
              \/ e(s.stack[i].packId)[k] \in s.done
              \/ i < n /\ e(s.stack[i].packId)[k] = s.stack[i + 1].packId
        BY <2>2, <2>5, <2>6, <3>2
      <4>3. \A i \in 1 .. n : i < n => i + 1 \in 1 .. n
        BY <1>1
      <4>4. \A i \in 1 .. n : \A k \in 1 .. moved.stack[i].next - 1 :
              \/ e(moved.stack[i].packId)[k] \in moved.done
              \/ i < n /\ e(moved.stack[i].packId)[k] = moved.stack[i + 1].packId
        BY <2>2, <4>2, <4>3
      <4> QED BY <2>2, <4>1, <4>4 DEF Examined
    <3> QED BY <2>1, <3>1, <3>2 DEF Nearer, WalkInv
  <2>7. CASE edge \notin s.done /\ edge \in s.open
    <3> DEFINE t == [moved EXCEPT !.cycles = @ \cup {cycle}]
    <3>1. Turn(packs, s) = t
      BY <2>4, <2>7
    <3>2. cycle \in SUBSET Ids(packs)
      BY <1>1 DEF Frame
    <3> HIDE DEF cycle
    <3>3. t \in Walking(packs) /\ t.cycles # {}
          /\ t.open = moved.open /\ t.done = moved.done /\ t.stack = moved.stack
      BY <2>2, <3>2 DEF Walking
    <3> HIDE DEF t
    <3>4. OnStack(packs, t)
      BY <2>1, <3>3 DEF OnStack
    <3>5. Left(packs, t) = Left(packs, moved)
      BY <3>3 DEF Left
    <3> QED BY <2>1, <3>1, <3>3, <3>4, <3>5 DEF Nearer, WalkInv
  <2>8. CASE edge \notin s.done /\ edge \notin s.open
    <3> DEFINE t == Enter(moved, edge)
    <3>1. Turn(packs, s) = t
      BY <2>4, <2>8
    <3>2. /\ OnStack(packs, t)
          /\ Left(packs, t) \subseteq Left(packs, moved) /\ Left(packs, t) # Left(packs, moved)
      BY <2>1, <2>2, <2>3, <2>8, EntersOn
    <3>3. /\ t.done = s.done /\ t.cycles = s.cycles
          /\ t.stack = Append(moved.stack, [packId |-> edge, next |-> 1])
      <4>1. moved \in Walking(packs) /\ moved.done = s.done /\ moved.cycles = s.cycles
        BY <2>2
      <4> HIDE DEF edge
      <4>2. /\ t.done = moved.done /\ t.cycles = moved.cycles
            /\ t.stack = Append(moved.stack, [packId |-> edge, next |-> 1])
        BY <2>3, <4>1, Entered
      <4> QED BY <4>1, <4>2
    <3>4. moved.stack \in Seq(Frame(packs))
      BY <2>2 DEF Walking
    <3> HIDE DEF t, edge
    <3>5. /\ Len(t.stack) = n + 1 /\ t.stack[n + 1].packId = edge /\ t.stack[n + 1].next = 1
          /\ \A i \in 1 .. n : t.stack[i] = moved.stack[i]
      BY <2>2, <3>3, <3>4
    <3>6. ASSUME t.cycles = {} PROVE Loadable(packs, t.done) /\ Examined(packs, t)
      <4>1. Loadable(packs, t.done)
        BY <3>3, <3>6 DEF WalkInv
      <4>2. \A i \in 1 .. n : \A k \in 1 .. moved.stack[i].next - 1 :
              \/ e(s.stack[i].packId)[k] \in s.done
              \/ i < n /\ e(s.stack[i].packId)[k] = s.stack[i + 1].packId
              \/ i = n /\ e(s.stack[i].packId)[k] = edge
        BY <2>5, <3>3, <3>6
      <4>3. ASSUME NEW i \in 1 .. n + 1, NEW k \in 1 .. t.stack[i].next - 1
            PROVE  \/ e(t.stack[i].packId)[k] \in t.done
                   \/ i < n + 1 /\ e(t.stack[i].packId)[k] = t.stack[i + 1].packId
        <5>1. i # n + 1
          BY <3>5, <4>3
        <5>2. i \in 1 .. n /\ i < n + 1
          BY <1>1, <5>1
        <5>3. t.stack[i].packId = s.stack[i].packId /\ k \in 1 .. moved.stack[i].next - 1
          BY <2>2, <3>5, <5>2, <4>3
        <5>4. CASE i < n
          <6>1. i + 1 \in 1 .. n /\ i # n
            BY <1>1, <5>2, <5>4
          <6>2. t.stack[i + 1].packId = s.stack[i + 1].packId
            BY <2>2, <3>5, <6>1
          <6> QED BY <3>3, <4>2, <5>2, <5>3, <6>1, <6>2
        <5>5. CASE i = n
          <6>1. t.stack[i + 1].packId = edge
            BY <3>5, <5>5
          <6>2. \/ e(s.stack[i].packId)[k] \in s.done
                \/ e(s.stack[i].packId)[k] = edge
            BY <1>1, <4>2, <5>2, <5>3, <5>5
          <6> QED BY <3>3, <5>2, <5>3, <6>1, <6>2
        <5> QED BY <1>1, <5>2, <5>4, <5>5
      <4>4. \A i \in 1 .. Len(t.stack) : \A k \in 1 .. t.stack[i].next - 1 :
              \/ e(t.stack[i].packId)[k] \in t.done
              \/ i < Len(t.stack) /\ e(t.stack[i].packId)[k] = t.stack[i + 1].packId
        BY <3>5, <4>3
      <4> QED BY <4>1, <4>4 DEF Examined
    <3>7. WalkInv(packs, t)
      BY <3>2, <3>6 DEF WalkInv
    <3> QED BY <2>1, <3>1, <3>2, <3>7 DEF Nearer
  <2> QED BY <2>6, <2>7, <2>8
<1> QED BY <1>2, <1>3, <1>4

(* A set of packs that is not empty has one that comes first by rank.        *)
LEMMA FirstByRank ==
  ASSUME NEW packs \in Seq(Manifest), NEW D \in SUBSET Ids(packs), D # {}
  PROVE  \E id \in D : \A other \in D : Rank[id] <= Rank[other]
<1>1. \A id \in Ids(packs) : Rank[id] \in Nat
  <2> TAKE id \in Ids(packs)
  <2>1. PICK p \in Range(packs) : id = p.packId
    BY DEF Ids
  <2>2. p \in Manifest
    BY <2>1 DEF Range
  <2> QED BY <2>1, <2>2, KnowledgeAssumption, Normalized DEF Manifest
<1>2. {Rank[id] : id \in D} \in SUBSET Nat /\ {Rank[id] : id \in D} # {}
  BY <1>1
<1>3. PICK n \in {Rank[id] : id \in D} : \A m \in {Rank[id] : id \in D} : n <= m
  BY <1>2, Least
<1> QED BY <1>3

LEMMA Going ==
  ASSUME NEW packs \in Seq(Manifest), Distinct(packs), NEW s, WalkInv(packs, s)
  PROVE  IF Finished(packs, s) THEN Onward(packs, s) = s ELSE Nearer(packs, s, Onward(packs, s))
<1>1. CASE s.stack # <<>>
  BY <1>1, Turned DEF Onward, Finished
<1>2. CASE s.stack = <<>> /\ Ids(packs) \subseteq s.done
  BY <1>2 DEF Onward, Finished
<1>3. CASE s.stack = <<>> /\ ~(Ids(packs) \subseteq s.done)
  <2> DEFINE id == NextRoot(packs, s)
             t == Enter(s, id)
  <2>1. Onward(packs, s) = t /\ ~Finished(packs, s)
    BY <1>3 DEF Onward, Finished
  <2>2. \E x \in Ids(packs) \ s.done : \A other \in Ids(packs) \ s.done : Rank[x] <= Rank[other]
    BY <1>3, FirstByRank
  <2>3. id \in Ids(packs) /\ id \notin s.done
    BY <2>2 DEF NextRoot
  <2> HIDE DEF id
  <2>4. OnStack(packs, s) /\ s \in Walking(packs) /\ Len(s.stack) = 0
    BY <1>3 DEF WalkInv, OnStack
  <2>5. id \notin s.open
    BY <2>4 DEF OnStack
  <2>6. /\ OnStack(packs, t)
        /\ Left(packs, t) \subseteq Left(packs, s) /\ Left(packs, t) # Left(packs, s)
    BY <2>3, <2>4, <2>5, EntersOn
  <2>7. /\ t.done = s.done /\ t.cycles = s.cycles
        /\ t.stack = Append(s.stack, [packId |-> id, next |-> 1])
    BY <2>3, <2>4, Entered
  <2> HIDE DEF t
  <2>8. Len(t.stack) = 1 /\ t.stack[1].next = 1
    BY <1>3, <2>7
  <2>9. Examined(packs, t)
    BY <2>8 DEF Examined
  <2>10. WalkInv(packs, t)
    BY <2>6, <2>7, <2>9 DEF WalkInv
  <2> QED BY <2>1, <2>6, <2>10 DEF Nearer
<1> QED BY <1>1, <1>2, <1>3

(* The turns are finitely many.                                              *)
LEMMA FiniteTurns ==
  ASSUME NEW packs \in Seq(Manifest), Distinct(packs)
  PROVE  IsFiniteSet(Turns(packs)) /\ Cardinality(Turns(packs)) \in Nat
<1>1. IsFiniteSet(Ids(packs))
  BY IdsOfPacks
<1> DEFINE of == [id \in Ids(packs) |-> {id} \X (0 .. Len(Edges(packs, id)) + 1)]
           C == {of[id] : id \in Ids(packs)}
<1>2. \A id \in Ids(packs) : IsFiniteSet(of[id])
  <2> TAKE id \in Ids(packs)
  <2>1. Len(Edges(packs, id)) + 1 \in Int /\ 0 \in Int
    BY EdgesAre
  <2>2. IsFiniteSet(0 .. Len(Edges(packs, id)) + 1) /\ IsFiniteSet({id})
    BY <2>1, FS_Interval, FS_Singleton
  <2> QED BY <2>2, FS_Product
<1>3. of \in Surjection(Ids(packs), C)
  BY DEF Surjection
<1>4. IsFiniteSet(C)
  BY <1>1, <1>3, FS_Surjection
<1>5. \A S \in C : IsFiniteSet(S)
  BY <1>2
<1>6. Turns(packs) = UNION C
  BY DEF Turns
<1> QED BY <1>4, <1>5, <1>6, FS_UNION, FS_CardinalityType

Unwalked == [open |-> {}, done |-> {}, stack |-> <<>>, cycles |-> {}]

LEMMA Unwalks == ASSUME NEW packs PROVE WalkInv(packs, Unwalked)
<1>1. Unwalked \in Walking(packs)
  BY DEF Unwalked, Walking
<1>2. OnStack(packs, Unwalked)
  BY <1>1 DEF OnStack, Unwalked
<1>3. Loadable(packs, {}) /\ Examined(packs, Unwalked)
  BY DEF Loadable, Examined, Unwalked
<1> QED BY <1>2, <1>3 DEF WalkInv, Unwalked

(* FindCycles is what a walk of as many turns as there are has found.        *)
Walks(packs, f) ==
  /\ f[0] = Unwalked
  /\ \A n \in 0 .. Cardinality(Turns(packs)) : WalkInv(packs, f[n])
  /\ \A n \in 1 .. Cardinality(Turns(packs)) : f[n] = Onward(packs, f[n - 1])

LEMMA IsWalk ==
  ASSUME NEW packs \in Seq(Manifest), Distinct(packs)
  PROVE  \E f : Walks(packs, f) /\ FindCycles(packs) = f[Cardinality(Turns(packs))].cycles
<1> DEFINE N == Cardinality(Turns(packs))
           T == {s \in Walking(packs) : WalkInv(packs, s)}
           step == [n \in 1 .. N |-> [s \in T |-> Onward(packs, s)]]
           IsOne(f) == f = [n \in 0 .. N |-> IF n = 0 THEN Unwalked ELSE Onward(packs, f[n - 1])]
<1>1. N \in Nat
  BY FiniteTurns
<1>2. Unwalked \in T
  BY Unwalks DEF WalkInv, OnStack
<1>3. \A s \in T : Onward(packs, s) \in T
  <2> TAKE s \in T
  <2>1. WalkInv(packs, Onward(packs, s))
    BY Going DEF Nearer
  <2> QED BY <2>1 DEF WalkInv, OnStack
<1> HIDE DEF N, T
<1>4. step \in [1 .. N -> [T -> T]] /\ \A n \in 1 .. N : \A s \in T : step[n][s] = Onward(packs, s)
  BY <1>3
<1> HIDE DEF step
<1>5. PICK f \in [0 .. N -> T] : Iterates(f, N, Unwalked, step)
  BY <1>1, <1>2, <1>4, IterationExists
<1>6. IsOne(f)
  <2>1. ASSUME NEW n \in 0 .. N
        PROVE  (IF n = 0 THEN Unwalked ELSE step[n][f[n - 1]]) = IF n = 0 THEN Unwalked ELSE Onward(packs, f[n - 1])
    <3>1. CASE n = 0
      BY <3>1
    <3>2. CASE n # 0
      <4>1. n \in 1 .. N /\ n - 1 \in 0 .. N
        BY <1>1, <3>2
      <4>2. step[n][f[n - 1]] = Onward(packs, f[n - 1])
        BY <1>4, <1>5, <4>1
      <4> QED BY <3>2, <4>2
    <3> QED BY <3>1, <3>2
  <2>2. [n \in 0 .. N |-> IF n = 0 THEN Unwalked ELSE step[n][f[n - 1]]]
        = [n \in 0 .. N |-> IF n = 0 THEN Unwalked ELSE Onward(packs, f[n - 1])]
    BY <2>1
  <2> QED BY <1>5, <2>2 DEF Iterates
<1> DEFINE g == CHOOSE h : IsOne(h)
<1>7. IsOne(g)
  <2> HIDE DEF IsOne
  <2> QED BY <1>6
<1>8. FindCycles(packs) = g[N].cycles
  BY Zenon DEF FindCycles, Unwalked, N
<1> HIDE DEF g
<1>9. g[0] = Unwalked /\ \A n \in 1 .. N : g[n] = Onward(packs, g[n - 1])
  <2>1. 0 \in 0 .. N /\ \A n \in 1 .. N : n \in 0 .. N /\ n # 0
    BY <1>1
  <2> QED BY <1>7, <2>1
<1>10. \A n \in 0 .. N : g[n] \in T
  <2> DEFINE S == {n \in Nat : n <= N => g[n] \in T}
  <2>1. 0 \in S
    BY <1>2, <1>9
  <2>2. \A n \in Nat : n \in S => n + 1 \in S
    <3> SUFFICES ASSUME NEW n \in Nat, n \in S, n + 1 <= N PROVE g[n + 1] \in T
      OBVIOUS
    <3>1. n + 1 \in 1 .. N /\ (n + 1) - 1 = n /\ g[n] \in T
      BY <1>1
    <3> QED BY <1>3, <1>9, <3>1
  <2>3. Nat \subseteq S
    <3> HIDE DEF S
    <3> QED BY <2>1, <2>2, Induction
  <2> QED BY <1>1, <2>3
<1>11. Walks(packs, g)
  BY <1>9, <1>10 DEF Walks, N, T
<1> QED BY <1>8, <1>11 DEF N

(* And it is at its end by then.                                             *)
LEMMA WalkEnds ==
  ASSUME NEW packs \in Seq(Manifest), Distinct(packs), NEW f, Walks(packs, f)
  PROVE  Finished(packs, f[Cardinality(Turns(packs))])
<1> DEFINE N == Cardinality(Turns(packs))
           Size(n) == Cardinality(Left(packs, f[n]))
<1>1. IsFiniteSet(Turns(packs)) /\ N \in Nat
  BY FiniteTurns
<1>2. \A n \in 0 .. N : IsFiniteSet(Left(packs, f[n])) /\ Size(n) \in Nat /\ Size(n) <= N
  <2> TAKE n \in 0 .. N
  <2>1. Left(packs, f[n]) \in SUBSET Turns(packs)
    BY DEF Left
  <2>2. IsFiniteSet(Left(packs, f[n])) /\ Size(n) <= N
    BY <1>1, <2>1, FS_Subset
  <2> QED BY <2>2, FS_CardinalityType
<1> HIDE DEF N
<1>3. ASSUME NEW n \in 1 .. N
      PROVE  IF Finished(packs, f[n - 1]) THEN f[n] = f[n - 1] ELSE Size(n) < Size(n - 1)
  <2>1. n \in 0 .. N /\ n - 1 \in 0 .. N
    BY <1>1
  <2>2. f[n] = Onward(packs, f[n - 1]) /\ WalkInv(packs, f[n - 1])
    BY <2>1 DEF Walks, N
  <2>3. CASE Finished(packs, f[n - 1])
    BY <2>2, <2>3, Going
  <2>4. CASE ~Finished(packs, f[n - 1])
    <3>1. Left(packs, f[n]) \in SUBSET Left(packs, f[n - 1]) /\ Left(packs, f[n]) # Left(packs, f[n - 1])
      BY <2>2, <2>4, Going DEF Nearer
    <3>2. Size(n) <= Size(n - 1) /\ Size(n) # Size(n - 1)
      BY <1>2, <2>1, <3>1, FS_Subset
    <3> QED BY <1>2, <2>1, <2>4, <3>2
  <2> QED BY <2>3, <2>4
<1> HIDE DEF Size
<1>4. \A n \in 0 .. N : Finished(packs, f[n]) \/ Size(n) <= N - n
  <2> DEFINE S == {n \in Nat : n <= N => Finished(packs, f[n]) \/ Size(n) <= N - n}
  <2>1. 0 \in S
    BY <1>1, <1>2
  <2>2. \A n \in Nat : n \in S => n + 1 \in S
    <3> SUFFICES ASSUME NEW n \in Nat, n \in S, n + 1 <= N
                 PROVE Finished(packs, f[n + 1]) \/ Size(n + 1) <= N - (n + 1)
      OBVIOUS
    <3>1. n + 1 \in 1 .. N /\ (n + 1) - 1 = n /\ n \in 0 .. N /\ n + 1 \in 0 .. N
      BY <1>1
    <3>2. CASE Finished(packs, f[n])
      BY <1>3, <3>1, <3>2
    <3>3. CASE ~Finished(packs, f[n])
      BY <1>1, <1>2, <1>3, <3>1, <3>3
    <3> QED BY <3>2, <3>3
  <2>3. Nat \subseteq S
    <3> HIDE DEF S
    <3> QED BY <2>1, <2>2, Induction
  <2> QED BY <1>1, <2>3
<1>5. ASSUME ~Finished(packs, f[N]) PROVE FALSE
  <2>1. N \in 0 .. N /\ Size(N) = 0
    BY <1>1, <1>2, <1>4, <1>5
  <2>2. Left(packs, f[N]) = {}
    BY <1>2, <2>1, FS_EmptySet DEF Size
  <2>3. WalkInv(packs, f[N])
    BY <2>1 DEF Walks, N
  <2>4. Nearer(packs, f[N], Onward(packs, f[N]))
    BY <1>5, <2>3, Going
  <2> QED BY <2>2, <2>4 DEF Nearer
<1> QED BY <1>5 DEF N

(* If no cycle is reported, every set of packs has one to load first.        *)
LEMMA NoCycle ==
  ASSUME NEW packs \in Seq(Manifest), Distinct(packs), FindCycles(packs) = {},
         NEW C \in (SUBSET Ids(packs)) \ {{}}
  PROVE  \E id \in C : Range(ById(packs, id).dependencies) \cap C = {}
<1> DEFINE N == Cardinality(Turns(packs))
<1>1. PICK f : Walks(packs, f) /\ FindCycles(packs) = f[N].cycles
  BY IsWalk
<1>2. Finished(packs, f[N])
  BY <1>1, WalkEnds
<1>3. N \in 0 .. N
  BY FiniteTurns
<1>4. WalkInv(packs, f[N])
  BY <1>1, <1>3 DEF Walks
<1>5. f[N].done \in SUBSET Ids(packs)
  BY <1>4 DEF WalkInv, OnStack, Walking
<1>6. Loadable(packs, Ids(packs))
  <2>1. Loadable(packs, f[N].done)
    BY <1>1, <1>4 DEF WalkInv
  <2>2. f[N].done = Ids(packs)
    BY <1>2, <1>5 DEF Finished
  <2> QED BY <2>1, <2>2
<1>7. PICK id \in C : \A k \in 1 .. Len(Edges(packs, id)) : Edges(packs, id)[k] \notin C
  BY <1>6 DEF Loadable
<1>8. ASSUME NEW d \in Range(ById(packs, id).dependencies) \cap C PROVE FALSE
  <2>1. d \in Range(ById(packs, id).dependencies) \cap Ids(packs) /\ id \in Ids(packs)
    OBVIOUS
  <2>2. PICK k \in 1 .. Len(Edges(packs, id)) : Edges(packs, id)[k] = d
    BY <2>1, EdgesAre
  <2> QED BY <1>7, <2>2
<1> QED BY <1>8

-----------------------------------------------------------------------------
LEMMA Cleanly == PackInv => CleanIsUnambiguous
<1> SUFFICES ASSUME PackInv, IsResolutionClean(supplied) PROVE CleanIsUnambiguous
  BY DEF CleanIsUnambiguous
<1>1. supplied \in Seq(Manifest) /\ Distinct(supplied)
  BY NoDuplicates DEF IsResolutionClean, PackInv
<1>2. ASSUME NEW key \in DOMAIN Claims(supplied),
             NEW holder, holder = ById(supplied, Claims(supplied)[key].holder),
             NEW p \in Range(supplied), Applies(p), Resolvable(p), key \in p.provides, p # holder
      PROVE  \/ AuthorityRank[p.authority] < AuthorityRank[holder.authority]
             \/ /\ AuthorityRank[p.authority] = AuthorityRank[holder.authority]
                /\ \/ EffectivePrecedence(p) < EffectivePrecedence(holder)
                   \/ EffectivePrecedence(p) = EffectivePrecedence(holder) /\ p.authority # "normative"
  <2>1. PICK i \in DOMAIN supplied : supplied[i] = p
    BY DEF Range
  <2>2. i \in Claimants(supplied, key)
    BY <1>2, <2>1 DEF Claimants, InForce
  <2>3. key \in Claimed(supplied)
    BY DEF Claims
  <2>4. key \notin Conflicts(supplied)
    BY DEF IsResolutionClean
  <2>5. supplied[i] # holder
    BY <1>2, <2>1
  <2> QED BY <1>1, <1>2, <2>1, <2>2, <2>3, <2>4, <2>5, HolderPrevails
<1>3. \A C \in (SUBSET Ids(supplied)) \ {{}} :
        \E id \in C : Range(ById(supplied, id).dependencies) \cap C = {}
  BY <1>1, NoCycle DEF IsResolutionClean
<1> QED BY <1>2, <1>3 DEF CleanIsUnambiguous

(* Whoever acts on a clean resolution acts on no silent choice: no pack in   *)
(* force is as strong as the holder of a claim and normative, none outranks  *)
(* it, and every set of packs has one that can be loaded before the others   *)
(* (knowledge/resolve.ts, resolveKnowledgePacks and findCycles).             *)
THEOREM Unambiguous == PackSpec => []CleanIsUnambiguous
BY PackStarts, PackSteps, Cleanly, PTL DEF PackSpec
=============================================================================
