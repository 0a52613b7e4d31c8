------------------------ MODULE Reconciliation_proofs ------------------------
(***************************************************************************)
(* Proofs about Reconciliation, for any operators, decisions and number of  *)
(* observations, however often calls die: decisions accumulate and are      *)
(* never overwritten, and a reservation ends only when every unrecorded     *)
(* observation is decided.                                                  *)
(***************************************************************************)
EXTENDS Reconciliation, FiniteSetTheorems, TLAPS

Entry == [kind : Kind, dec : Decision \cup {NoDecision}, obs : Obs \cup {NoObs}]
CostRecord == [id : Obs \cup {Whole}, status : {"charged", "free", "unknown"}]

(* The two histories are sequences of such entries.                         *)
Recording ==
  history \in Seq(Entry) /\ costs \in Seq(CostRecord) /\ rev \in [Operator -> Nat] /\ TypeOK

(* The charge was left unknown once, before anybody decided: what ends the  *)
(* reservation can only be a terminal transition.                           *)
HistoryInv ==
  /\ Len(history) >= 3
  /\ \A i \in 1 .. Len(history) : history[i].kind = "billing_unknown" <=> i = 3

(* A call that got past its checks knows what it saw: nothing is pending    *)
(* that was not pending then; from its decision on the record, and a        *)
(* decision about to be appended is new as long as its revision is current. *)
Called(o) ==
  /\ pc[o] # "idle" => dec[o] \in Decision
  /\ pc[o] \in {"decide", "decide_cas", "effect", "write", "remaining"} =>
       Pending \subseteq pending[o] /\ covered[o] \in {NoObs, dec[o].obs}
  /\ pc[o] = "decide_cas" => \A i \in 1 .. rev[o] : i \notin Recorded(dec[o])
  /\ pc[o] \in {"effect", "write", "remaining"} => dec[o] \in Decisions
  /\ pc[o] \in {"final", "final_cas"} => Pending = {} /\ final[o] \in Terminal

CallInv == \A o \in Operator : Called(o)

(* One transition per identity, and none that ends while one is pending.    *)
RecordInv ==
  /\ \A d \in Decision : \A i, j \in Recorded(d) : i = j
  /\ Has(history, "settled") \/ Has(history, "released") => Pending = {}

Inductive == Recording /\ HistoryInv /\ CallInv /\ RecordInv

-----------------------------------------------------------------------------
LEMMA Appended ==
  ASSUME NEW h \in Seq(Entry), NEW t \in Entry
  PROVE  /\ Append(h, t) \in Seq(Entry) /\ Len(h) \in Nat /\ Len(Append(h, t)) = Len(h) + 1
         /\ \A i \in 1 .. Len(h) : Append(h, t)[i] = h[i]
         /\ Append(h, t)[Len(h) + 1] = t
OBVIOUS

(* Decisions accumulate, so that what is pending only shrinks.              *)
LEMMA Accumulates ==
  ASSUME history \in Seq(Entry), NEW t \in Entry, history' = Append(history, t), UNCHANGED declared
  PROVE  /\ Len(history') = Len(history) + 1 /\ Len(history) \in Nat
         /\ \A d : Recorded(d)' = IF t.kind = "reconciled" /\ t.dec.id = d.id
                                  THEN Recorded(d) \cup {Len(history) + 1} ELSE Recorded(d)
         /\ Decisions \subseteq Decisions' /\ Pending' \subseteq Pending
         /\ t.kind = "reconciled" => t.dec \in Decisions'
         /\ \A kind : Has(history', kind) => Has(history, kind) \/ kind = t.kind
<1>1. /\ Len(history) \in Nat /\ Len(history') = Len(history) + 1
      /\ \A i \in 1 .. Len(history) : history'[i] = history[i]
      /\ history'[Len(history) + 1] = t
  BY Appended
<1>2. 1 .. Len(history') = (1 .. Len(history)) \cup {Len(history) + 1} /\ Len(history) + 1 \notin 1 .. Len(history)
  BY <1>1
<1>3. ASSUME NEW d
      PROVE  Recorded(d)' = IF t.kind = "reconciled" /\ t.dec.id = d.id
                            THEN Recorded(d) \cup {Len(history) + 1} ELSE Recorded(d)
  <2>1. Recorded(d)' = {i \in 1 .. Len(history') : history'[i].kind = "reconciled" /\ history'[i].dec.id = d.id}
    BY DEF Recorded
  <2> QED BY <1>1, <1>2, <2>1 DEF Recorded
<1>4. Decisions' = {history'[i].dec : i \in {j \in 1 .. Len(history') : history'[j].kind = "reconciled"}}
  BY DEF Decisions
<1>5. Decisions \subseteq Decisions'
  BY <1>1, <1>2, <1>4 DEF Decisions
<1>6. Pending' \subseteq Pending
  BY <1>5 DEF Pending
<1>7. t.kind = "reconciled" => t.dec \in Decisions'
  BY <1>1, <1>2, <1>4
<1>8. \A kind : Has(history', kind) => Has(history, kind) \/ kind = t.kind
  BY <1>1, <1>2 DEF Has
<1> QED BY <1>1, <1>3, <1>5, <1>6, <1>7, <1>8

(* Without a terminal transition the charge is unknown.                     *)
LEMMA EndsByTerminal ==
  ASSUME history \in Seq(Entry), HistoryInv, Status(history) \in Terminal
  PROVE  Has(history, "settled") \/ Has(history, "released")
<1> SUFFICES ASSUME ~Has(history, "settled"), ~Has(history, "released") PROVE FALSE
  OBVIOUS
<1> DEFINE statuses == {i \in 1 .. Len(history) : history[i].kind \in Terminal \cup {"billing_unknown"}}
<1>1. Len(history) \in Nat /\ statuses = {3} /\ 3 <= 3
  BY DEF HistoryInv, Has, Terminal
<1>2. (CHOOSE i \in statuses : \A j \in statuses : j <= i) = 3
  BY <1>1
<1>3. history # <<>> /\ history[3].kind = "billing_unknown"
  BY <1>1 DEF HistoryInv
<1>4. Status(history) = "billing_unknown"
  BY <1>1, <1>2, <1>3 DEF Status
<1> QED BY <1>4 DEF Terminal

-----------------------------------------------------------------------------
LEMMA InitInductive == Init => Inductive
<1> SUFFICES ASSUME Init PROVE Inductive
  OBVIOUS
<1>1. history = <<Transition("reserved"), Transition("dispatch_prepared"), Transition("billing_unknown")>>
  BY DEF Init
<1>2. history \in Seq(Entry) /\ Len(history) = 3
  <2>1. \A kind \in Kind : Transition(kind) \in Entry
    BY DEF Transition, Entry
  <2>2. {"reserved", "dispatch_prepared", "billing_unknown"} \subseteq Kind
    BY DEF Kind
  <2> QED BY <1>1, <2>1, <2>2
<1>3. PICK k \in 0 .. N, reported \in [Obs -> {"charged", "free", "unknown"}] :
        /\ declared \in IF k = 0 THEN {{}, Obs} ELSE {{x \in Obs : x > k}}
        /\ costs = [x \in 1 .. k |-> [id |-> x, status |-> reported[x]]]
  BY DEF Init
<1>4. declared \subseteq Obs /\ costs \in Seq(CostRecord) /\ Len(costs) = k
  <2>1. k \in Nat /\ 1 .. k \subseteq Obs
    BY <1>3, ObsAssumption DEF Obs
  <2>2. \A x \in 1 .. k : [id |-> x, status |-> reported[x]] \in CostRecord
    BY <1>3, <2>1 DEF CostRecord
  <2> QED BY <1>3, <2>1, <2>2
<1>5. \A i \in 1 .. Len(costs) : costs[i] \in CostRecord
  BY <1>4
<1>6. \A i \in 1 .. Len(history) : history[i] \in Entry /\ history[i].kind \in {"reserved", "dispatch_prepared", "billing_unknown"}
  BY <1>1, <1>2 DEF Transition
<1>7. TypeOK
  BY <1>2, <1>4, <1>5, <1>6 DEF TypeOK, Init, Entry, CostRecord
<1>8. HistoryInv
  BY <1>1, <1>2 DEF HistoryInv, Transition
<1>9. CallInv
  BY DEF Init, CallInv, Called
<1>10. RecordInv
  BY <1>6 DEF RecordInv, Recorded, Has
<1>11. rev \in [Operator -> Nat]
  BY DEF Init
<1> QED BY <1>2, <1>4, <1>7, <1>8, <1>9, <1>10, <1>11 DEF Inductive, Recording

-----------------------------------------------------------------------------
(* What a step of one operator leaves alone, and what it may do to the      *)
(* record.                                                                  *)
Local(o) ==
  /\ pc' = [pc EXCEPT ![o] = pc'[o]] /\ dec' = [dec EXCEPT ![o] = dec'[o]]
  /\ pending' = [pending EXCEPT ![o] = pending'[o]] /\ covered' = [covered EXCEPT ![o] = covered'[o]]
  /\ rev' = [rev EXCEPT ![o] = rev'[o]] /\ final' = [final EXCEPT ![o] = final'[o]]

Place == {"idle", "read", "investigation", "decide", "decide_cas", "effect", "write", "remaining", "final", "final_cas"}

Typed(o) ==
  /\ pc[o] \in Place /\ dec[o] \in Decision \cup {NoDecision} /\ pending[o] \subseteq declared
  /\ covered[o] \in Obs \cup {NoObs} /\ rev[o] \in 0 .. Len(history) /\ final[o] \in Terminal \cup {"none"}

Same == UNCHANGED <<history, declared>>

Grows ==
  /\ UNCHANGED declared
  /\ history' \in Seq(Entry) /\ Len(history) \in Nat /\ Len(history') >= Len(history)
  /\ \A d \in Decision : Recorded(d)' \subseteq Recorded(d) \cup {Len(history) + 1}
  /\ Decisions \subseteq Decisions' /\ Pending' \subseteq Pending

LEMMA SameGrows == ASSUME Recording, Same PROVE Grows /\ Pending' = Pending /\ Decisions' = Decisions
<1>1. Recording /\ Same
  OBVIOUS
<1>2. Decisions' = Decisions /\ Pending' = Pending /\ \A d \in Decision : Recorded(d)' = Recorded(d)
  BY <1>1 DEF Same, Decisions, Pending, Recorded
<1>3. Len(history) \in Nat /\ history' \in Seq(Entry) /\ Len(history') = Len(history)
  BY <1>1 DEF Same, Recording
<1> QED BY <1>1, <1>2, <1>3 DEF Same, Grows

LEMMA AppendGrows ==
  ASSUME Recording, NEW t \in Entry, history' = Append(history, t), UNCHANGED declared
  PROVE  Grows
<1>1. history \in Seq(Entry) /\ history' \in Seq(Entry)
  BY Appended DEF Recording
<1> QED BY <1>1, Accumulates DEF Grows

(* The invariants of the calls, once the caller's own entries are known.    *)
LEMMA Calls ==
  ASSUME Recording, CallInv, Grows, costs' \in Seq(CostRecord),
         NEW o \in Operator, Local(o), Typed(o)', Called(o)'
  PROVE  Recording' /\ CallInv'
<1>1. \A i \in 1 .. Len(history') : history'[i] \in Entry
  BY DEF Grows
<1>2. \A i \in 1 .. Len(costs') : costs'[i] \in CostRecord
  OBVIOUS
<1>3. /\ pc' \in [Operator -> Place] /\ dec' \in [Operator -> Decision \cup {NoDecision}]
      /\ pending' \in [Operator -> SUBSET declared'] /\ covered' \in [Operator -> Obs \cup {NoObs}]
      /\ final' \in [Operator -> Terminal \cup {"none"}]
  <2>1. /\ pc \in [Operator -> Place] /\ dec \in [Operator -> Decision \cup {NoDecision}]
        /\ pending \in [Operator -> SUBSET declared] /\ covered \in [Operator -> Obs \cup {NoObs}]
        /\ final \in [Operator -> Terminal \cup {"none"}]
    BY DEF Recording, TypeOK, Place
  <2>2. /\ pc'[o] \in Place /\ dec'[o] \in Decision \cup {NoDecision} /\ pending'[o] \in SUBSET declared
        /\ covered'[o] \in Obs \cup {NoObs} /\ final'[o] \in Terminal \cup {"none"} /\ declared' = declared
    BY DEF Typed, Grows
  <2>3. pc' \in [Operator -> Place] /\ dec' \in [Operator -> Decision \cup {NoDecision}]
    BY <2>1, <2>2 DEF Local
  <2>4. pending' \in [Operator -> SUBSET declared] /\ covered' \in [Operator -> Obs \cup {NoObs}]
    BY <2>1, <2>2 DEF Local
  <2>5. final' \in [Operator -> Terminal \cup {"none"}]
    BY <2>1, <2>2 DEF Local
  <2> QED BY <2>2, <2>3, <2>4, <2>5
<1>4. ASSUME NEW p \in Operator, p # o
      PROVE  /\ pc'[p] = pc[p] /\ dec'[p] = dec[p] /\ pending'[p] = pending[p]
             /\ covered'[p] = covered[p] /\ rev'[p] = rev[p] /\ final'[p] = final[p]
  <2>1. pc'[p] = [pc EXCEPT ![o] = pc'[o]][p] /\ dec'[p] = [dec EXCEPT ![o] = dec'[o]][p]
    BY Zenon DEF Local
  <2>2. pending'[p] = [pending EXCEPT ![o] = pending'[o]][p] /\ covered'[p] = [covered EXCEPT ![o] = covered'[o]][p]
    BY Zenon DEF Local
  <2>3. rev'[p] = [rev EXCEPT ![o] = rev'[o]][p] /\ final'[p] = [final EXCEPT ![o] = final'[o]][p]
    BY Zenon DEF Local
  <2> QED BY <1>4, <2>1, <2>2, <2>3 DEF Recording, TypeOK
<1>5. ASSUME NEW p \in Operator PROVE rev'[p] \in 0 .. Len(history')
  <2>1. rev'[o] \in 0 .. Len(history')
    BY DEF Typed
  <2>2. p # o => rev'[p] \in 0 .. Len(history)
    BY <1>4 DEF Recording, TypeOK
  <2>3. Len(history) \in Nat /\ Len(history') \in Nat /\ Len(history') >= Len(history)
    BY DEF Grows
  <2> QED BY <2>1, <2>2, <2>3
<1>6. TypeOK'
  BY <1>1, <1>2, <1>3, <1>5 DEF TypeOK, Entry, CostRecord, Place, Recording, Grows
<1>7. ASSUME NEW p \in Operator, p # o PROVE Called(p)'
  <2>1. Called(p) /\ rev[p] \in 0 .. Len(history) /\ Len(history) \in Nat
    BY DEF CallInv, Recording, TypeOK, Grows
  <2>2. ASSUME pc[p] = "decide_cas", NEW i \in 1 .. rev[p] PROVE i \notin Recorded(dec[p])'
    <3>1. dec[p] \in Decision /\ i \notin Recorded(dec[p]) /\ i # Len(history) + 1
      BY <2>1, <2>2 DEF Called
    <3>2. dec'[p] = dec[p]
      BY <1>4, <1>7
    <3>3. ASSUME NEW d \in Decision, d = dec'[p] PROVE Recorded(d)' = Recorded(dec[p])'
      BY <3>3 DEF Recorded
    <3> QED BY <3>1, <3>2, <3>3 DEF Grows
  <2>5. pc'[p] = "decide_cas" => \A i \in 1 .. rev'[p] : i \notin Recorded(dec[p])'
    BY <1>4, <1>7, <2>2
  <2>6. /\ pc'[p] # "idle" => dec'[p] \in Decision
        /\ pc'[p] \in {"decide", "decide_cas", "effect", "write", "remaining"} =>
             Pending' \subseteq pending'[p] /\ covered'[p] \in {NoObs, dec'[p].obs}
        /\ pc'[p] \in {"effect", "write", "remaining"} => dec'[p] \in Decisions'
        /\ pc'[p] \in {"final", "final_cas"} => Pending' = {} /\ final'[p] \in Terminal
    BY <1>4, <1>7, <2>1 DEF Called, Grows
  <2> QED BY <2>5, <2>6 DEF Called
<1>8. rev' \in [Operator -> Nat]
  <2>1. rev'[o] \in Nat /\ rev \in [Operator -> Nat]
    BY <1>5 DEF Recording
  <2> QED BY <2>1 DEF Local
<1> QED BY <1>6, <1>7, <1>8 DEF Recording, CallInv, Grows

(* The invariant of the record under a step that appends nothing, and one   *)
(* that appends an entry.                                                   *)
LEMMA SameRecord ==
  ASSUME Recording, HistoryInv, RecordInv, Same
  PROVE  HistoryInv' /\ RecordInv'
<1>1. history' = history /\ Pending' = Pending /\ \A d \in Decision : Recorded(d)' = Recorded(d)
  BY DEF Same, Recorded, Pending, Decisions
<1>2. HistoryInv'
  BY <1>1 DEF HistoryInv
<1>3. \A d \in Decision : \A i, j \in Recorded(d)' : i = j
  BY <1>1 DEF RecordInv
<1>4. Has(history', "settled") \/ Has(history', "released") => Pending' = {}
  BY <1>1 DEF RecordInv
<1> QED BY <1>2, <1>3, <1>4 DEF RecordInv, Has

LEMMA AppendRecord ==
  ASSUME Recording, HistoryInv, RecordInv, UNCHANGED declared,
         NEW t \in Entry, history' = Append(history, t), t.kind # "billing_unknown",
         t.kind = "reconciled" => \A i \in 1 .. Len(history) : i \notin Recorded(t.dec),
         t.kind \in Terminal => Pending = {}
  PROVE  HistoryInv' /\ RecordInv'
<1>1. history \in Seq(Entry)
  BY DEF Recording
<1>2. HistoryInv'
  BY <1>1, Appended DEF HistoryInv
<1>3. ASSUME NEW d \in Decision, NEW i \in Recorded(d)', NEW j \in Recorded(d)' PROVE i = j
  <2>1. CASE t.kind = "reconciled" /\ t.dec.id = d.id
    <3>1. Recorded(d) = Recorded(t.dec) /\ Recorded(d) \subseteq 1 .. Len(history)
      BY <2>1 DEF Recorded
    <3> QED BY <1>1, <1>3, <2>1, <3>1, Accumulates
  <2>2. CASE ~(t.kind = "reconciled" /\ t.dec.id = d.id)
    BY <1>1, <1>3, <2>2, Accumulates DEF RecordInv
  <2> QED BY <2>1, <2>2
<1>4. Has(history', "settled") \/ Has(history', "released") => Pending' = {}
  <2>1. Pending' \subseteq Pending /\ \A kind : Has(history', kind) => Has(history, kind) \/ kind = t.kind
    BY <1>1, Accumulates
  <2> QED BY <2>1 DEF RecordInv, Terminal
<1> QED BY <1>2, <1>3, <1>4 DEF RecordInv, Has

LEMMA DoneLocal ==
  ASSUME Recording, NEW o \in Operator, Done(o), Grows
  PROVE  Local(o) /\ Typed(o)' /\ Called(o)'
<1>1. /\ pc'[o] = "idle" /\ dec'[o] = NoDecision /\ pending'[o] = {} /\ covered'[o] = NoObs
      /\ rev'[o] = 0 /\ final'[o] = "none"
  BY DEF Done, Goto, Recording, TypeOK
<1>2. Local(o)
  BY <1>1 DEF Done, Goto, Local
<1>3. Typed(o)'
  BY <1>1 DEF Typed, Place, Grows
<1>4. Called(o)'
  BY <1>1 DEF Called
<1> QED BY <1>2, <1>3, <1>4

-----------------------------------------------------------------------------
(* The steps that append nothing.                                           *)
Quiet(o) == Same /\ costs' \in Seq(CostRecord)

LEMMA QuietStep ==
  ASSUME Inductive, NEW o \in Operator, Quiet(o), Local(o), Typed(o)', Called(o)'
  PROVE  Inductive'
BY SameGrows, SameRecord, Calls DEF Inductive, Quiet

LEMMA QuietDone ==
  ASSUME Inductive, NEW o \in Operator, Done(o), UNCHANGED <<history, declared, costs>>
  PROVE  Inductive'
<1>1. Quiet(o)
  BY DEF Quiet, Same, Inductive, Recording
<1> QED BY <1>1, SameGrows, DoneLocal, QuietStep DEF Inductive, Quiet

LEMMA Goes ==
  ASSUME Recording, NEW o \in Operator, NEW l \in Place, Goto(o, l)
  PROVE  pc' = [pc EXCEPT ![o] = pc'[o]] /\ pc'[o] = l
BY DEF Goto, Recording, TypeOK

LEMMA Submits ==
  ASSUME Inductive, NEW o \in Operator, NEW d \in Decision, Submit(o, d)
  PROVE  Inductive'
<1>1. Recording /\ Called(o)
  BY DEF Inductive, CallInv
<1>2. pc' = [pc EXCEPT ![o] = pc'[o]] /\ pc'[o] = "read"
  BY <1>1, Goes DEF Submit, Place
<1>3. dec' = [dec EXCEPT ![o] = dec'[o]] /\ dec'[o] = d
  BY <1>1 DEF Submit, Recording, TypeOK
<1>4. UNCHANGED <<history, declared, costs, pending, covered, rev, final>>
  BY DEF Submit
<1>5. Local(o) /\ Typed(o)' /\ Called(o)'
  BY <1>1, <1>2, <1>3, <1>4 DEF Local, Typed, Called, Recording, TypeOK, Place
<1> QED BY <1>1, <1>4, <1>5, QuietStep DEF Quiet, Same, Recording

(* A call moves on and keeps what it knows.                                 *)
Keeps(o) == UNCHANGED <<history, declared, dec, pending, covered, rev, final>>

LEMMA Moves ==
  ASSUME Inductive, NEW o \in Operator, NEW l \in Place, Goto(o, l), Keeps(o), costs' \in Seq(CostRecord),
         pc[o] # "idle", l # "decide_cas",
         l \in {"decide", "effect", "write", "remaining"} => pc[o] \in {"decide", "decide_cas", "effect", "write", "remaining"},
         l \in {"effect", "write", "remaining"} => dec[o] \in Decisions,
         l \notin {"final", "final_cas"}
  PROVE  Inductive'
<1>1. Recording /\ Called(o)
  BY DEF Inductive, CallInv
<1>2. pc' = [pc EXCEPT ![o] = pc'[o]] /\ pc'[o] = l
  BY <1>1, Goes
<1>3. Pending' = Pending /\ Decisions' = Decisions /\ Same
  BY DEF Keeps, Pending, Decisions, Same
<1>4. Local(o)
  BY <1>1, <1>2 DEF Local, Keeps, Recording, TypeOK
<1>5. Typed(o)'
  BY <1>1, <1>2 DEF Typed, Keeps, Recording, TypeOK
<1>6. Called(o)'
  BY <1>1, <1>2, <1>3 DEF Called, Keeps
<1> QED BY <1>3, <1>4, <1>5, <1>6, QuietStep DEF Quiet

LEMMA Prioritized == \A d : Prior(d) \subseteq Decisions
BY DEF Prior, Recorded, Decisions

LEMMA ReadsCovered ==
  ASSUME Inductive, NEW o \in Operator, ReadCovered(o)
  PROVE  Inductive'
<1>1. Recording /\ Called(o) /\ pc[o] = "read"
  BY DEF Inductive, CallInv, ReadCovered, Resolving
<1>2. PICK l \in {"effect", "decide"} : Goto(o, l) /\ (l = "effect" => dec[o] \in Prior(dec[o]))
  BY DEF ReadCovered
<1>3. pc' = [pc EXCEPT ![o] = pc'[o]] /\ pc'[o] = l
  BY <1>1, <1>2, Goes DEF Place
<1>4. dec[o] \in Decision /\ dec[o].obs \in Obs \cup {NoObs}
  BY <1>1, DecisionAssumption DEF Called
<1>5. Covers(o) \in {NoObs, dec[o].obs}
  BY DEF Covers
<1>6. /\ pending' = [pending EXCEPT ![o] = Pending] /\ covered' = [covered EXCEPT ![o] = Covers(o)]
      /\ UNCHANGED <<history, declared, costs, dec, rev, final>>
  BY DEF ReadCovered
<1>7. pending'[o] = Pending /\ covered'[o] = Covers(o) /\ Pending \subseteq declared
  BY <1>1, <1>6 DEF Recording, TypeOK, Pending
<1>8. Pending' = Pending /\ Decisions' = Decisions
  BY <1>6 DEF Pending, Decisions
<1>9. Local(o)
  BY <1>1, <1>3, <1>6, <1>7 DEF Local, Recording, TypeOK
<1>10. Typed(o)'
  BY <1>1, <1>3, <1>4, <1>5, <1>6, <1>7 DEF Typed, Recording, TypeOK, Place
<1>11. Called(o)'
  BY <1>1, <1>2, <1>3, <1>4, <1>5, <1>6, <1>7, <1>8, Prioritized DEF Called
<1> QED BY <1>1, <1>6, <1>9, <1>10, <1>11, QuietStep DEF Quiet, Same, Recording

LEMMA RecordedDecides ==
  ASSUME NEW d, Recorded(d) # {}, \A i \in Recorded(d) : history[i].dec = d
  PROVE  d \in Decisions
BY DEF Recorded, Decisions

LEMMA ReadsToDecide ==
  ASSUME Inductive, NEW o \in Operator, DecideRead(o)
  PROVE  Inductive'
<1> DEFINE earlier == {history[i].dec : i \in Recorded(dec[o])}
<1>1. Recording /\ Called(o) /\ pc[o] = "decide" /\ UNCHANGED <<history, declared, costs>>
  BY DEF Inductive, CallInv, DecideRead
<1>2. CASE Done(o)
  BY <1>1, <1>2, QuietDone
<1>3. CASE earlier # {} /\ earlier = {dec[o]} /\ Goto(o, "effect") /\ UNCHANGED <<dec, status, pending, covered, rev, final>>
  <2>1. dec[o] \in Decisions
    BY <1>3, RecordedDecides
  <2> QED BY <1>1, <1>3, <2>1, Moves DEF Keeps, Place, Recording
<1>4. CASE earlier = {} /\ Goto(o, "decide_cas") /\ rev' = [rev EXCEPT ![o] = Len(history)]
           /\ UNCHANGED <<dec, status, pending, covered, final>>
  <2>1. pc' = [pc EXCEPT ![o] = pc'[o]] /\ pc'[o] = "decide_cas"
    BY <1>1, <1>4, Goes DEF Place
  <2>2. rev'[o] = Len(history) /\ Len(history) \in Nat
    BY <1>1, <1>4 DEF Recording
  <2>3. Recorded(dec[o]) = {} /\ Recorded(dec[o])' = Recorded(dec[o])
    BY <1>1, <1>4 DEF Recorded
  <2>4. Pending' = Pending
    BY <1>1 DEF Pending, Decisions
  <2>5. Local(o)
    BY <1>1, <1>4, <2>1, <2>2 DEF Local, Recording, TypeOK
  <2>6. Typed(o)'
    BY <1>1, <1>4, <2>1, <2>2 DEF Typed, Recording, TypeOK, Place
  <2>7. Called(o)'
    BY <1>1, <1>4, <2>1, <2>2, <2>3, <2>4 DEF Called
  <2> QED BY <1>1, <2>5, <2>6, <2>7, QuietStep DEF Quiet, Same, Recording
<1> QED BY <1>2, <1>3, <1>4 DEF DecideRead

(* The revision is given back with the answer of the store.                 *)
LEMMA GivesRevisionBack ==
  ASSUME Inductive, NEW o \in Operator, NEW l \in {"decide", "effect", "final"}, Goto(o, l),
         rev' = [rev EXCEPT ![o] = 0], UNCHANGED <<history, declared, costs, dec, pending, covered, final>>,
         l = "final" => pc[o] = "final_cas",
         l # "final" => pc[o] = "decide_cas",
         l = "effect" => dec[o] \in Decisions
  PROVE  Inductive'
<1>1. Recording /\ Called(o)
  BY DEF Inductive, CallInv
<1>2. pc' = [pc EXCEPT ![o] = pc'[o]] /\ pc'[o] = l
  BY <1>1, Goes DEF Place
<1>3. Pending' = Pending /\ Decisions' = Decisions
  BY DEF Pending, Decisions
<1>4. rev'[o] = 0 /\ Len(history) \in Nat
  BY <1>1 DEF Recording
<1>5. Local(o)
  BY <1>1, <1>2, <1>4 DEF Local, Recording, TypeOK
<1>6. Typed(o)'
  BY <1>1, <1>2, <1>4 DEF Typed, Recording, TypeOK, Place
<1>7. Called(o)'
  BY <1>1, <1>2, <1>3, <1>4 DEF Called
<1> QED BY <1>1, <1>5, <1>6, <1>7, QuietStep DEF Quiet, Same, Recording

LEMMA ClashesOrConflicts ==
  ASSUME Inductive, NEW o \in Operator, DecideClash(o) \/ DecideConflict(o)
  PROVE  Inductive'
<1>1. CASE Done(o) /\ UNCHANGED <<history, declared, costs>>
  BY <1>1, QuietDone
<1>2. CASE DecideClash(o) /\ ~Done(o)
  <2>1. dec[o] \in Decisions
    BY <1>2, RecordedDecides DEF DecideClash
  <2> QED BY <1>2, <2>1, GivesRevisionBack DEF DecideClash
<1>3. CASE DecideConflict(o)
  BY <1>3, GivesRevisionBack DEF DecideConflict
<1> QED BY <1>1, <1>2, <1>3 DEF DecideClash

-----------------------------------------------------------------------------
(* The steps that append to the history.                                    *)
LEMMA DecisionCommits ==
  ASSUME Inductive, NEW o \in Operator, DecideCommit(o)
  PROVE  Inductive'
<1> DEFINE t == [kind |-> "reconciled", dec |-> dec[o], obs |-> dec[o].obs]
<1>1. Recording /\ HistoryInv /\ CallInv /\ RecordInv /\ Called(o) /\ pc[o] = "decide_cas" /\ rev[o] = Len(history)
  BY DEF Inductive, CallInv, DecideCommit
<1>2. dec[o] \in Decision /\ dec[o].obs \in Obs \cup {NoObs}
  BY <1>1, DecisionAssumption DEF Called
<1>3. t \in Entry /\ t.kind = "reconciled" /\ t.dec = dec[o]
  BY <1>2 DEF Entry, Kind
<1>4. history' = Append(history, t) /\ UNCHANGED <<declared, costs, dec, pending, covered, final>>
  BY DEF DecideCommit
<1>5. \A i \in 1 .. Len(history) : i \notin Recorded(t.dec)
  BY <1>1, <1>3 DEF Called
<1> HIDE DEF t
<1>6. HistoryInv' /\ RecordInv'
  BY <1>1, <1>3, <1>4, <1>5, AppendRecord DEF Terminal
<1>7. Grows /\ dec[o] \in Decisions'
  BY <1>1, <1>3, <1>4, AppendGrows, Accumulates DEF Recording
<1>8. pc' = [pc EXCEPT ![o] = pc'[o]] /\ pc'[o] = "effect"
  BY <1>1, Goes DEF DecideCommit, Place
<1>9. rev' = [rev EXCEPT ![o] = 0] /\ rev'[o] = 0
  BY <1>1 DEF DecideCommit, Recording
<1>10. Local(o)
  BY <1>1, <1>4, <1>8, <1>9 DEF Local, Recording, TypeOK
<1>11. Typed(o)'
  BY <1>1, <1>4, <1>7, <1>8, <1>9 DEF Typed, Recording, TypeOK, Place, Grows
<1>12. Called(o)'
  BY <1>1, <1>2, <1>4, <1>7, <1>8 DEF Called, Grows
<1>13. Recording' /\ CallInv'
  BY <1>1, <1>4, <1>7, <1>10, <1>11, <1>12, Calls DEF Recording
<1> QED BY <1>6, <1>13 DEF Inductive

LEMMA InvestigationEnds ==
  ASSUME Inductive, NEW o \in Operator, RecordInvestigation(o)
  PROVE  Inductive'
<1> DEFINE t == [kind |-> "investigation_recorded", dec |-> dec[o], obs |-> NoObs]
<1>1. Recording /\ HistoryInv /\ CallInv /\ RecordInv /\ Called(o) /\ pc[o] = "investigation"
  BY DEF Inductive, CallInv, RecordInvestigation
<1>2. Done(o) /\ UNCHANGED <<declared, costs>>
  BY DEF RecordInvestigation
<1>3. CASE UNCHANGED history
  BY <1>2, <1>3, QuietDone
<1>4. CASE history' = Append(history, t)
  <2>1. t \in Entry /\ t.kind = "investigation_recorded"
    BY <1>1 DEF Called, Entry, Kind
  <2> HIDE DEF t
  <2>2. HistoryInv' /\ RecordInv'
    BY <1>1, <1>2, <1>4, <2>1, AppendRecord DEF Terminal
  <2>3. Grows
    BY <1>1, <1>2, <1>4, <2>1, AppendGrows
  <2>4. Recording' /\ CallInv'
    BY <1>1, <1>2, <2>3, DoneLocal, Calls DEF Recording
  <2> QED BY <2>2, <2>4 DEF Inductive
<1> QED BY <1>3, <1>4 DEF RecordInvestigation

LEMMA FinalCommits ==
  ASSUME Inductive, NEW o \in Operator, FinalCommit(o)
  PROVE  Inductive'
<1> DEFINE t == [kind |-> final[o], dec |-> dec[o], obs |-> NoObs]
<1>1. Recording /\ HistoryInv /\ CallInv /\ RecordInv /\ Called(o) /\ pc[o] = "final_cas"
  BY DEF Inductive, CallInv, FinalCommit
<1>2. Done(o) /\ UNCHANGED <<declared, costs>> /\ history' = Append(history, t)
  BY DEF FinalCommit
<1>3. t \in Entry /\ t.kind \in Terminal /\ Pending = {}
  BY <1>1 DEF Called, Entry, Kind
<1> HIDE DEF t
<1>4. HistoryInv' /\ RecordInv'
  BY <1>1, <1>2, <1>3, AppendRecord DEF Terminal
<1>5. Grows
  BY <1>1, <1>2, <1>3, AppendGrows
<1>6. Recording' /\ CallInv'
  BY <1>1, <1>2, <1>5, DoneLocal, Calls DEF Recording
<1> QED BY <1>4, <1>6 DEF Inductive

-----------------------------------------------------------------------------
(* The steps towards the terminal transition.                               *)
LEMMA ListsDurable ==
  ASSUME Inductive, NEW o \in Operator, ListDurable(o)
  PROVE  Inductive'
<1>1. Recording /\ Called(o) /\ pc[o] = "remaining" /\ pending[o] \subseteq {covered[o]}
  BY DEF Inductive, CallInv, ListDurable
<1>2. Pending = {}
  <2>1. Pending \subseteq {covered[o]} /\ dec[o] \in Decisions /\ covered[o] \in {NoObs, dec[o].obs}
    BY <1>1 DEF Called
  <2>2. Pending \subseteq Obs /\ dec[o].obs \notin Pending
    BY <1>1, <2>1 DEF Pending, Recording, TypeOK
  <2> QED BY <2>1, <2>2, NoObsAssumption
<1>3. PICK f \in Terminal : final' = [final EXCEPT ![o] = f]
  <2>1. PICK b \in BOOLEAN : final' = [final EXCEPT ![o] = IF b THEN "settled" ELSE "released"]
    BY DEF ListDurable
  <2> QED BY <2>1 DEF Terminal
<1>4. pc' = [pc EXCEPT ![o] = pc'[o]] /\ pc'[o] = "final"
  BY <1>1, Goes DEF ListDurable, Place
<1>5. /\ pending' = [pending EXCEPT ![o] = {}] /\ covered' = [covered EXCEPT ![o] = NoObs]
      /\ UNCHANGED <<history, declared, costs, dec, rev>>
  BY DEF ListDurable
<1>6. final'[o] = f /\ pending'[o] = {} /\ covered'[o] = NoObs
  BY <1>1, <1>3, <1>5 DEF Recording, TypeOK
<1>7. Pending' = Pending
  BY <1>5 DEF Pending, Decisions
<1>8. Local(o)
  BY <1>1, <1>3, <1>4, <1>5, <1>6 DEF Local, Recording, TypeOK
<1>9. Typed(o)'
  BY <1>1, <1>3, <1>4, <1>5, <1>6 DEF Typed, Recording, TypeOK, Place
<1>10. Called(o)'
  BY <1>1, <1>2, <1>3, <1>4, <1>5, <1>6, <1>7 DEF Called
<1> QED BY <1>1, <1>5, <1>8, <1>9, <1>10, QuietStep DEF Quiet, Same, Recording

LEMMA ReadsToEnd ==
  ASSUME Inductive, NEW o \in Operator, FinalRead(o)
  PROVE  Inductive'
<1>1. Recording /\ Called(o) /\ pc[o] = "final" /\ UNCHANGED <<history, declared, costs>>
  BY DEF Inductive, CallInv, FinalRead
<1>2. CASE Done(o)
  BY <1>1, <1>2, QuietDone
<1>3. CASE Goto(o, "final_cas") /\ rev' = [rev EXCEPT ![o] = Len(history)] /\ UNCHANGED <<dec, status, pending, covered, final>>
  <2>1. pc' = [pc EXCEPT ![o] = pc'[o]] /\ pc'[o] = "final_cas"
    BY <1>1, <1>3, Goes DEF Place
  <2>2. rev'[o] = Len(history) /\ Len(history) \in Nat
    BY <1>1, <1>3 DEF Recording
  <2>3. Pending' = Pending
    BY <1>1 DEF Pending, Decisions
  <2>4. Local(o)
    BY <1>1, <1>3, <2>1, <2>2 DEF Local, Recording, TypeOK
  <2>5. Typed(o)'
    BY <1>1, <1>3, <2>1, <2>2 DEF Typed, Recording, TypeOK, Place
  <2>6. Called(o)'
    BY <1>1, <1>3, <2>1, <2>3 DEF Called
  <2> QED BY <1>1, <2>4, <2>5, <2>6, QuietStep DEF Quiet, Same, Recording
<1> QED BY <1>2, <1>3 DEF FinalRead

LEMMA FinalConflicts ==
  ASSUME Inductive, NEW o \in Operator, FinalConflict(o)
  PROVE  Inductive'
<1>1. CASE Done(o) /\ UNCHANGED <<history, declared, costs>>
  BY <1>1, QuietDone
<1>2. CASE ~Done(o)
  BY <1>2, GivesRevisionBack DEF FinalConflict
<1> QED BY <1>1, <1>2 DEF FinalConflict

LEMMA EffectSteps ==
  ASSUME Inductive, NEW o \in Operator, EffectCheck(o) \/ EffectWrite(o) \/ ReadInvestigation(o)
  PROVE  Inductive'
<1>1. Recording /\ Called(o)
  BY DEF Inductive, CallInv
<1>2. CASE EffectCheck(o)
  <2>1. PICK l \in {"write", "remaining"} : Goto(o, l)
    BY <1>2 DEF EffectCheck
  <2> QED BY <1>1, <1>2, <2>1, Moves DEF EffectCheck, Keeps, Called, Place, Recording
<1>3. CASE EffectWrite(o)
  <2>1. CostId(o) \in Obs \cup {Whole}
    BY <1>1 DEF CostId, Recording, TypeOK
  <2>2. costs' \in Seq(CostRecord)
    BY <1>1, <1>3, <2>1 DEF EffectWrite, CostRecord, Recording
  <2> QED BY <1>1, <1>3, <2>2, Moves DEF EffectWrite, Keeps, Called, Place
<1>4. CASE ReadInvestigation(o)
  BY <1>1, <1>4, Moves DEF ReadInvestigation, Resolving, Keeps, Place, Recording
<1> QED BY <1>2, <1>3, <1>4

LEMMA NextInductive == Inductive /\ [Next]_vars => Inductive'
<1> SUFFICES ASSUME Inductive, [Next]_vars PROVE Inductive'
  OBVIOUS
<1>1. CASE UNCHANGED vars
  <2>1. UNCHANGED <<history, declared, costs, pc, dec, pending, covered, rev, final>>
    BY <1>1 DEF vars, local
  <2>2. Pending' = Pending /\ Decisions' = Decisions
    BY <2>1 DEF Pending, Decisions
  <2>3. Recording' /\ Same
    BY <2>1 DEF Inductive, Recording, TypeOK, Same
  <2>4. ASSUME NEW o \in Operator PROVE Called(o)'
    <3>1. Called(o) /\ Recorded(dec[o])' = Recorded(dec[o])
      BY <2>1 DEF Inductive, CallInv, Recorded
    <3> QED BY <2>1, <2>2, <3>1 DEF Called
  <2> QED BY <2>3, <2>4, SameRecord DEF Inductive, CallInv
<1>2. ASSUME NEW o \in Operator, NEW d \in Decision, Submit(o, d) PROVE Inductive'
  BY <1>2, Submits
<1>3. ASSUME NEW o \in Operator, Crash(o) PROVE Inductive'
  BY <1>3, QuietDone DEF Crash
<1>4. ASSUME NEW o \in Operator, Step(o) PROVE Inductive'
  <2>1. CASE ReadConflict(o) \/ ReadResolved(o) \/ ReadUncovered(o) \/ EffectUnattributed(o) \/ Remains(o)
    BY <2>1, QuietDone DEF ReadConflict, ReadResolved, ReadUncovered, EffectUnattributed, Remains
  <2>2. CASE ReadCovered(o)
    BY <2>2, ReadsCovered
  <2>3. CASE DecideRead(o)
    BY <2>3, ReadsToDecide
  <2>4. CASE DecideClash(o) \/ DecideConflict(o)
    BY <2>4, ClashesOrConflicts
  <2>5. CASE DecideCommit(o)
    BY <2>5, DecisionCommits
  <2>6. CASE RecordInvestigation(o)
    BY <2>6, InvestigationEnds
  <2>7. CASE EffectCheck(o) \/ EffectWrite(o) \/ ReadInvestigation(o)
    BY <2>7, EffectSteps
  <2>8. CASE ListDurable(o)
    BY <2>8, ListsDurable
  <2>9. CASE FinalRead(o)
    BY <2>9, ReadsToEnd
  <2>10. CASE FinalCommit(o)
    BY <2>10, FinalCommits
  <2>11. CASE FinalConflict(o)
    BY <2>11, FinalConflicts
  <2> QED BY <1>4, <2>1, <2>2, <2>3, <2>4, <2>5, <2>6, <2>7, <2>8, <2>9, <2>10, <2>11 DEF Step
<1> QED BY <1>1, <1>2, <1>3, <1>4 DEF Next

-----------------------------------------------------------------------------
(* Whatever operators submit where and however often calls die, the state   *)
(* is well typed: histories hold transitions, calls hold what they read.    *)
THEOREM TypeCorrect == Spec => []TypeOK
<1>1. Inductive => TypeOK
  BY DEF Inductive, Recording
<1> QED BY <1>1, InitInductive, NextInductive, PTL DEF Spec

(* "The same id carrying different contents conflicts rather than           *)
(* overwriting": for any number of operators racing on any decisions, one   *)
(* decision's identity is on the record at most once.                       *)
THEOREM NeverOverwritten == Spec => []FindingsNeverOverwritten
<1>1. Inductive => FindingsNeverOverwritten
  <2> SUFFICES ASSUME Inductive, NEW d \in Decision PROVE Cardinality(Recorded(d)) <= 1
    BY DEF FindingsNeverOverwritten
  <2>1. CASE Recorded(d) = {}
    BY <2>1, FS_EmptySet
  <2>2. CASE Recorded(d) # {}
    <3>1. PICK i \in Recorded(d) : Recorded(d) = {i}
      BY <2>2 DEF Inductive, RecordInv
    <3>2. Cardinality({i}) = 1
      BY FS_Singleton
    <3> QED BY <3>1, <3>2
  <2> QED BY <2>1, <2>2
<1> QED BY <1>1, InitInductive, NextInductive, PTL DEF Spec

(* "A decision covering observation A does not release authorization for    *)
(* B": for any number of observations, nothing ends the reservation while   *)
(* one of them is undecided, though each call looks at what it read before  *)
(* its decision was on the record.                                          *)
THEOREM NothingPendingReleased == Spec => []NoReleaseWhilePending
<1>1. Inductive => NoReleaseWhilePending
  BY EndsByTerminal DEF Inductive, Recording, RecordInv, NoReleaseWhilePending
<1> QED BY <1>1, InitInductive, NextInductive, PTL DEF Spec
=============================================================================
