--------------------------- MODULE Release_proofs ---------------------------
(***************************************************************************)
(* Proofs about Release, for any plan, gates and content.  That best-effort *)
(* operations come last is proved for any number of sessions; that nothing  *)
(* is published again unasked, for one session at a time (OneSession): of   *)
(* two, both may find an operation absent.                                  *)
(***************************************************************************)
EXTENDS Release, FiniteSetTheorems, NaturalsInduction, WellFoundedInduction, TLAPS

Status == {"not_started", "pending", "succeeded", "failed", "skipped"}
Result == {"none", "pending", "succeeded", "failed", "skipped"}

(* What TypeOK leaves open: which functions these are, and that a call      *)
(* under way has a bundle.                                                  *)
Typed ==
  /\ TypeOK
  /\ content = [k \in Key |-> content[k]] /\ latest = [g \in Gate |-> latest[g]]
  /\ known \in [Session -> [IdempotencyKey -> Status]]
  /\ outcome \in [Session -> Result]
  /\ \A s \in Session : pc[s] # "idle" => bundle[s] \in Values[Released]

(* A receipt, or a listing of them, never claims an effect that is not      *)
(* there, and no required operation is recorded as skipped.                 *)
Backed(r) ==
  \A k \in IdempotencyKey : /\ r[k] = "succeeded" => remote[k] > 0
                            /\ r[k] = "skipped" => k[1] \notin Required

(* What is about to be recorded is so, and what lies behind is done if it   *)
(* was required.                                                            *)
Backs(s) ==
  /\ Backed(known[s])
  /\ unestablished[s] \cap Required = {}
  /\ pc[s] \in {"idle", "list"} => at[s] = 1
  /\ pc[s] = "repair" => remote[KeyOf(s)] > 0
  /\ pc[s] = "record" => /\ outcome[s] # "none"
                         /\ outcome[s] = "succeeded" => remote[KeyOf(s)] > 0
                         /\ outcome[s] = "skipped" => Op(s) \notin Required
  /\ pc[s] \in {"execute", "perform", "record"} =>
       \A i \in 1 .. at[s] - 1 : Plan[i] \in Required => remote[<<Plan[i], bundle[s]>>] > 0

EffectInv == Backed(receipt) /\ \A s \in Session : Backs(s)

-----------------------------------------------------------------------------
LEMMA Keys ==
  /\ \A i \in DOMAIN Plan : Plan[i] \in Operation
  /\ \A o \in Operation : \E i \in DOMAIN Plan : Plan[i] = o
  /\ DOMAIN Plan = 1 .. Len(Plan) /\ Len(Plan) \in Nat \ {0} /\ 1 \in DOMAIN Plan
  /\ \A o \in Operation, h \in Values[Released] :
       <<o, h>> \in IdempotencyKey /\ <<o, h>>[1] = o /\ <<o, h>>[2] = h
  /\ Missing \notin Values[Released]
<1>1. DOMAIN Plan = 1 .. Len(Plan) /\ Len(Plan) \in Nat
  BY PlanAssumption
<1>2. Len(Plan) # 0
  BY PlanAssumption
<1> QED BY <1>1, <1>2, PlanAssumption, GateAssumption DEF Operation, IdempotencyKey

LEMMA CurrentKey ==
  ASSUME Typed, NEW s \in Session, pc[s] # "idle"
  PROVE  /\ at[s] \in 1 .. Len(Plan) /\ Len(Plan) \in Nat /\ Op(s) \in Operation
         /\ KeyOf(s) \in IdempotencyKey /\ KeyOf(s)[1] = Op(s) /\ Found(s) \in Status
BY Keys DEF Typed, TypeOK, Op, KeyOf, Found

(* What a step of one session leaves alone.                                 *)
Only(s) ==
  /\ pc' = [pc EXCEPT ![s] = pc'[s]] /\ bundle' = [bundle EXCEPT ![s] = bundle'[s]]
  /\ at' = [at EXCEPT ![s] = at'[s]] /\ known' = [known EXCEPT ![s] = known'[s]]
  /\ unestablished' = [unestablished EXCEPT ![s] = unestablished'[s]]
  /\ outcome' = [outcome EXCEPT ![s] = outcome'[s]]

Place == {"idle", "reconcile", "repair", "list", "execute", "perform", "record"}

TypedAt(s) ==
  /\ pc[s] \in Place /\ at[s] \in DOMAIN Plan
  /\ bundle[s] \in Values[Released] \cup {Missing} /\ (pc[s] # "idle" => bundle[s] \in Values[Released])
  /\ known[s] \in [IdempotencyKey -> Status] /\ unestablished[s] \in SUBSET Operation /\ outcome[s] \in Result

LEMMA SessionTypes ==
  ASSUME Typed, NEW s \in Session
  PROVE  /\ TypedAt(s)
         /\ pc \in [Session -> Place] /\ at \in [Session -> DOMAIN Plan]
         /\ bundle \in [Session -> Values[Released] \cup {Missing}]
         /\ known \in [Session -> [IdempotencyKey -> Status]]
         /\ unestablished \in [Session -> SUBSET Operation] /\ outcome \in [Session -> Result]
BY DEF Typed, TypeOK, TypedAt, Place

LEMMA OnlyTyped ==
  ASSUME Typed, NEW s \in Session, Only(s), TypedAt(s)', UNCHANGED gates,
         receipt' \in [IdempotencyKey -> Status], remote' \in [IdempotencyKey -> 0 .. 2],
         flying' \subseteq IdempotencyKey
  PROVE  /\ Typed'
         /\ \A t \in Session \ {s} :
              /\ pc'[t] = pc[t] /\ bundle'[t] = bundle[t] /\ at'[t] = at[t] /\ known'[t] = known[t]
              /\ unestablished'[t] = unestablished[t] /\ outcome'[t] = outcome[t]
<1>1. /\ pc \in [Session -> Place] /\ at \in [Session -> DOMAIN Plan]
      /\ bundle \in [Session -> Values[Released] \cup {Missing}]
      /\ known \in [Session -> [IdempotencyKey -> Status]]
      /\ unestablished \in [Session -> SUBSET Operation] /\ outcome \in [Session -> Result]
  BY SessionTypes
<1>2. ASSUME NEW t \in Session \ {s}
      PROVE  /\ pc'[t] = pc[t] /\ bundle'[t] = bundle[t] /\ at'[t] = at[t] /\ known'[t] = known[t]
             /\ unestablished'[t] = unestablished[t] /\ outcome'[t] = outcome[t]
  <2>1. pc'[t] = pc[t] /\ bundle'[t] = bundle[t] /\ at'[t] = at[t]
    BY <1>1 DEF Only
  <2>2. known'[t] = known[t] /\ unestablished'[t] = unestablished[t] /\ outcome'[t] = outcome[t]
    BY <1>1 DEF Only
  <2> QED BY <2>1, <2>2
<1>3. pc' \in [Session -> Place] /\ at' \in [Session -> DOMAIN Plan]
  BY <1>1 DEF Only, TypedAt
<1>4. bundle' \in [Session -> Values[Released] \cup {Missing}] /\ outcome' \in [Session -> Result]
  BY <1>1 DEF Only, TypedAt
<1>5. known' \in [Session -> [IdempotencyKey -> Status]] /\ unestablished' \in [Session -> SUBSET Operation]
  <2>1. known'[s] \in [IdempotencyKey -> Status] /\ unestablished'[s] \in SUBSET Operation
    BY DEF TypedAt
  <2> HIDE DEF IdempotencyKey
  <2>2. known' \in [Session -> [IdempotencyKey -> Status]]
    BY <1>1, <2>1 DEF Only
  <2>3. unestablished' \in [Session -> SUBSET Operation]
    BY <1>1, <2>1 DEF Only
  <2> QED BY <2>2, <2>3
<1>6. \A t \in Session : pc'[t] # "idle" => bundle'[t] \in Values[Released]
  BY <1>2 DEF Typed, TypedAt
<1>7. GateTypeOK' /\ content' = [k \in Key |-> content'[k]] /\ latest' = [g \in Gate |-> latest'[g]]
  BY DEF gates, Typed, TypeOK, GateTypeOK
<1>8. TypeOK'
  BY <1>3, <1>4, <1>5, <1>7 DEF TypeOK, Status, Place
<1> QED BY <1>2, <1>4, <1>5, <1>6, <1>7, <1>8 DEF Typed

-----------------------------------------------------------------------------
(* What the operators that move a session on do to its variables.           *)
LEMMA Ends ==
  ASSUME Typed, NEW s \in Session, End(s)
  PROVE  /\ Only(s) /\ TypedAt(s)'
         /\ pc'[s] = "idle" /\ at'[s] = 1 /\ known'[s] = Nothing /\ unestablished'[s] = {}
<1>1. /\ pc'[s] = "idle" /\ bundle'[s] = Missing /\ at'[s] = 1 /\ known'[s] = Nothing
      /\ unestablished'[s] = {} /\ outcome'[s] = "none"
  BY SessionTypes DEF End, Goto
<1>2. Only(s)
  BY <1>1 DEF End, Goto, Only
<1>3. Nothing \in [IdempotencyKey -> Status]
  BY DEF Nothing, Status
<1>4. TypedAt(s)'
  BY <1>1, <1>3, Keys DEF TypedAt, Place, Result
<1> QED BY <1>1, <1>2, <1>4

LEMMA NextLookups ==
  ASSUME Typed, NEW s \in Session, NEW skipped \in SUBSET Operation, pc[s] # "idle", NextLookup(s, skipped)
  PROVE  /\ Only(s) /\ TypedAt(s)' /\ UNCHANGED gates
         /\ bundle'[s] = bundle[s] /\ known'[s] = known[s] /\ unestablished'[s] = unestablished[s] \cup skipped
         /\ \/ pc'[s] = "list" /\ at[s] = Len(Plan) /\ at'[s] = 1
            \/ pc'[s] = "reconcile" /\ at'[s] = at[s] + 1
<1>1. TypedAt(s) /\ at[s] \in 1 .. Len(Plan) /\ Len(Plan) \in Nat
  BY CurrentKey, SessionTypes
<1>2. /\ \/ at[s] = Len(Plan) /\ pc'[s] = "list" /\ at'[s] = 1
         \/ at[s] # Len(Plan) /\ pc'[s] = "reconcile" /\ at'[s] = at[s] + 1
      /\ pc' = [pc EXCEPT ![s] = pc'[s]] /\ at' = [at EXCEPT ![s] = at'[s]]
      /\ UNCHANGED <<bundle, known, gates, outcome>>
  BY SessionTypes DEF NextLookup, AtLast, Step, Goto
<1>3. unestablished' = [unestablished EXCEPT ![s] = unestablished'[s]] /\ unestablished'[s] = unestablished[s] \cup skipped
  BY SessionTypes DEF NextLookup
<1>4. Only(s)
  BY <1>2, <1>3, SessionTypes DEF Only
<1>5. TypedAt(s)'
  BY <1>1, <1>2, <1>3, Keys DEF TypedAt, Place
<1> QED BY <1>2, <1>3, <1>4, <1>5

LEMMA NextOperations ==
  ASSUME Typed, NEW s \in Session, pc[s] # "idle", NextOperation(s), ~End(s)
  PROVE  /\ Only(s) /\ TypedAt(s)'
         /\ pc'[s] = "execute" /\ at'[s] = at[s] + 1
         /\ bundle'[s] = bundle[s] /\ known'[s] = known[s] /\ unestablished'[s] = unestablished[s]
<1>1. TypedAt(s) /\ at[s] \in 1 .. Len(Plan) /\ Len(Plan) \in Nat
  BY CurrentKey, SessionTypes
<1>2. /\ at[s] # Len(Plan) /\ pc'[s] = "execute" /\ at'[s] = at[s] + 1 /\ outcome'[s] = "none"
      /\ pc' = [pc EXCEPT ![s] = pc'[s]] /\ at' = [at EXCEPT ![s] = at'[s]]
      /\ outcome' = [outcome EXCEPT ![s] = outcome'[s]]
      /\ UNCHANGED <<bundle, known, unestablished>>
  BY SessionTypes DEF NextOperation, AtLast, Step, Goto
<1>3. Only(s)
  BY <1>2, SessionTypes DEF Only
<1>4. TypedAt(s)'
  BY <1>1, <1>2, Keys DEF TypedAt, Place, Result
<1> QED BY <1>2, <1>3, <1>4

LEMMA Answers ==
  ASSUME Typed, NEW s \in Session, NEW status \in Result, pc[s] # "idle", Answered(s, status)
  PROVE  /\ Only(s) /\ TypedAt(s)' /\ pc'[s] = "record" /\ outcome'[s] = status
         /\ at'[s] = at[s] /\ bundle'[s] = bundle[s] /\ known'[s] = known[s] /\ unestablished'[s] = unestablished[s]
<1>1. TypedAt(s) /\ bundle[s] \in Values[Released]
  BY SessionTypes DEF Typed
<1>2. /\ pc'[s] = "record" /\ outcome'[s] = status
      /\ pc' = [pc EXCEPT ![s] = pc'[s]] /\ outcome' = [outcome EXCEPT ![s] = outcome'[s]]
      /\ UNCHANGED <<bundle, at, known, unestablished>>
  BY SessionTypes DEF Answered, Goto
<1>3. Only(s)
  BY <1>2, SessionTypes DEF Only
<1> QED BY <1>1, <1>2, <1>3 DEF TypedAt, Place

(* Start, LookupExists, List, Permit: one variable or two.                  *)
LEMMA Goes ==
  ASSUME Typed, NEW s \in Session, NEW l \in Place \ {"idle"}, pc[s] # "idle", Goto(s, l),
         UNCHANGED <<bundle, at, unestablished, outcome>>, known' = [known EXCEPT ![s] = known'[s]],
         known'[s] \in [IdempotencyKey -> Status]
  PROVE  Only(s) /\ TypedAt(s)' /\ pc'[s] = l /\ at'[s] = at[s] /\ bundle'[s] = bundle[s] /\ unestablished'[s] = unestablished[s]
<1>1. TypedAt(s) /\ bundle[s] \in Values[Released]
  BY SessionTypes DEF Typed
<1>2. pc'[s] = l /\ pc' = [pc EXCEPT ![s] = pc'[s]]
  BY SessionTypes DEF Goto
<1>3. Only(s)
  BY <1>2, SessionTypes DEF Only
<1> QED BY <1>1, <1>2, <1>3 DEF TypedAt

LEMMA Starts ==
  ASSUME Typed, NEW s \in Session, Start(s)
  PROVE  /\ Only(s) /\ TypedAt(s)' /\ pc'[s] = "reconcile" /\ at'[s] = at[s] /\ known'[s] = receipt
         /\ unestablished'[s] = unestablished[s] /\ pc[s] = "idle" /\ UNCHANGED <<gates, world>>
<1>1. TypedAt(s) /\ content[Released] \in Values[Released] /\ receipt \in [IdempotencyKey -> Status]
  BY SessionTypes, PlanAssumption DEF Start, Typed, TypeOK, GateTypeOK, Status
<1>2. /\ pc'[s] = "reconcile" /\ bundle'[s] = content[Released] /\ known'[s] = receipt
      /\ pc' = [pc EXCEPT ![s] = pc'[s]] /\ bundle' = [bundle EXCEPT ![s] = bundle'[s]]
      /\ known' = [known EXCEPT ![s] = known'[s]]
      /\ UNCHANGED <<at, unestablished, outcome>>
  BY SessionTypes DEF Start, Goto
<1>3. Only(s)
  BY <1>2, SessionTypes DEF Only
<1> QED BY <1>1, <1>2, <1>3 DEF TypedAt, Place, Start

(* An effect adds to those of its key and leaves the others alone.          *)
LEMMA AddsEffect ==
  ASSUME Typed, NEW k \in IdempotencyKey, AddEffect(k)
  PROVE  /\ remote' \in [IdempotencyKey -> 0 .. 2] /\ remote'[k] > 0
         /\ \A j \in IdempotencyKey : remote'[j] >= remote[j] /\ (j # k => remote'[j] = remote[j])
<1>1. remote \in [IdempotencyKey -> 0 .. 2]
  BY DEF Typed, TypeOK
<1> DEFINE n == IF k[1] \in Repeatable \/ remote[k] = 2
                THEN (IF remote[k] = 0 THEN 1 ELSE remote[k]) ELSE remote[k] + 1
<1>2. remote' = [remote EXCEPT ![k] = n]
  BY DEF AddEffect
<1>3. n \in 0 .. 2 /\ n > 0 /\ n >= remote[k]
  <2>1. remote[k] \in 0 .. 2
    BY <1>1
  <2> QED BY <2>1
<1> HIDE DEF n
<1> QED BY <1>1, <1>2, <1>3

-----------------------------------------------------------------------------
(* Effects are never taken back, so what is known of them stays true.       *)
More == \A k \in IdempotencyKey : remote'[k] >= remote[k]

LEMMA MoreSame == ASSUME Typed, UNCHANGED remote PROVE More
BY DEF Typed, TypeOK, More

LEMMA BackedMore ==
  ASSUME Typed, More, remote' \in [IdempotencyKey -> 0 .. 2], NEW r, Backed(r)
  PROVE  /\ \A k \in IdempotencyKey : /\ r[k] = "succeeded" => remote'[k] > 0
                                      /\ r[k] = "skipped" => k[1] \notin Required
         /\ \A k \in IdempotencyKey : remote[k] > 0 => remote'[k] > 0
<1>1. \A k \in IdempotencyKey : remote[k] \in 0 .. 2 /\ remote'[k] \in 0 .. 2 /\ remote'[k] >= remote[k]
  BY DEF Typed, TypeOK, More
<1> QED BY <1>1 DEF Backed

LEMMA BacksOn ==
  ASSUME Typed, EffectInv, More, remote' \in [IdempotencyKey -> 0 .. 2], NEW t \in Session,
         UNCHANGED <<pc[t], bundle[t], at[t], known[t], unestablished[t], outcome[t]>>
  PROVE  Backs(t)'
<1>1. Backs(t) /\ TypedAt(t)
  BY SessionTypes DEF EffectInv
<1>2. Backed(known[t])'
  BY <1>1, BackedMore DEF Backs, Backed
<1>3. \A k \in IdempotencyKey : remote[k] > 0 => remote'[k] > 0
  BY <1>1, BackedMore DEF Backs
<1>4. pc[t] # "idle" =>
        KeyOf(t) \in IdempotencyKey /\ \A i \in 1 .. at[t] - 1 : <<Plan[i], bundle[t]>> \in IdempotencyKey
  BY <1>1, Keys, CurrentKey DEF Typed, TypedAt
<1>5. KeyOf(t)' = KeyOf(t) /\ Op(t)' = Op(t)
  BY DEF KeyOf, Op
<1>6. pc[t] = "repair" => remote'[KeyOf(t)] > 0
  BY <1>1, <1>3, <1>4 DEF Backs
<1>7. pc[t] = "record" => /\ outcome[t] # "none"
                          /\ outcome[t] = "succeeded" => remote'[KeyOf(t)] > 0
                          /\ outcome[t] = "skipped" => Op(t) \notin Required
  BY <1>1, <1>3, <1>4 DEF Backs
<1>8. pc[t] \in {"execute", "perform", "record"} =>
        \A i \in 1 .. at[t] - 1 : Plan[i] \in Required => remote'[<<Plan[i], bundle[t]>>] > 0
  BY <1>1, <1>3, <1>4 DEF Backs
<1>9. unestablished[t] \cap Required = {} /\ (pc[t] \in {"idle", "list"} => at[t] = 1)
  BY <1>1 DEF Backs
<1> QED BY <1>2, <1>5, <1>6, <1>7, <1>8, <1>9 DEF Backs

LEMMA EffectClosing ==
  ASSUME Typed, EffectInv, NEW s \in Session, Only(s), TypedAt(s)', UNCHANGED gates, More,
         receipt' \in [IdempotencyKey -> Status], remote' \in [IdempotencyKey -> 0 .. 2],
         flying' \subseteq IdempotencyKey, Backed(receipt)', Backs(s)'
  PROVE  Typed' /\ EffectInv'
<1>1. Typed'
  BY OnlyTyped
<1>2. ASSUME NEW t \in Session \ {s} PROVE Backs(t)'
  <2>1. UNCHANGED <<pc[t], bundle[t], at[t], known[t], unestablished[t], outcome[t]>>
    BY OnlyTyped
  <2> QED BY <2>1, BacksOn
<1> QED BY <1>1, <1>2 DEF EffectInv

(* The same for a step that leaves the destination and the receipts alone.  *)
LEMMA EffectQuiet ==
  ASSUME Typed, EffectInv, NEW s \in Session, Only(s), TypedAt(s)', UNCHANGED <<gates, world>>, Backs(s)'
  PROVE  Typed' /\ EffectInv'
<1>1. /\ receipt' \in [IdempotencyKey -> Status] /\ remote' \in [IdempotencyKey -> 0 .. 2]
      /\ flying' \subseteq IdempotencyKey
  BY DEF world, Typed, TypeOK, Status
<1>2. Backed(receipt)' /\ More
  BY MoreSame DEF world, EffectInv, Backed
<1> QED BY <1>1, <1>2, EffectClosing

LEMMA EndBacks == ASSUME Typed, NEW s \in Session, End(s) PROVE Backs(s)'
BY Ends DEF Backs, Backed, Nothing

LEMMA EndQuiet ==
  ASSUME Typed, EffectInv, NEW s \in Session, End(s), UNCHANGED <<gates, world>>
  PROVE  Typed' /\ EffectInv'
BY Ends, EndBacks, EffectQuiet

(* A lookup keeps the invariant, also when it leaves its operation out.     *)
LEMMA LookupQuiet ==
  ASSUME Typed, EffectInv, NEW s \in Session, pc[s] # "idle", NEW skipped \in SUBSET (Operation \ Required),
         NextLookup(s, skipped), UNCHANGED remote
  PROVE  Backs(s)'
<1>1. Backs(s)
  BY DEF EffectInv
<1>2. /\ known'[s] = known[s] /\ unestablished'[s] = unestablished[s] \cup skipped
      /\ pc'[s] \in {"list", "reconcile"} /\ (pc'[s] = "list" => at'[s] = 1)
  BY NextLookups
<1> QED BY <1>1, <1>2 DEF Backs, Backed

LEMMA OperationBacks ==
  ASSUME Typed, EffectInv, NEW s \in Session, pc[s] \in {"execute", "record"}, NextOperation(s),
         UNCHANGED remote, Op(s) \in Required => remote[KeyOf(s)] > 0
  PROVE  Backs(s)'
<1>1. CASE End(s)
  BY <1>1, EndBacks
<1>2. CASE ~End(s)
  <2>1. Backs(s) /\ at[s] \in 1 .. Len(Plan) /\ Len(Plan) \in Nat
    BY CurrentKey DEF EffectInv
  <2>2. /\ pc'[s] = "execute" /\ at'[s] = at[s] + 1
        /\ bundle'[s] = bundle[s] /\ known'[s] = known[s] /\ unestablished'[s] = unestablished[s]
    BY <1>2, NextOperations
  <2>3. \A i \in 1 .. at[s] : Plan[i] \in Required => remote[<<Plan[i], bundle[s]>>] > 0
    BY <2>1 DEF Backs, Op, KeyOf
  <2>4. \A i \in 1 .. at'[s] - 1 : Plan[i] \in Required => remote'[<<Plan[i], bundle'[s]>>] > 0
    BY <2>1, <2>2, <2>3
  <2> QED BY <2>1, <2>2, <2>4 DEF Backs, Backed
<1> QED BY <1>1, <1>2

-----------------------------------------------------------------------------
LEMMA StartEffect ==
  ASSUME Typed, EffectInv, NEW s \in Session, Start(s)
  PROVE  Typed' /\ EffectInv'
<1>1. Backs(s)'
  BY Starts DEF EffectInv, Backs, Backed, world
<1> QED BY <1>1, Starts, EffectQuiet

LEMMA QueryEffect ==
  ASSUME Typed, EffectInv, NEW s \in Session,
         NotQueried(s) \/ LookupAbsent(s) \/ LookupExists(s) \/ LookupUnanswered(s)
  PROVE  Typed' /\ EffectInv'
<1>1. pc[s] = "reconcile" /\ UNCHANGED world /\ Backs(s) /\ Op(s) \in Operation
  BY CurrentKey DEF NotQueried, LookupAbsent, LookupExists, LookupUnanswered, Lookup, EffectInv
<1>2. ASSUME NEW skipped \in SUBSET (Operation \ Required), NextLookup(s, skipped) PROVE Typed' /\ EffectInv'
  BY <1>1, <1>2, NextLookups, LookupQuiet, EffectQuiet DEF world
<1>3. CASE LookupExists(s)
  <2>1. Goto(s, "repair") /\ UNCHANGED <<gates, bundle, at, known, unestablished, outcome>> /\ remote[KeyOf(s)] > 0
    BY <1>3 DEF LookupExists
  <2>2. /\ Only(s) /\ TypedAt(s)' /\ pc'[s] = "repair" /\ at'[s] = at[s] /\ bundle'[s] = bundle[s]
        /\ unestablished'[s] = unestablished[s]
    <3>1. known' = [known EXCEPT ![s] = known'[s]] /\ known'[s] \in [IdempotencyKey -> Status]
      BY <2>1, SessionTypes
    <3> QED BY <1>1, <2>1, <3>1, Goes DEF Place
  <2>3. Backs(s)'
    BY <1>1, <2>1, <2>2 DEF Backs, Backed, KeyOf, Op, world
  <2> QED BY <1>1, <2>1, <2>2, <2>3, EffectQuiet
<1>4. CASE NotQueried(s) \/ LookupAbsent(s)
  BY <1>2, <1>4 DEF NotQueried, LookupAbsent
<1>5. CASE LookupUnanswered(s)
  <2>1. CASE Op(s) \in Required
    BY <1>1, <1>5, <2>1, EndQuiet DEF LookupUnanswered
  <2>2. CASE Op(s) \notin Required
    BY <1>1, <1>2, <1>5, <2>2 DEF LookupUnanswered
  <2> QED BY <2>1, <2>2
<1> QED BY <1>3, <1>4, <1>5

LEMMA Receipts ==
  ASSUME Typed, EffectInv, NEW s \in Session, pc[s] # "idle", NEW status \in Status,
         receipt' = [receipt EXCEPT ![KeyOf(s)] = status], UNCHANGED <<remote, flying>>,
         status = "succeeded" => remote[KeyOf(s)] > 0,
         status = "skipped" => Op(s) \notin Required
  PROVE  /\ receipt' \in [IdempotencyKey -> Status] /\ remote' \in [IdempotencyKey -> 0 .. 2]
         /\ flying' \subseteq IdempotencyKey /\ Backed(receipt)' /\ More
         /\ receipt'[KeyOf(s)] = status
         /\ \A k \in IdempotencyKey : k # KeyOf(s) => receipt'[k] = receipt[k]
<1>1. receipt \in [IdempotencyKey -> Status] /\ remote \in [IdempotencyKey -> 0 .. 2] /\ flying \subseteq IdempotencyKey
  BY DEF Typed, TypeOK, Status
<1>2. KeyOf(s) \in IdempotencyKey /\ KeyOf(s)[1] = Op(s)
  BY CurrentKey
<1>3. /\ receipt' \in [IdempotencyKey -> Status] /\ receipt'[KeyOf(s)] = status
      /\ \A k \in IdempotencyKey : k # KeyOf(s) => receipt'[k] = receipt[k]
  BY <1>1, <1>2
<1>4. Backed(receipt)'
  <2> SUFFICES ASSUME NEW k \in IdempotencyKey
               PROVE  /\ receipt'[k] = "succeeded" => remote[k] > 0
                      /\ receipt'[k] = "skipped" => k[1] \notin Required
    BY DEF Backed
  <2>1. CASE k = KeyOf(s)
    BY <1>2, <1>3, <2>1
  <2>2. CASE k # KeyOf(s)
    BY <1>3, <2>2 DEF EffectInv, Backed
  <2> QED BY <2>1, <2>2
<1> QED BY <1>1, <1>3, <1>4, MoreSame

LEMMA RepairEffect ==
  ASSUME Typed, EffectInv, NEW s \in Session, Repair(s)
  PROVE  Typed' /\ EffectInv'
<1>1. pc[s] = "repair" /\ NextLookup(s, {}) /\ UNCHANGED <<remote, flying>> /\ remote[KeyOf(s)] > 0
  BY DEF Repair, EffectInv, Backs
<1>2. receipt' = [receipt EXCEPT ![KeyOf(s)] = "succeeded"]
  BY DEF Repair
<1> QED BY <1>1, <1>2, Receipts, NextLookups, LookupQuiet, EffectClosing DEF Status

LEMMA RecordEffect ==
  ASSUME Typed, EffectInv, NEW s \in Session, Record(s)
  PROVE  Typed' /\ EffectInv'
<1>1. /\ pc[s] = "record" /\ UNCHANGED <<gates, remote, flying>> /\ Backs(s) /\ outcome[s] \in Status
      /\ receipt' = [receipt EXCEPT ![KeyOf(s)] = outcome[s]]
  BY SessionTypes DEF Record, EffectInv, Backs, TypedAt, Result, Status
<1>2. /\ receipt' \in [IdempotencyKey -> Status] /\ remote' \in [IdempotencyKey -> 0 .. 2]
      /\ flying' \subseteq IdempotencyKey /\ Backed(receipt)' /\ More
  BY <1>1, Receipts DEF Backs
<1>3. CASE End(s)
  BY <1>1, <1>2, <1>3, Ends, EndBacks, EffectClosing
<1>4. CASE ~End(s)
  <2>1. NextOperation(s) /\ (Op(s) \in Required => outcome[s] = "succeeded")
    BY <1>4 DEF Record
  <2>2. Backs(s)'
    BY <1>1, <2>1, OperationBacks DEF Backs
  <2> QED BY <1>1, <1>2, <1>4, <2>1, <2>2, NextOperations, EffectClosing
<1> QED BY <1>3, <1>4

LEMMA ExecuteEffect ==
  ASSUME Typed, EffectInv, NEW s \in Session,
         List(s) \/ PassOver(s) \/ RefuseUnconfirmed(s) \/ RefuseUnauthorized(s) \/ Permit(s)
  PROVE  Typed' /\ EffectInv'
<1>1. Backs(s) /\ UNCHANGED <<gates, world>> /\ pc[s] \in {"list", "execute"}
  BY DEF EffectInv, List, PassOver, RefuseUnconfirmed, RefuseUnauthorized, Permit, Due
<1>2. CASE End(s)
  BY <1>1, <1>2, EndQuiet
<1>3. CASE List(s)
  <2>1. Goto(s, "execute") /\ known' = [known EXCEPT ![s] = receipt] /\ UNCHANGED <<bundle, at, unestablished, outcome>>
    BY <1>3 DEF List
  <2>2. known'[s] = receipt /\ receipt \in [IdempotencyKey -> Status]
    BY <2>1, SessionTypes DEF Typed, TypeOK, Status
  <2>3. /\ Only(s) /\ TypedAt(s)' /\ pc'[s] = "execute" /\ at'[s] = at[s] /\ bundle'[s] = bundle[s]
        /\ unestablished'[s] = unestablished[s]
    BY <1>1, <2>1, <2>2, Goes DEF Place
  <2>4. at[s] = 1
    BY <1>1, <1>3 DEF Backs, List
  <2>5. Backs(s)'
    BY <1>1, <2>2, <2>3, <2>4 DEF Backs, Backed, EffectInv, world
  <2> QED BY <1>1, <2>3, <2>5, EffectQuiet
<1>4. CASE PassOver(s) /\ ~End(s)
  <2>1. pc[s] = "execute" /\ NextOperation(s) /\ (LeftOut(s) \/ Settled(s))
    BY <1>4 DEF PassOver
  <2>2. Op(s) \in Required => remote[KeyOf(s)] > 0
    BY <1>1, <2>1, CurrentKey DEF Backs, Backed, LeftOut, Settled, Found
  <2> QED BY <1>1, <1>4, <2>1, <2>2, OperationBacks, NextOperations, EffectQuiet DEF world
<1>5. CASE RefuseUnauthorized(s) /\ ~End(s)
  <2>1. Op(s) \notin Required /\ Answered(s, "skipped") /\ pc[s] = "execute"
    BY <1>5 DEF RefuseUnauthorized, Due
  <2>2. /\ Only(s) /\ TypedAt(s)' /\ pc'[s] = "record" /\ outcome'[s] = "skipped"
        /\ at'[s] = at[s] /\ bundle'[s] = bundle[s] /\ known'[s] = known[s] /\ unestablished'[s] = unestablished[s]
    BY <2>1, Answers DEF Result
  <2>3. Backs(s)'
    BY <1>1, <2>1, <2>2 DEF Backs, Backed, Op, world
  <2> QED BY <1>1, <2>2, <2>3, EffectQuiet
<1>6. CASE Permit(s)
  <2>1. Goto(s, "perform") /\ UNCHANGED <<bundle, at, known, unestablished, outcome>> /\ pc[s] = "execute"
    BY <1>6 DEF Permit, Due
  <2>2. known' = [known EXCEPT ![s] = known'[s]] /\ known'[s] \in [IdempotencyKey -> Status]
    BY <2>1, SessionTypes
  <2>3. /\ Only(s) /\ TypedAt(s)' /\ pc'[s] = "perform" /\ at'[s] = at[s] /\ bundle'[s] = bundle[s]
        /\ unestablished'[s] = unestablished[s]
    BY <2>1, <2>2, Goes DEF Place
  <2>4. Backs(s)'
    BY <1>1, <2>1, <2>3 DEF Backs, Backed, world
  <2> QED BY <1>1, <2>3, <2>4, EffectQuiet
<1> QED BY <1>2, <1>3, <1>4, <1>5, <1>6 DEF RefuseUnconfirmed

LEMMA Effects ==
  ASSUME Typed, NEW k \in IdempotencyKey, Landed(k) \/ OnItsWay(k) \/ NoEffect
  PROVE  /\ remote' \in [IdempotencyKey -> 0 .. 2] /\ flying' \subseteq IdempotencyKey /\ More
         /\ Landed(k) => remote'[k] > 0
         /\ \A j \in IdempotencyKey : j # k => remote'[j] = remote[j] /\ (j \in flying' => j \in flying)
<1>1. remote \in [IdempotencyKey -> 0 .. 2] /\ flying \subseteq IdempotencyKey
  BY DEF Typed, TypeOK
<1>2. CASE Landed(k)
  BY <1>1, <1>2, AddsEffect DEF Landed, More
<1>3. CASE UNCHANGED remote /\ (flying' = flying \/ flying' = flying \cup {k}) /\ ~Landed(k)
  BY <1>1, <1>3, MoreSame
<1> QED BY <1>2, <1>3 DEF OnItsWay, NoEffect

LEMMA PerformEffect ==
  ASSUME Typed, EffectInv, NEW s \in Session, Perform(s)
  PROVE  Typed' /\ EffectInv'
<1>1. pc[s] = "perform" /\ UNCHANGED <<gates, receipt>> /\ Backs(s) /\ KeyOf(s) \in IdempotencyKey
  BY CurrentKey DEF Perform, EffectInv
<1>2. Landed(KeyOf(s)) \/ OnItsWay(KeyOf(s)) \/ NoEffect
  BY DEF Perform
<1>3. /\ receipt' \in [IdempotencyKey -> Status] /\ remote' \in [IdempotencyKey -> 0 .. 2]
      /\ flying' \subseteq IdempotencyKey /\ More /\ (Landed(KeyOf(s)) => remote'[KeyOf(s)] > 0)
  BY <1>1, <1>2, Effects DEF Typed, TypeOK, Status
<1>4. Backed(receipt)'
  BY <1>1, <1>3, BackedMore DEF EffectInv, Backed
<1>5. CASE End(s)
  BY <1>1, <1>3, <1>4, <1>5, Ends, EffectClosing DEF Backs, Backed, Nothing
<1>6. ASSUME NEW status \in {"succeeded", "failed", "pending"}, Answered(s, status),
             status = "succeeded" => Landed(KeyOf(s))
      PROVE  Typed' /\ EffectInv'
  <2>1. /\ Only(s) /\ TypedAt(s)' /\ pc'[s] = "record" /\ outcome'[s] = status
        /\ at'[s] = at[s] /\ bundle'[s] = bundle[s] /\ known'[s] = known[s] /\ unestablished'[s] = unestablished[s]
    BY <1>1, <1>6, Answers DEF Result
  <2>2. Backed(known[s])'
    BY <1>1, <1>3, <2>1, BackedMore DEF Backs, Backed
  <2>3. \A i \in 1 .. at[s] - 1 : Plan[i] \in Required => remote'[<<Plan[i], bundle[s]>>] > 0
    <3>1. \A i \in 1 .. at[s] - 1 : <<Plan[i], bundle[s]>> \in IdempotencyKey
      BY <1>1, Keys, CurrentKey DEF Typed
    <3>2. \A k \in IdempotencyKey : remote[k] > 0 => remote'[k] > 0
      BY <1>1, <1>3, BackedMore DEF Backs
    <3> QED BY <1>1, <3>1, <3>2 DEF Backs
  <2>4. KeyOf(s)' = KeyOf(s)
    BY <2>1 DEF KeyOf, Op
  <2>5. Backs(s)'
    BY <1>1, <1>3, <1>6, <2>1, <2>2, <2>3, <2>4 DEF Backs
  <2> QED BY <1>1, <1>3, <1>4, <2>1, <2>5, EffectClosing
<1> QED BY <1>5, <1>6 DEF Perform

LEMMA LandEffect ==
  ASSUME Typed, EffectInv, NEW k \in IdempotencyKey, Land(k)
  PROVE  Typed' /\ EffectInv'
<1>1. UNCHANGED <<gates, receipt, session>> /\ AddEffect(k) /\ flying' = flying \ {k}
  BY DEF Land
<1>2. remote' \in [IdempotencyKey -> 0 .. 2] /\ More
  BY <1>1, AddsEffect DEF More
<1>3. Typed'
  <2>1. GateTypeOK'
    BY <1>1 DEF Typed, TypeOK, GateTypeOK, gates
  <2> QED BY <1>1, <1>2, <2>1 DEF Typed, TypeOK, gates, session
<1>4. Backed(receipt)'
  BY <1>1, <1>2, BackedMore DEF EffectInv, Backed
<1>5. ASSUME NEW t \in Session PROVE Backs(t)'
  BY <1>1, <1>2, BacksOn DEF session
<1> QED BY <1>3, <1>4, <1>5 DEF EffectInv

(* The gates decide and the content drifts beside it.                       *)
LEMMA GateTypes ==
  ASSUME Typed, GateNext
  PROVE  /\ GateTypeOK' /\ content' = [k \in Key |-> content'[k]] /\ latest' = [g \in Gate |-> latest'[g]]
<1>1. GateTypeOK /\ content = [k \in Key |-> content[k]] /\ latest = [g \in Gate |-> latest[g]]
  BY DEF Typed, TypeOK
<1>2. ASSUME NEW k \in Key, Edit(k)
      PROVE  /\ GateTypeOK' /\ content' = [j \in Key |-> content'[j]] /\ latest' = [g \in Gate |-> latest'[g]]
  <2>1. PICK h \in Values[k] : content' = [content EXCEPT ![k] = h] /\ UNCHANGED latest
    BY <1>2 DEF Edit
  <2>2. content' = [j \in Key |-> content'[j]] /\ \A j \in Key : content'[j] = IF j = k THEN h ELSE content[j]
    BY <1>1, <2>1
  <2> QED BY <1>1, <2>1, <2>2 DEF GateTypeOK
<1>3. ASSUME NEW g \in Gate, NEW kind, NEW expires \in BOOLEAN, NEW verdict \in Verdicts[g], Decide(g, kind, verdict, expires)
      PROVE  /\ GateTypeOK' /\ content' = [j \in Key |-> content'[j]] /\ latest' = [f \in Gate |-> latest'[f]]
  <2> DEFINE d == [verdict |-> verdict, subjects |-> SubjectHashes(g, content), expires |-> expires]
  <2>1. latest' = [latest EXCEPT ![g] = d] /\ UNCHANGED content
    BY <1>3 DEF Decide
  <2>2. d.verdict = verdict /\ d.expires = expires /\ d.subjects = SubjectHashes(g, content)
    OBVIOUS
  <2>3. DOMAIN d.subjects \subseteq UNION {Values[k] : k \in Binds[g]}
    <3>1. Binds[g] \subseteq Key
      BY GateAssumption
    <3> QED BY <1>1, <3>1 DEF SubjectHashes, GateTypeOK
  <2> HIDE DEF d
  <2>4. latest' = [f \in Gate |-> latest'[f]] /\ \A f \in Gate : latest'[f] = IF f = g THEN d ELSE latest[f]
    BY <1>1, <2>1
  <2>5. ASSUME NEW f \in Gate
        PROVE  /\ latest'[f].verdict \in Verdicts[f] \cup {"none"} /\ latest'[f].expires \in BOOLEAN
               /\ DOMAIN latest'[f].subjects \subseteq UNION {Values[k] : k \in Binds[f]}
    BY <1>1, <2>2, <2>3, <2>4 DEF GateTypeOK
  <2> QED BY <1>1, <2>1, <2>4, <2>5 DEF GateTypeOK
<1> QED BY <1>2, <1>3 DEF GateNext

LEMMA GateEffect ==
  ASSUME Typed, EffectInv, GateNext, UNCHANGED <<world, session>>
  PROVE  Typed' /\ EffectInv'
<1>1. Typed'
  BY GateTypes DEF Typed, TypeOK, world, session
<1>2. Backed(receipt)' /\ More /\ remote' \in [IdempotencyKey -> 0 .. 2]
  BY MoreSame DEF world, EffectInv, Backed, Typed, TypeOK
<1>3. ASSUME NEW t \in Session PROVE Backs(t)'
  BY <1>2, BacksOn DEF session
<1> QED BY <1>1, <1>2, <1>3 DEF EffectInv

LEMMA DieEffect ==
  ASSUME Typed, EffectInv, NEW s \in Session, Die(s)
  PROVE  Typed' /\ EffectInv'
BY EndQuiet DEF Die

LEMMA EffectInit == Init => Typed /\ EffectInv
<1> SUFFICES ASSUME Init PROVE Typed /\ EffectInv
  OBVIOUS
<1>1. GateTypeOK /\ content = [k \in Key |-> content[k]] /\ latest = [g \in Gate |-> latest[g]]
  <2>1. \A g \in Gate : latest[g] = NoDecision
    BY DEF Init, GateInit
  <2>2. NoDecision.verdict = "none" /\ NoDecision.expires \in BOOLEAN /\ DOMAIN NoDecision.subjects = {}
    BY DEF NoDecision
  <2> QED BY <2>1, <2>2 DEF Init, GateInit, GateTypeOK
<1>2. Nothing \in [IdempotencyKey -> Status] /\ \A k \in IdempotencyKey : Nothing[k] = "not_started"
  BY DEF Nothing, Status
<1>3. TypeOK
  BY <1>1, <1>2, Keys DEF Init, TypeOK, Status
<1>4. Typed
  BY <1>1, <1>2, <1>3 DEF Init, Typed, Result
<1>5. EffectInv
  BY <1>2 DEF Init, EffectInv, Backs, Backed
<1> QED BY <1>4, <1>5

LEMMA EffectStep == Typed /\ EffectInv /\ [Next]_vars => Typed' /\ EffectInv'
<1> SUFFICES ASSUME Typed, EffectInv, [Next]_vars PROVE Typed' /\ EffectInv'
  OBVIOUS
<1>1. CASE UNCHANGED vars
  <2>1. UNCHANGED <<gates, world, session>>
    BY <1>1 DEF vars
  <2>2. Typed'
    <3>1. GateTypeOK'
      BY <2>1 DEF Typed, TypeOK, GateTypeOK, gates
    <3> QED BY <2>1, <3>1 DEF Typed, TypeOK, gates, session, world
  <2>3. Backed(receipt)' /\ More /\ remote' \in [IdempotencyKey -> 0 .. 2]
    BY <2>1, MoreSame DEF world, EffectInv, Backed, Typed, TypeOK
  <2>4. ASSUME NEW t \in Session PROVE Backs(t)'
    BY <2>1, <2>3, BacksOn DEF session
  <2> QED BY <2>2, <2>3, <2>4 DEF EffectInv
<1>2. CASE GateNext /\ UNCHANGED <<world, session>>
  BY <1>2, GateEffect
<1>3. ASSUME NEW k \in IdempotencyKey, Land(k) PROVE Typed' /\ EffectInv'
  BY <1>3, LandEffect
<1>4. ASSUME NEW s \in Session, Die(s) PROVE Typed' /\ EffectInv'
  BY <1>4, DieEffect
<1>5. ASSUME NEW s \in Session, Execute(s) PROVE Typed' /\ EffectInv'
  <2>1. CASE Start(s)
    BY <2>1, StartEffect
  <2>2. CASE NotQueried(s) \/ LookupAbsent(s) \/ LookupExists(s) \/ LookupUnanswered(s)
    BY <2>2, QueryEffect
  <2>3. CASE Repair(s)
    BY <2>3, RepairEffect
  <2>4. CASE List(s) \/ PassOver(s) \/ RefuseUnconfirmed(s) \/ RefuseUnauthorized(s) \/ Permit(s)
    BY <2>4, ExecuteEffect
  <2>5. CASE Perform(s)
    BY <2>5, PerformEffect
  <2>6. CASE Record(s)
    BY <2>6, RecordEffect
  <2> QED BY <1>5, <2>1, <2>2, <2>3, <2>4, <2>5, <2>6 DEF Execute
<1> QED BY <1>1, <1>2, <1>3, <1>4, <1>5 DEF Next

(* Every reachable state of a release is well typed, however many sessions  *)
(* execute it and whatever the gates and the content do meanwhile.          *)
THEOREM TypeCorrect == Spec => []TypeOK
<1>1. Typed => TypeOK
  BY DEF Typed
<1> QED BY <1>1, EffectInit, EffectStep, PTL DEF Spec

(* "They run only once every required one has succeeded": for any number of *)
(* sessions, plan and gates, a best-effort operation is performed only when *)
(* each required operation of its bundle has its effect, even if it is      *)
(* another session or an earlier pass that recorded so.                     *)
THEOREM BestEffortHolds == Spec => BestEffortLast
<1>1. Typed /\ EffectInv /\ [Next]_vars =>
        \A s \in Session :
          Performs(s) /\ Op(s) \notin Required =>
            \A o \in Required : remote[<<o, bundle[s]>>] > 0
  <2> SUFFICES ASSUME Typed, EffectInv, NEW s \in Session, pc[s] = "perform", Op(s) \notin Required, NEW o \in Required
               PROVE  remote[<<o, bundle[s]>>] > 0
    BY DEF Performs
  <2>1. o \in Operation
    BY PlanAssumption
  <2>2. PICK i \in DOMAIN Plan : Plan[i] = o
    BY <2>1, Keys
  <2>3. at[s] \in DOMAIN Plan /\ Op(s) = Plan[at[s]]
    BY CurrentKey, Keys DEF Op
  <2>4. ~(at[s] < i) /\ at[s] # i
    BY <2>2, <2>3, PlanAssumption
  <2>5. i \in 1 .. at[s] - 1
    BY <2>2, <2>3, <2>4, Keys
  <2> QED BY <2>2, <2>5 DEF EffectInv, Backs
<1> QED BY <1>1, EffectInit, EffectStep, PTL DEF Spec, BestEffortLast

-----------------------------------------------------------------------------
(* One execution of this Run at a time.                                     *)
OneSession == \A s, t \in Session : s = t

(* Where a destination that can be asked has to be asked again, it neither  *)
(* holds the effect nor has a request for it on the way.                    *)
Cleared(o, h) ==
  o \in OneShot \cap Queryable /\ receipt[<<o, h>>] \in {"not_started", "pending"} =>
    remote[<<o, h>>] = 0 /\ <<o, h>> \notin flying

Looked(s, i) == Plan[i] \notin unestablished[s] => Cleared(Plan[i], bundle[s])
Listed(s, i) == known[s][<<Plan[i], bundle[s]>>] = receipt[<<Plan[i], bundle[s]>>]

(* The first loop clears what lies behind it, the second has yet to perform *)
(* what lies before it; of both, what they listed is still on record.       *)
Asked(s) ==
  /\ pc[s] \in {"reconcile", "repair"} => /\ \A i \in at[s] .. Len(Plan) : Listed(s, i)
                                          /\ \A i \in 1 .. at[s] - 1 : Looked(s, i)
  /\ pc[s] = "list" => \A i \in 1 .. Len(Plan) : Looked(s, i)
  /\ pc[s] \in {"execute", "perform"} => \A i \in at[s] .. Len(Plan) : Listed(s, i) /\ Looked(s, i)
  /\ pc[s] = "record" => \A i \in at[s] + 1 .. Len(Plan) : Listed(s, i) /\ Looked(s, i)
  /\ pc[s] = "perform" => ~LeftOut(s) /\ ~Settled(s) /\ ~Unconfirmed(s)

QueryInv == \A s \in Session : Asked(s)

(* Under one session, a step is of that one.                                *)
LEMMA Alone ==
  ASSUME OneSession, NEW s \in Session, Asked(s)'
  PROVE  QueryInv'
BY DEF OneSession, QueryInv

LEMMA DistinctKeys ==
  ASSUME Typed, NEW s \in Session, pc[s] # "idle"
  PROVE  \A i \in 1 .. Len(Plan) : /\ <<Plan[i], bundle[s]>> \in IdempotencyKey
                                   /\ i # at[s] => <<Plan[i], bundle[s]>> # KeyOf(s)
<1>1. bundle[s] \in Values[Released] /\ at[s] \in DOMAIN Plan
  BY SessionTypes DEF Typed, TypedAt
<1> QED BY <1>1, Keys, PlanAssumption DEF KeyOf, Op

LEMMA StartAsks ==
  ASSUME Typed, EffectInv, NEW s \in Session, Start(s)
  PROVE  Asked(s)'
<1>1. pc'[s] = "reconcile" /\ at'[s] = 1 /\ known'[s] = receipt /\ receipt' = receipt
  BY Starts DEF EffectInv, Backs, world
<1> QED BY <1>1 DEF Asked, Listed

(* An operation is behind the first loop once it has been asked about, or   *)
(* need not be, or is left out.                                             *)
LEMMA LookupAsks ==
  ASSUME Typed, NEW s \in Session, Asked(s), pc[s] \in {"reconcile", "repair"},
         NEW skipped \in SUBSET Operation, NextLookup(s, skipped), UNCHANGED <<remote, flying>>,
         \A k \in IdempotencyKey : k # KeyOf(s) => receipt'[k] = receipt[k],
         \/ Op(s) \in skipped
         \/ Op(s) \notin OneShot \cap Queryable
         \/ receipt'[KeyOf(s)] \notin {"not_started", "pending"}
         \/ remote[KeyOf(s)] = 0 /\ KeyOf(s) \notin flying
  PROVE  Asked(s)'
<1>1. at[s] \in 1 .. Len(Plan) /\ Len(Plan) \in Nat
  BY CurrentKey
<1>2. /\ bundle'[s] = bundle[s] /\ known'[s] = known[s] /\ unestablished'[s] = unestablished[s] \cup skipped
      /\ \/ pc'[s] = "list" /\ at[s] = Len(Plan) /\ at'[s] = 1
         \/ pc'[s] = "reconcile" /\ at'[s] = at[s] + 1
  BY NextLookups
<1>3. ASSUME NEW i \in 1 .. at[s] - 1 PROVE Looked(s, i)'
  <2>1. i \in 1 .. Len(Plan) /\ i # at[s]
    BY <1>1
  <2>2. receipt'[<<Plan[i], bundle[s]>>] = receipt[<<Plan[i], bundle[s]>>]
    BY <2>1, DistinctKeys
  <2>3. Looked(s, i)
    BY DEF Asked
  <2> QED BY <1>2, <2>2, <2>3 DEF Looked, Cleared
<1>4. ASSUME NEW i, i = at[s] PROVE Looked(s, i)'
  <2>1. Op(s) = Plan[i] /\ KeyOf(s) = <<Plan[i], bundle[s]>>
    BY <1>4 DEF Op, KeyOf
  <2> QED BY <1>2, <2>1 DEF Looked, Cleared
<1>5. \A i \in 1 .. at[s] : Looked(s, i)'
  BY <1>1, <1>3, <1>4
<1>6. ASSUME NEW i \in at[s] + 1 .. Len(Plan) PROVE Listed(s, i)'
  <2>1. i \in 1 .. Len(Plan) /\ i # at[s] /\ i \in at[s] .. Len(Plan)
    BY <1>1
  <2>2. receipt'[<<Plan[i], bundle[s]>>] = receipt[<<Plan[i], bundle[s]>>]
    BY <2>1, DistinctKeys
  <2> QED BY <1>2, <2>1, <2>2 DEF Asked, Listed
<1>7. CASE pc'[s] = "list"
  BY <1>2, <1>5, <1>7 DEF Asked
<1>8. CASE pc'[s] = "reconcile"
  BY <1>1, <1>2, <1>5, <1>6, <1>8 DEF Asked
<1> QED BY <1>2, <1>7, <1>8

LEMMA EndAsks == ASSUME Typed, NEW s \in Session, End(s) PROVE Asked(s)'
BY Ends DEF Asked

LEMMA QueryAsks ==
  ASSUME Typed, NEW s \in Session, Asked(s),
         NotQueried(s) \/ LookupAbsent(s) \/ LookupExists(s) \/ LookupUnanswered(s)
  PROVE  Asked(s)'
<1>1. pc[s] = "reconcile" /\ UNCHANGED <<receipt, remote, flying>>
  BY DEF NotQueried, LookupAbsent, LookupExists, LookupUnanswered, Lookup, world
<1>2. Found(s) = receipt[KeyOf(s)] /\ Op(s) \in Operation
  BY <1>1, CurrentKey DEF Asked, Listed, Found, KeyOf, Op
<1>3. CASE NotQueried(s)
  BY <1>1, <1>2, <1>3, LookupAsks DEF NotQueried, OneShot
<1>4. CASE LookupAbsent(s)
  BY <1>1, <1>4, LookupAsks DEF LookupAbsent
<1>5. CASE LookupExists(s)
  <2>1. Goto(s, "repair") /\ UNCHANGED <<bundle, at, known, unestablished>>
    BY <1>5 DEF LookupExists
  <2>2. pc'[s] = "repair"
    BY <2>1, SessionTypes DEF Goto
  <2> QED BY <1>1, <2>1, <2>2 DEF Asked, Listed, Looked, Cleared
<1>6. CASE LookupUnanswered(s)
  BY <1>1, <1>2, <1>6, LookupAsks, EndAsks DEF LookupUnanswered
<1> QED BY <1>3, <1>4, <1>5, <1>6

LEMMA RepairAsks ==
  ASSUME Typed, EffectInv, NEW s \in Session, Asked(s), Repair(s)
  PROVE  Asked(s)'
<1>1. /\ pc[s] = "repair" /\ NextLookup(s, {}) /\ UNCHANGED <<remote, flying>> /\ remote[KeyOf(s)] > 0
      /\ receipt' = [receipt EXCEPT ![KeyOf(s)] = "succeeded"]
  BY DEF Repair, EffectInv, Backs
<1>2. receipt'[KeyOf(s)] = "succeeded" /\ \A k \in IdempotencyKey : k # KeyOf(s) => receipt'[k] = receipt[k]
  BY <1>1, Receipts DEF Status
<1> QED BY <1>1, <1>2, LookupAsks

LEMMA OperationAsks ==
  ASSUME Typed, NEW s \in Session, Asked(s), pc[s] \in {"execute", "record"}, NextOperation(s),
         UNCHANGED <<remote, flying>>, \A k \in IdempotencyKey : k # KeyOf(s) => receipt'[k] = receipt[k]
  PROVE  Asked(s)'
<1>1. CASE End(s)
  BY <1>1, EndAsks
<1>2. CASE ~End(s)
  <2>1. at[s] \in 1 .. Len(Plan) /\ Len(Plan) \in Nat
    BY CurrentKey
  <2>2. /\ pc'[s] = "execute" /\ at'[s] = at[s] + 1
        /\ bundle'[s] = bundle[s] /\ known'[s] = known[s] /\ unestablished'[s] = unestablished[s]
    BY <1>2, NextOperations
  <2>3. ASSUME NEW i \in at[s] + 1 .. Len(Plan) PROVE Listed(s, i)' /\ Looked(s, i)'
    <3>1. i \in 1 .. Len(Plan) /\ i # at[s] /\ Listed(s, i) /\ Looked(s, i)
      BY <2>1 DEF Asked
    <3>2. receipt'[<<Plan[i], bundle[s]>>] = receipt[<<Plan[i], bundle[s]>>]
      BY <3>1, DistinctKeys
    <3> QED BY <2>2, <3>1, <3>2 DEF Listed, Looked, Cleared
  <2> QED BY <2>1, <2>2, <2>3 DEF Asked
<1> QED BY <1>1, <1>2

LEMMA ExecuteAsks ==
  ASSUME Typed, EffectInv, NEW s \in Session, Asked(s),
         List(s) \/ PassOver(s) \/ RefuseUnconfirmed(s) \/ RefuseUnauthorized(s) \/ Permit(s)
  PROVE  Asked(s)'
<1>1. UNCHANGED <<receipt, remote, flying>> /\ pc[s] \in {"list", "execute"}
  BY DEF List, PassOver, RefuseUnconfirmed, RefuseUnauthorized, Permit, Due, world
<1>2. CASE End(s)
  BY <1>2, EndAsks
<1>3. at[s] \in 1 .. Len(Plan) /\ Len(Plan) \in Nat
  BY <1>1, CurrentKey
<1>4. CASE List(s)
  <2>1. at[s] = 1 /\ pc[s] = "list"
    BY <1>4 DEF List, EffectInv, Backs
  <2>2. pc'[s] = "execute" /\ known'[s] = receipt /\ UNCHANGED <<bundle, at, unestablished>>
    BY <1>4, SessionTypes DEF List, Goto
  <2> QED BY <1>1, <2>1, <2>2 DEF Asked, Listed, Looked, Cleared
<1>5. CASE PassOver(s)
  BY <1>1, <1>5, OperationAsks DEF PassOver
<1>6. CASE RefuseUnauthorized(s) /\ ~End(s)
  <2>1. Answered(s, "skipped") /\ pc[s] = "execute"
    BY <1>6 DEF RefuseUnauthorized, Due
  <2>2. pc'[s] = "record" /\ at'[s] = at[s] /\ UNCHANGED <<bundle, known, unestablished>>
    BY <2>1, SessionTypes DEF Answered, Goto
  <2>3. \A i \in at[s] + 1 .. Len(Plan) : Listed(s, i) /\ Looked(s, i)
    BY <1>3, <2>1 DEF Asked
  <2> QED BY <1>1, <2>2, <2>3 DEF Asked, Listed, Looked, Cleared
<1>7. CASE Permit(s)
  <2>1. pc[s] = "execute" /\ ~LeftOut(s) /\ ~Settled(s) /\ ~Unconfirmed(s)
    BY <1>7 DEF Permit, Due
  <2>2. pc'[s] = "perform" /\ UNCHANGED <<bundle, at, known, unestablished>>
    BY <1>7, SessionTypes DEF Permit, Goto
  <2>3. \A i \in at[s] .. Len(Plan) : Listed(s, i)' /\ Looked(s, i)'
    BY <1>1, <2>1, <2>2 DEF Asked, Listed, Looked, Cleared
  <2>4. ~LeftOut(s)' /\ ~Settled(s)' /\ ~Unconfirmed(s)'
    BY <2>1, <2>2 DEF LeftOut, Settled, Unconfirmed, Found, KeyOf, Op
  <2> QED BY <2>2, <2>3, <2>4 DEF Asked
<1> QED BY <1>2, <1>4, <1>5, <1>6, <1>7 DEF RefuseUnconfirmed

LEMMA PerformAsks ==
  ASSUME Typed, NEW s \in Session, Asked(s), Perform(s)
  PROVE  Asked(s)'
<1>1. pc[s] = "perform" /\ UNCHANGED receipt /\ KeyOf(s) \in IdempotencyKey /\ at[s] \in 1 .. Len(Plan) /\ Len(Plan) \in Nat
  BY CurrentKey DEF Perform
<1>2. Landed(KeyOf(s)) \/ OnItsWay(KeyOf(s)) \/ NoEffect
  BY DEF Perform
<1>3. CASE End(s)
  BY <1>3, EndAsks
<1>4. ASSUME NEW status, Answered(s, status) PROVE Asked(s)'
  <2>1. pc'[s] = "record" /\ at'[s] = at[s] /\ UNCHANGED <<bundle, known, unestablished>>
    BY <1>4, SessionTypes DEF Answered, Goto
  <2>2. ASSUME NEW i \in at[s] + 1 .. Len(Plan) PROVE Listed(s, i)' /\ Looked(s, i)'
    <3>1. i \in 1 .. Len(Plan) /\ i # at[s] /\ Listed(s, i) /\ Looked(s, i)
      BY <1>1 DEF Asked
    <3>2. <<Plan[i], bundle[s]>> \in IdempotencyKey /\ <<Plan[i], bundle[s]>> # KeyOf(s)
      BY <1>1, <3>1, DistinctKeys
    <3>3. /\ remote'[<<Plan[i], bundle[s]>>] = remote[<<Plan[i], bundle[s]>>]
          /\ <<Plan[i], bundle[s]>> \in flying' => <<Plan[i], bundle[s]>> \in flying
      BY <1>1, <1>2, <3>2, Effects
    <3> QED BY <1>1, <2>1, <3>1, <3>3 DEF Listed, Looked, Cleared
  <2> QED BY <2>1, <2>2 DEF Asked
<1> QED BY <1>3, <1>4 DEF Perform

LEMMA RecordAsks ==
  ASSUME Typed, EffectInv, NEW s \in Session, Asked(s), Record(s)
  PROVE  Asked(s)'
<1>1. /\ pc[s] = "record" /\ UNCHANGED <<gates, remote, flying>> /\ Backs(s) /\ outcome[s] \in Status
      /\ receipt' = [receipt EXCEPT ![KeyOf(s)] = outcome[s]]
  BY SessionTypes DEF Record, EffectInv, Backs, TypedAt, Result, Status
<1>2. \A k \in IdempotencyKey : k # KeyOf(s) => receipt'[k] = receipt[k]
  BY <1>1, Receipts DEF Backs
<1>3. End(s) \/ NextOperation(s)
  BY DEF Record
<1> QED BY <1>1, <1>2, <1>3, EndAsks, OperationAsks

(* An effect that arrives is of a key nobody has found clear.               *)
LEMMA LandAsks ==
  ASSUME Typed, NEW s \in Session, Asked(s), NEW k \in IdempotencyKey, Land(k)
  PROVE  Asked(s)'
<1>1. UNCHANGED <<receipt, session>> /\ AddEffect(k) /\ k \in flying /\ flying' = flying \ {k}
  BY DEF Land
<1>2. \A j \in IdempotencyKey : j # k => remote'[j] = remote[j]
  BY <1>1, AddsEffect
<1>3. ASSUME NEW i \in 1 .. Len(Plan), pc[s] # "idle", Looked(s, i) PROVE Looked(s, i)'
  <2>1. <<Plan[i], bundle[s]>> \in IdempotencyKey
    BY <1>3, DistinctKeys
  <2> QED BY <1>1, <1>2, <1>3, <2>1 DEF Looked, Cleared, session
<1>4. ASSUME NEW i PROVE Listed(s, i)' = Listed(s, i)
  BY <1>1 DEF Listed, session
<1>5. at[s] \in 1 .. Len(Plan) /\ Len(Plan) \in Nat
  BY SessionTypes, Keys DEF TypedAt
<1>6. pc'[s] = pc[s] /\ at'[s] = at[s]
  BY <1>1 DEF session
<1>7. (~LeftOut(s) /\ ~Settled(s) /\ ~Unconfirmed(s)) => ~LeftOut(s)' /\ ~Settled(s)' /\ ~Unconfirmed(s)'
  BY <1>1 DEF session, LeftOut, Settled, Unconfirmed, Found, KeyOf, Op
<1> QED BY <1>3, <1>4, <1>5, <1>6, <1>7 DEF Asked

LEMMA AsksOn ==
  ASSUME NEW s \in Session, Asked(s), UNCHANGED <<world, session>>
  PROVE  Asked(s)'
BY DEF Asked, Listed, Looked, Cleared, LeftOut, Settled, Unconfirmed, Found, KeyOf, Op, world, session

LEMMA QueryStep ==
  ASSUME OneSession, Typed, EffectInv, QueryInv, [Next]_vars
  PROVE  QueryInv'
<1>1. CASE UNCHANGED <<world, session>>
  BY <1>1, AsksOn DEF QueryInv
<1>2. ASSUME NEW k \in IdempotencyKey, Land(k) PROVE QueryInv'
  BY <1>2, LandAsks DEF QueryInv
<1>3. ASSUME NEW s \in Session, Die(s) PROVE QueryInv'
  BY <1>3, EndAsks, Alone DEF Die
<1>4. ASSUME NEW s \in Session, Execute(s) PROVE QueryInv'
  <2>1. Asked(s)
    BY DEF QueryInv
  <2>2. CASE Start(s)
    BY <2>2, StartAsks, Alone
  <2>3. CASE NotQueried(s) \/ LookupAbsent(s) \/ LookupExists(s) \/ LookupUnanswered(s)
    BY <2>1, <2>3, QueryAsks, Alone
  <2>4. CASE Repair(s)
    BY <2>1, <2>4, RepairAsks, Alone
  <2>5. CASE List(s) \/ PassOver(s) \/ RefuseUnconfirmed(s) \/ RefuseUnauthorized(s) \/ Permit(s)
    BY <2>1, <2>5, ExecuteAsks, Alone
  <2>6. CASE Perform(s)
    BY <2>1, <2>6, PerformAsks, Alone
  <2>7. CASE Record(s)
    BY <2>1, <2>7, RecordAsks, Alone
  <2> QED BY <1>4, <2>2, <2>3, <2>4, <2>5, <2>6, <2>7 DEF Execute
<1> QED BY <1>1, <1>2, <1>3, <1>4 DEF Next, vars

(* "Retrying then publishes twice": with one execution of a Run at a time,  *)
(* however often one dies between request, answer and receipt, an operation *)
(* that is not repeatable is never performed over a pending receipt, and    *)
(* where the destination can be asked and no failure is on record, only     *)
(* when its effect is neither there nor on the way.                         *)
THEOREM OneShotHolds == OneSession /\ Spec => OneShotNotRepeated
<1> SUFFICES ASSUME OneSession PROVE Spec => OneShotNotRepeated
  OBVIOUS
<1>1. Init => QueryInv
  BY DEF Init, QueryInv, Asked
<1>2. Typed /\ EffectInv /\ QueryInv /\ [Next]_vars => QueryInv'
  BY QueryStep
<1>3. Typed /\ EffectInv /\ QueryInv /\ [Next]_vars =>
        \A s \in Session :
          Performs(s) /\ Op(s) \in OneShot =>
            /\ receipt[KeyOf(s)] # "pending"
            /\ Op(s) \in Queryable /\ receipt[KeyOf(s)] # "failed" =>
                 remote[KeyOf(s)] = 0 /\ KeyOf(s) \notin flying
  <2> SUFFICES ASSUME Typed, QueryInv, NEW s \in Session, pc[s] = "perform", Op(s) \in OneShot
               PROVE  /\ receipt[KeyOf(s)] # "pending"
                      /\ Op(s) \in Queryable /\ receipt[KeyOf(s)] # "failed" =>
                           remote[KeyOf(s)] = 0 /\ KeyOf(s) \notin flying
    BY DEF Performs
  <2>1. at[s] \in at[s] .. Len(Plan) /\ KeyOf(s) = <<Plan[at[s]], bundle[s]>> /\ Op(s) = Plan[at[s]]
    <3>1. at[s] \in 1 .. Len(Plan)
      BY CurrentKey
    <3>2. at[s] \in at[s] .. Len(Plan)
      BY <3>1
    <3> QED BY <3>2 DEF KeyOf, Op
  <2>2. /\ Found(s) = receipt[KeyOf(s)] /\ Looked(s, at[s])
        /\ ~LeftOut(s) /\ ~Settled(s) /\ ~Unconfirmed(s)
    BY <2>1 DEF QueryInv, Asked, Listed, Found
  <2>3. Found(s) \in {"not_started", "failed"}
    BY <2>2, CurrentKey DEF Settled, Unconfirmed, OneShot, Status
  <2>4. Cleared(Op(s), bundle[s])
    BY <2>1, <2>2 DEF Looked, LeftOut
  <2> QED BY <2>1, <2>2, <2>3, <2>4 DEF Cleared
<1> QED BY <1>1, <1>2, <1>3, EffectInit, EffectStep, PTL DEF Spec, OneShotNotRepeated

-----------------------------------------------------------------------------
(* Induction, in the form the provers can use.                              *)
LEMMA Least ==
  ASSUME NEW S \in SUBSET Nat, S # {}
  PROVE  \E n \in S : \A m \in S : n <= m
<1>1. IsWellFoundedOn(OpToRel(<, Nat), Nat)
  BY NatLessThanWellFounded
<1>2. \E x \in S : \A y \in S : <<y, x>> \notin OpToRel(<, Nat)
  BY <1>1, WFMin
<1>3. \A x, y \in Nat : <<y, x>> \in OpToRel(<, Nat) <=> y < x
  BY DEF OpToRel
<1>4. \E x \in S : \A y \in S : ~ (y < x)
  BY <1>2, <1>3, Zenon
<1> QED BY <1>4

LEMMA Induction ==
  ASSUME NEW S, 0 \in S, \A n \in Nat : n \in S => n + 1 \in S
  PROVE  Nat \subseteq S
<1> SUFFICES ASSUME Nat \ S # {} PROVE FALSE
  OBVIOUS
<1>1. PICK n \in Nat \ S : \A m \in Nat \ S : n <= m
  BY Least
<1>2. n # 0 /\ n - 1 \in Nat /\ n - 1 \notin Nat \ S
  BY <1>1
<1> QED BY <1>1, <1>2

(* f is what step makes of start, time after time, up to N times. *)
Iterates(f, N, start, step) ==
  f = [n \in 0 .. N |-> IF n = 0 THEN start ELSE step[n][f[n - 1]]]

LEMMA IterationExists ==
  ASSUME NEW N \in Nat, NEW T, NEW start \in T, NEW step \in [1 .. N -> [T -> T]]
  PROVE  \E f \in [0 .. N -> T] : Iterates(f, N, start, step)
<1> DEFINE S == {m \in Nat : m <= N => \E f \in [0 .. m -> T] : Iterates(f, m, start, step)}
<1>1. 0 \in S
  <2>1. [n \in 0 .. 0 |-> start] \in [0 .. 0 -> T]
    OBVIOUS
  <2>2. Iterates([n \in 0 .. 0 |-> start], 0, start, step)
    BY DEF Iterates
  <2> QED BY <2>1, <2>2
<1>2. ASSUME NEW m \in Nat, m \in S PROVE m + 1 \in S
  <2> SUFFICES ASSUME m + 1 <= N PROVE \E f \in [0 .. m + 1 -> T] : Iterates(f, m + 1, start, step)
    OBVIOUS
  <2>1. PICK f \in [0 .. m -> T] : Iterates(f, m, start, step)
    BY <1>2
  <2>2. f[m] \in T /\ step[m + 1][f[m]] \in T
    BY <2>1
  <2> DEFINE h == [n \in 0 .. m + 1 |-> IF n = m + 1 THEN step[m + 1][f[m]] ELSE f[n]]
  <2>3. h \in [0 .. m + 1 -> T]
    BY <2>2
  <2>4. ASSUME NEW n \in 0 .. m + 1
        PROVE  h[n] = IF n = 0 THEN start ELSE step[n][h[n - 1]]
    <3>1. CASE n = m + 1
      BY <3>1
    <3>2. CASE n # m + 1
      <4>1. n \in 0 .. m /\ h[n] = f[n] /\ (n # 0 => h[n - 1] = f[n - 1])
        BY <3>2
      <4> QED BY <2>1, <4>1 DEF Iterates
    <3> QED BY <3>1, <3>2
  <2>5. Iterates(h, m + 1, start, step)
    BY <2>4 DEF Iterates
  <2> QED BY <2>3, <2>5
<1>3. Nat \subseteq S
  <2> HIDE DEF S
  <2> QED BY <1>1, <1>2, Induction
<1> QED BY <1>3

LEMMA IteratesAt ==
  ASSUME NEW N \in Nat, NEW start, NEW step, NEW f, Iterates(f, N, start, step)
  PROVE  f[0] = start /\ \A n \in 1 .. N : f[n] = step[n][f[n - 1]]
BY DEF Iterates

(* g[n] takes n steps from x and returns where it gets.                     *)
Row(g, n, D, next) == [x \in D |-> IF n = 0 THEN x ELSE g[n - 1][next[n][x]]]

Descends(g, N, D, next) == g = [n \in 0 .. N |-> Row(g, n, D, next)]

LEMMA DescentExists ==
  ASSUME NEW N \in Nat, NEW D, NEW next \in [1 .. N -> [D -> D]]
  PROVE  \E g : Descends(g, N, D, next)
<1> DEFINE T == [D -> D]
           same == [x \in D |-> x]
           step == [n \in 1 .. N |-> [h \in T |-> [x \in D |-> h[next[n][x]]]]]
<1>1. step \in [1 .. N -> [T -> T]] /\ same \in T
  OBVIOUS
<1>2. PICK g \in [0 .. N -> T] : Iterates(g, N, same, step)
  <2> HIDE DEF T, same, step
  <2> QED BY <1>1, IterationExists
<1>3. ASSUME NEW n \in 1 .. N
      PROVE  step[n][g[n - 1]] = [x \in D |-> g[n - 1][next[n][x]]]
  <2>1. g[n - 1] \in T
    <3> HIDE DEF T
    <3> QED OBVIOUS
  <2> HIDE DEF T
  <2> QED BY <2>1
<1> HIDE DEF step
<1>4. g[0] = same /\ \A n \in 1 .. N : g[n] = step[n][g[n - 1]]
  BY <1>2, IteratesAt
<1>5. ASSUME NEW n \in 0 .. N PROVE g[n] = Row(g, n, D, next)
  <2>1. CASE n = 0
    BY <1>4, <2>1 DEF Row
  <2>2. CASE n \in 1 .. N
    <3>1. g[n] = [x \in D |-> g[n - 1][next[n][x]]]
      BY <1>3, <1>4, <2>2
    <3> QED BY <2>2, <3>1 DEF Row
  <2> QED BY <2>1, <2>2
<1>6. g = [n \in 0 .. N |-> g[n]]
  BY <1>2
<1> QED BY <1>5, <1>6 DEF Descends

Walks(g, N, D, next) ==
  \A x \in D : g[0][x] = x /\ \A n \in 1 .. N : g[n][x] = g[n - 1][next[n][x]]

LEMMA DescentAt ==
  ASSUME NEW N \in Nat, NEW D, NEW next \in [1 .. N -> [D -> D]], NEW g, Descends(g, N, D, next)
  PROVE  Walks(g, N, D, next)
<1>1. \A n \in 0 .. N, x \in D : g[n][x] = IF n = 0 THEN x ELSE g[n - 1][next[n][x]]
  BY DEF Descends, Row
<1> QED BY <1>1 DEF Walks

-----------------------------------------------------------------------------
(* What blocks passes on to whoever is enforced and depends on it.          *)
Closed(depends, enforced, C) == \A g \in enforced : depends[g] \cap C # {} => g \in C

LEMMA Passed ==
  ASSUME NEW order \in Seq(Gate), NEW depends \in [Gate -> SUBSET Gate], NEW enforced \in SUBSET Gate,
         NEW B \in SUBSET Gate
  PROVE  /\ B \subseteq Pass(order, depends, enforced, B)
         /\ \A i \in DOMAIN order :
              order[i] \in enforced /\ depends[order[i]] \cap B # {} =>
                order[i] \in Pass(order, depends, enforced, B)
         /\ \A C \in SUBSET Gate : B \subseteq C /\ Closed(depends, enforced, C) =>
              Pass(order, depends, enforced, B) \subseteq C
<1> DEFINE N == Len(order)
           After(n, seen) == Visit(depends, enforced, seen, order[N - n + 1])
           Level(g, n) == [seen \in SUBSET Gate |-> IF n = 0 THEN seen ELSE g[n - 1][After(n, seen)]]
           Rec(g) == g = [n \in 0 .. N |-> Level(g, n)]
           f == CHOOSE g : Rec(g)
           next == [n \in 1 .. N |-> [seen \in SUBSET Gate |-> After(n, seen)]]
<1>1. N \in Nat /\ DOMAIN order = 1 .. N /\ \A i \in 1 .. N : order[i] \in Gate
  OBVIOUS
<1>2. next \in [1 .. N -> [SUBSET Gate -> SUBSET Gate]]
  BY <1>1 DEF Visit
<1>3. ASSUME NEW g PROVE Rec(g) <=> Descends(g, N, SUBSET Gate, next)
  <2>1. ASSUME NEW n \in 0 .. N PROVE Level(g, n) = Row(g, n, SUBSET Gate, next)
    <3> HIDE DEF After
    <3>1. CASE n = 0
      BY <3>1 DEF Row
    <3>2. CASE n \in 1 .. N
      <4>1. \A seen \in SUBSET Gate : next[n][seen] = After(n, seen)
        BY <3>2
      <4> HIDE DEF next
      <4> QED BY <3>2, <4>1 DEF Row
    <3> QED BY <1>1, <3>1, <3>2
  <2> HIDE DEF Level
  <2> QED BY <2>1 DEF Descends
<1>4. Descends(f, N, SUBSET Gate, next)
  <2>1. \E g : Rec(g)
    <3> HIDE DEF Rec, next, N
    <3> QED BY <1>1, <1>2, <1>3, DescentExists
  <2>2. Rec(f)
    <3> HIDE DEF Rec
    <3> QED BY <2>1
  <2> HIDE DEF Rec, f
  <2> QED BY <1>3, <2>2
<1>5. Pass(order, depends, enforced, B) = f[N][B]
  BY DEF Pass
<1>6. \A seen \in SUBSET Gate : f[0][seen] = seen /\ \A n \in 1 .. N : f[n][seen] = f[n - 1][After(n, seen)]
  <2>1. \A n \in 1 .. N, seen \in SUBSET Gate : next[n][seen] = After(n, seen)
    <3> HIDE DEF After
    <3> QED OBVIOUS
  <2> HIDE DEF f, After, N, next
  <2>2. Walks(f, N, SUBSET Gate, next)
    BY <1>1, <1>2, <1>4, DescentAt
  <2>3. \A seen \in SUBSET Gate : f[0][seen] = seen
    BY <2>2 DEF Walks
  <2>4. ASSUME NEW n \in 1 .. N, NEW seen \in SUBSET Gate PROVE f[n][seen] = f[n - 1][After(n, seen)]
    <3>1. f[n][seen] = f[n - 1][next[n][seen]]
      BY <2>2 DEF Walks
    <3> QED BY <2>1, <3>1
  <2> QED BY <2>3, <2>4
<1> HIDE DEF f
<1> DEFINE S == {n \in Nat : n <= N => \A seen \in SUBSET Gate :
                   /\ seen \subseteq f[n][seen]
                   /\ \A j \in N - n + 1 .. N :
                        order[j] \in enforced /\ depends[order[j]] \cap seen # {} => order[j] \in f[n][seen]
                   /\ \A C \in SUBSET Gate : seen \subseteq C /\ Closed(depends, enforced, C) => f[n][seen] \subseteq C}
<1>7. 0 \in S
  BY <1>1, <1>6
<1>8. ASSUME NEW n \in Nat, n \in S PROVE n + 1 \in S
  <2> SUFFICES ASSUME n + 1 <= N, NEW seen \in SUBSET Gate
               PROVE  /\ seen \subseteq f[n + 1][seen]
                      /\ \A j \in N - n .. N :
                           order[j] \in enforced /\ depends[order[j]] \cap seen # {} => order[j] \in f[n + 1][seen]
                      /\ \A C \in SUBSET Gate :
                           seen \subseteq C /\ Closed(depends, enforced, C) => f[n + 1][seen] \subseteq C
    BY <1>1
  <2> DEFINE o == order[N - n]
             x == Visit(depends, enforced, seen, o)
  <2>1. N - n \in 1 .. N /\ o \in Gate /\ n <= N
    BY <1>1
  <2>2. After(n + 1, seen) = x
    <3>1. N - (n + 1) + 1 = N - n
      BY <1>1
    <3> QED BY <3>1
  <2>3. f[n + 1][seen] = f[n][x]
    <3>1. n + 1 \in 1 .. N /\ (n + 1) - 1 = n
      BY <1>1
    <3> HIDE DEF After, x, N
    <3> QED BY <1>6, <2>2, <3>1
  <2>4. x \in SUBSET Gate /\ seen \subseteq x /\ (o \in enforced /\ depends[o] \cap seen # {} => o \in x)
    BY <2>1 DEF Visit
  <2>5. ASSUME NEW C \in SUBSET Gate, seen \subseteq C, Closed(depends, enforced, C) PROVE x \subseteq C
    BY <2>1, <2>5 DEF Visit, Closed
  <2> HIDE DEF x, After
  <2>6. /\ x \subseteq f[n][x]
        /\ \A j \in N - n + 1 .. N :
             order[j] \in enforced /\ depends[order[j]] \cap x # {} => order[j] \in f[n][x]
        /\ \A C \in SUBSET Gate : x \subseteq C /\ Closed(depends, enforced, C) => f[n][x] \subseteq C
    BY <1>8, <2>1, <2>4
  <2>7. ASSUME NEW j \in N - n .. N, order[j] \in enforced, depends[order[j]] \cap seen # {}
        PROVE  order[j] \in f[n][x]
    <3>1. CASE j = N - n
      BY <2>4, <2>6, <2>7, <3>1
    <3>2. CASE j # N - n
      <4>1. j \in N - n + 1 .. N /\ depends[order[j]] \cap x # {}
        <5>1. j \in Int /\ N - n \in Int /\ N - n <= j /\ j <= N /\ n \in Nat
          BY <1>1
        <5>2. j \in N - n + 1 .. N
          BY <3>2, <5>1
        <5>3. depends[order[j]] \cap x # {}
          BY <2>4, <2>7
        <5> QED BY <5>2, <5>3
      <4> QED BY <2>6, <2>7, <4>1
    <3> QED BY <3>1, <3>2
  <2> QED BY <2>3, <2>4, <2>5, <2>6, <2>7
<1>9. Nat \subseteq S
  <2> HIDE DEF S
  <2> QED BY <1>7, <1>8, Induction
<1>10. \A j \in DOMAIN order : j \in N - N + 1 .. N
  BY <1>1
<1> QED BY <1>1, <1>5, <1>9, <1>10

LEMMA FewGates == IsFiniteSet(Gate) /\ Cardinality(Gate) \in Nat /\ Cardinality(Gate) <= Len(Registry)
<1>1. Registry \in Seq(Gate) /\ Len(Registry) \in Nat /\ DOMAIN Registry = 1 .. Len(Registry)
  BY GateAssumption
<1>2. IsFiniteSet(1 .. Len(Registry)) /\ Cardinality(1 .. Len(Registry)) = Len(Registry)
  BY <1>1, FS_Interval
<1>3. Registry \in Surjection(1 .. Len(Registry), Gate)
  BY <1>1, GateAssumption DEF Surjection
<1> QED BY <1>2, <1>3, FS_Surjection, FS_CardinalityType

(* Sets of gates that grow until something comes to hold grow at most as    *)
(* often as there are gates.                                                *)
LEMMA Rises ==
  ASSUME NEW N \in Nat, NEW f, \A n \in 0 .. N : f[n] \subseteq Gate, NEW stable,
         \A n \in 1 .. N : n - 1 \in stable => n \in stable,
         \A n \in 1 .. N : n - 1 \notin stable => f[n - 1] \subseteq f[n] /\ f[n - 1] # f[n]
  PROVE  N \in stable \/ (0 \notin stable /\ Cardinality(f[N]) >= Cardinality(f[0]) + N)
<1>1. ASSUME NEW n \in 0 .. N PROVE IsFiniteSet(f[n]) /\ Cardinality(f[n]) \in Nat
  BY <1>1, FewGates, FS_Subset, FS_CardinalityType
<1> DEFINE S == {n \in Nat : n <= N =>
                   n \in stable \/ (0 \notin stable /\ Cardinality(f[n]) >= Cardinality(f[0]) + n)}
<1>2. 0 \in S
  BY <1>1
<1>3. ASSUME NEW n \in Nat, n \in S PROVE n + 1 \in S
  <2> SUFFICES ASSUME n + 1 <= N, n + 1 \notin stable
               PROVE  0 \notin stable /\ Cardinality(f[n + 1]) >= Cardinality(f[0]) + (n + 1)
    OBVIOUS
  <2>1. n \in 0 .. N /\ n + 1 \in 1 .. N /\ n + 1 \in 0 .. N /\ 0 \in 0 .. N /\ (n + 1) - 1 = n
    OBVIOUS
  <2>2. n \notin stable /\ f[n] \subseteq f[n + 1] /\ f[n] # f[n + 1]
    BY <2>1
  <2>3. Cardinality(f[n]) <= Cardinality(f[n + 1]) /\ Cardinality(f[n]) # Cardinality(f[n + 1])
    BY <1>1, <2>1, <2>2, FS_Subset
  <2>4. 0 \notin stable /\ Cardinality(f[n]) >= Cardinality(f[0]) + n
    BY <1>3, <2>1, <2>2
  <2>5. Cardinality(f[n]) \in Nat /\ Cardinality(f[n + 1]) \in Nat /\ Cardinality(f[0]) \in Nat
    BY <1>1, <2>1
  <2> QED BY <2>3, <2>4, <2>5
<1>4. Nat \subseteq S
  <2> HIDE DEF S
  <2> QED BY <1>2, <1>3, Induction
<1> QED BY <1>4

(* The cascade blocks the least set that contains what is broken and is     *)
(* closed: one pass more than there are gates is enough.                    *)
LEMMA Cascaded ==
  ASSUME NEW depends \in [Gate -> SUBSET Gate], NEW enforced \in SUBSET Gate, NEW broken \in SUBSET Gate
  PROVE  LET B == Cascade(Registry, depends, enforced, broken)
         IN  /\ B \subseteq Gate /\ broken \subseteq B /\ Closed(depends, enforced, B)
             /\ \A C \in SUBSET Gate : broken \subseteq C /\ Closed(depends, enforced, C) => B \subseteq C
<1> DEFINE N == Len(Registry) + 1
           next(b) == Pass(Registry, depends, enforced, b)
           Level(g, n) == [seen \in SUBSET Gate |-> IF n = 0 THEN seen ELSE g[n - 1][next(seen)]]
           Rec(g) == g = [n \in 0 .. N |-> Level(g, n)]
           f == CHOOSE g : Rec(g)
           step == [n \in 1 .. N |-> [seen \in SUBSET Gate |-> next(seen)]]
<1>1. /\ Len(Registry) \in Nat /\ N \in Nat /\ Registry \in Seq(Gate)
      /\ \A g \in Gate : \E i \in DOMAIN Registry : Registry[i] = g
  BY GateAssumption
<1>0. ASSUME NEW b \in SUBSET Gate
      PROVE  /\ b \subseteq next(b)
             /\ \A i \in DOMAIN Registry :
                  Registry[i] \in enforced /\ depends[Registry[i]] \cap b # {} => Registry[i] \in next(b)
             /\ \A C \in SUBSET Gate : b \subseteq C /\ Closed(depends, enforced, C) => next(b) \subseteq C
  BY <1>1, Passed
<1>2. \A b \in SUBSET Gate : next(b) \in SUBSET Gate
  <2>1. Closed(depends, enforced, Gate)
    BY DEF Closed
  <2> QED BY <1>0, <2>1
<1>13. step \in [1 .. N -> [SUBSET Gate -> SUBSET Gate]]
  BY <1>2
<1>3. ASSUME NEW g PROVE Rec(g) <=> Descends(g, N, SUBSET Gate, step)
  <2>1. ASSUME NEW n \in 0 .. N PROVE Level(g, n) = Row(g, n, SUBSET Gate, step)
    <3> HIDE DEF next
    <3>1. CASE n = 0
      BY <3>1 DEF Row
    <3>2. CASE n \in 1 .. N
      <4>1. \A seen \in SUBSET Gate : step[n][seen] = next(seen)
        BY <3>2
      <4> HIDE DEF step
      <4> QED BY <3>2, <4>1 DEF Row
    <3> QED BY <1>1, <3>1, <3>2
  <2> HIDE DEF Level
  <2> QED BY <2>1 DEF Descends
<1>4. Descends(f, N, SUBSET Gate, step)
  <2>1. \E g : Rec(g)
    <3> HIDE DEF Rec, step, N
    <3> QED BY <1>1, <1>13, <1>3, DescentExists
  <2>2. Rec(f)
    <3> HIDE DEF Rec
    <3> QED BY <2>1
  <2> HIDE DEF Rec, f
  <2> QED BY <1>3, <2>2
<1>5. Cascade(Registry, depends, enforced, broken) = f[N][broken]
  BY DEF Cascade
<1>6. \A seen \in SUBSET Gate : f[0][seen] = seen /\ \A n \in 1 .. N : f[n][seen] = f[n - 1][next(seen)]
  <2>1. \A n \in 1 .. N, seen \in SUBSET Gate : step[n][seen] = next(seen)
    <3> HIDE DEF next
    <3> QED OBVIOUS
  <2> HIDE DEF f, next, N, step
  <2>2. Walks(f, N, SUBSET Gate, step)
    BY <1>1, <1>13, <1>4, DescentAt
  <2>3. \A seen \in SUBSET Gate : f[0][seen] = seen
    BY <2>2 DEF Walks
  <2>4. ASSUME NEW n \in 1 .. N, NEW seen \in SUBSET Gate PROVE f[n][seen] = f[n - 1][next(seen)]
    <3>1. f[n][seen] = f[n - 1][step[n][seen]]
      BY <2>2 DEF Walks
    <3> QED BY <2>1, <3>1
  <2> QED BY <2>3, <2>4
<1> HIDE DEF f, next
<1>7. \A b \in SUBSET Gate : IsFiniteSet(b) /\ Cardinality(b) \in Nat /\ Cardinality(b) <= Cardinality(Gate)
  BY FewGates, FS_Subset, FS_CardinalityType
<1> DEFINE S == {n \in Nat : n <= N => \A seen \in SUBSET Gate :
                   /\ f[n][seen] \subseteq Gate /\ seen \subseteq f[n][seen]
                   /\ Closed(depends, enforced, f[n][seen]) \/ Cardinality(f[n][seen]) >= Cardinality(seen) + n
                   /\ \A C \in SUBSET Gate : seen \subseteq C /\ Closed(depends, enforced, C) => f[n][seen] \subseteq C}
<1>8. 0 \in S
  BY <1>6, <1>7
<1>9. ASSUME NEW n \in Nat, n \in S PROVE n + 1 \in S
  <2> SUFFICES ASSUME n + 1 <= N, NEW seen \in SUBSET Gate
               PROVE  /\ f[n + 1][seen] \subseteq Gate /\ seen \subseteq f[n + 1][seen]
                      /\ \/ Closed(depends, enforced, f[n + 1][seen])
                         \/ Cardinality(f[n + 1][seen]) >= Cardinality(seen) + (n + 1)
                      /\ \A C \in SUBSET Gate :
                           seen \subseteq C /\ Closed(depends, enforced, C) => f[n + 1][seen] \subseteq C
    OBVIOUS
  <2>1. f[n + 1][seen] = f[n][next(seen)] /\ n <= N
    <3>1. n + 1 \in 1 .. N /\ (n + 1) - 1 = n
      BY <1>1
    <3> QED BY <1>1, <1>6, <3>1
  <2>2. next(seen) \in SUBSET Gate /\ seen \subseteq next(seen)
    BY <1>0, <1>2
  <2> DEFINE x == next(seen)
  <2>3. /\ f[n][x] \subseteq Gate /\ x \subseteq f[n][x]
        /\ Closed(depends, enforced, f[n][x]) \/ Cardinality(f[n][x]) >= Cardinality(x) + n
        /\ \A C \in SUBSET Gate : x \subseteq C /\ Closed(depends, enforced, C) => f[n][x] \subseteq C
    <3> HIDE DEF x
    <3>1. x \in SUBSET Gate
      BY <2>2 DEF x
    <3> QED BY <1>9, <2>1, <3>1
  <2>4. ASSUME NEW C \in SUBSET Gate, seen \subseteq C, Closed(depends, enforced, C) PROVE f[n][x] \subseteq C
    BY <1>0, <2>3, <2>4
  <2>5. ASSUME ~Closed(depends, enforced, f[n][x]) PROVE Cardinality(f[n][x]) >= Cardinality(seen) + (n + 1)
    <3>1. x # seen
      <4>1. ASSUME x = seen PROVE Closed(depends, enforced, seen)
        <5> SUFFICES ASSUME NEW g \in enforced, depends[g] \cap seen # {} PROVE g \in seen
          BY DEF Closed
        <5>1. PICK i \in DOMAIN Registry : Registry[i] = g
          BY <1>1
        <5> QED BY <1>0, <4>1, <5>1
      <4>2. ASSUME x = seen PROVE f[n][x] = seen
        BY <2>3, <2>4, <4>1, <4>2
      <4> QED BY <2>5, <4>1, <4>2
    <3>2. Cardinality(seen) <= Cardinality(x) /\ Cardinality(seen) # Cardinality(x)
      BY <1>7, <2>2, <3>1, FS_Subset
    <3>3. Cardinality(x) \in Nat /\ Cardinality(seen) \in Nat /\ Cardinality(f[n][x]) \in Nat
      BY <1>7, <2>2, <2>3
    <3>4. Cardinality(f[n][x]) >= Cardinality(x) + n
      BY <2>3, <2>5
    <3> HIDE DEF x
    <3> QED BY <3>2, <3>3, <3>4
  <2> QED BY <2>1, <2>2, <2>3, <2>4, <2>5
<1>10. Nat \subseteq S
  <2> HIDE DEF S
  <2> QED BY <1>8, <1>9, Induction
<1>11. /\ f[N][broken] \subseteq Gate /\ broken \subseteq f[N][broken]
       /\ Closed(depends, enforced, f[N][broken]) \/ Cardinality(f[N][broken]) >= Cardinality(broken) + N
       /\ \A C \in SUBSET Gate : broken \subseteq C /\ Closed(depends, enforced, C) => f[N][broken] \subseteq C
  BY <1>1, <1>10
<1>12. Closed(depends, enforced, f[N][broken])
  <2>1. /\ Cardinality(f[N][broken]) \in Nat /\ Cardinality(broken) \in Nat
        /\ Cardinality(f[N][broken]) <= Cardinality(Gate)
    BY <1>7, <1>11
  <2>2. Cardinality(Gate) \in Nat /\ Cardinality(Gate) < N
    BY <1>1, FewGates
  <2> HIDE DEF N
  <2> QED BY <1>1, <1>11, <2>1, <2>2
<1> QED BY <1>5, <1>11, <1>12

(* Upstream is closed the other way: what an enforced gate of it depends on *)
(* and is enforced is in it; and it has nothing else.                       *)
LEMMA UpstreamIs ==
  ASSUME NEW g \in Gate
  PROVE  /\ Upstream(g) \subseteq Enforced /\ DependsOn[g] \cap Enforced \subseteq Upstream(g)
         /\ \A u \in Upstream(g) : DependsOn[u] \cap Enforced \subseteq Upstream(g)
         /\ \A D \in SUBSET Enforced :
              /\ DependsOn[g] \cap Enforced \subseteq D
              /\ \A u \in D : DependsOn[u] \cap Enforced \subseteq D
              => Upstream(g) \subseteq D
<1> DEFINE N == Len(Registry)
           Wider(U) == U \cup ((UNION {DependsOn[u] : u \in U}) \cap Enforced)
           Rec(f) == f = [n \in 0 .. Len(Registry) |->
                            IF n = 0 THEN DependsOn[g] \cap Enforced
                            ELSE f[n - 1] \cup ((UNION {DependsOn[u] : u \in f[n - 1]}) \cap Enforced)]
           f == CHOOSE h : Rec(h)
           first == DependsOn[g] \cap Enforced
<1>1. N \in Nat /\ DependsOn \in [Gate -> SUBSET Gate] /\ Enforced \subseteq Gate /\ first \in SUBSET Enforced
  BY GateAssumption
<1>2. \A U \in SUBSET Enforced : Wider(U) \in SUBSET Enforced
  OBVIOUS
<1>3. \E h : Rec(h)
  <2> DEFINE step == [n \in 1 .. N |-> [U \in SUBSET Enforced |-> Wider(U)]]
  <2>1. step \in [1 .. N -> [SUBSET Enforced -> SUBSET Enforced]]
    BY <1>2
  <2>2. PICK h \in [0 .. N -> SUBSET Enforced] : Iterates(h, N, first, step)
    <3> HIDE DEF step, N, first
    <3> QED BY <1>1, <2>1, IterationExists
  <2>3. ASSUME NEW n \in 0 .. N, n # 0
        PROVE  step[n][h[n - 1]] = Wider(h[n - 1])
    <3>1. n \in 1 .. N /\ h[n - 1] \in SUBSET Enforced
      BY <1>1, <2>3
    <3> QED BY <3>1
  <2> HIDE DEF step, Wider
  <2>4. \A n \in 0 .. N : h[n] = IF n = 0 THEN first ELSE step[n][h[n - 1]]
    BY <2>2 DEF Iterates
  <2>5. h = [n \in 0 .. N |-> h[n]]
    BY <2>2
  <2>6. \A n \in 0 .. N : h[n] = IF n = 0 THEN first ELSE Wider(h[n - 1])
    BY <2>3, <2>4
  <2>7. h = [n \in 0 .. N |-> IF n = 0 THEN first ELSE Wider(h[n - 1])]
    BY <2>5, <2>6
  <2> QED BY <2>7 DEF Wider
<1>4. Rec(f)
  <2> HIDE DEF Rec
  <2> QED BY <1>3
<1>5. Upstream(g) = f[N]
  BY DEF Upstream
<1>6. f[0] = first /\ \A n \in 1 .. N : f[n] = Wider(f[n - 1])
  <2> HIDE DEF f
  <2>1. \A n \in 0 .. N : f[n] = IF n = 0 THEN first ELSE Wider(f[n - 1])
    BY <1>4
  <2> HIDE DEF Wider, first, Rec
  <2> QED BY <1>1, <2>1
<1> HIDE DEF f, first
<1> DEFINE S == {n \in Nat : n <= N =>
                   /\ f[n] \subseteq Enforced /\ first \subseteq f[n]
                   /\ \A D \in SUBSET Enforced :
                        first \subseteq D /\ (\A u \in D : DependsOn[u] \cap Enforced \subseteq D) => f[n] \subseteq D}
<1>7. 0 \in S
  BY <1>1, <1>6
<1>8. ASSUME NEW n \in Nat, n \in S PROVE n + 1 \in S
  <2> SUFFICES ASSUME n + 1 <= N
               PROVE  /\ f[n + 1] \subseteq Enforced /\ first \subseteq f[n + 1]
                      /\ \A D \in SUBSET Enforced :
                           first \subseteq D /\ (\A u \in D : DependsOn[u] \cap Enforced \subseteq D)
                             => f[n + 1] \subseteq D
    OBVIOUS
  <2>1. f[n + 1] = Wider(f[n]) /\ f[n] \in SUBSET Enforced /\ first \subseteq f[n]
    BY <1>1, <1>6, <1>8
  <2>2. ASSUME NEW D \in SUBSET Enforced, first \subseteq D, \A u \in D : DependsOn[u] \cap Enforced \subseteq D
        PROVE  f[n + 1] \subseteq D
    <3>1. f[n] \subseteq D
      BY <1>1, <1>8, <2>2
    <3> QED BY <2>1, <2>2, <3>1
  <2> QED BY <2>1, <2>2
<1>9. \A n \in 0 .. N : /\ f[n] \subseteq Enforced /\ first \subseteq f[n]
                        /\ \A D \in SUBSET Enforced :
                             first \subseteq D /\ (\A u \in D : DependsOn[u] \cap Enforced \subseteq D)
                               => f[n] \subseteq D
  <2>1. Nat \subseteq S
    <3> HIDE DEF S
    <3> QED BY <1>7, <1>8, Induction
  <2> QED BY <1>1, <2>1
<1> DEFINE stable == {n \in 0 .. N : Wider(f[n]) = f[n]}
<1>10. ASSUME NEW n \in 1 .. N
       PROVE  /\ n - 1 \in stable => n \in stable
              /\ n - 1 \notin stable => f[n - 1] \subseteq f[n] /\ f[n - 1] # f[n]
  <2>1. n - 1 \in 0 .. N /\ n \in 0 .. N /\ f[n] = Wider(f[n - 1])
    BY <1>1, <1>6
  <2> QED BY <2>1
<1>11. N \in stable
  <2>1. N \in stable \/ (0 \notin stable /\ Cardinality(f[N]) >= Cardinality(f[0]) + N)
    <3> HIDE DEF stable, N
    <3> QED BY <1>1, <1>9, <1>10, Rises
  <2>2. f[N] \subseteq Gate /\ f[0] \subseteq Gate
    BY <1>1, <1>9
  <2>3. IsFiniteSet(f[0]) /\ Cardinality(f[N]) \in Nat /\ Cardinality(f[0]) \in Nat /\ Cardinality(f[N]) <= Cardinality(Gate)
    BY <2>2, FewGates, FS_Subset, FS_CardinalityType
  <2>4. Cardinality(Gate) \in Nat /\ Cardinality(Gate) <= N
    BY <1>1, FewGates
  <2>5. ASSUME Cardinality(f[0]) = 0 PROVE 0 \in stable
    <3>1. f[0] = {}
      BY <2>3, <2>5, FS_EmptySet
    <3> QED BY <1>1, <3>1
  <2> HIDE DEF stable, N
  <2> QED BY <1>1, <2>1, <2>3, <2>4, <2>5
<1>12. f[N] \subseteq Enforced /\ first \subseteq f[N] /\ Wider(f[N]) = f[N]
  BY <1>1, <1>9, <1>11
<1>13. \A u \in f[N] : DependsOn[u] \cap Enforced \subseteq f[N]
  BY <1>12
<1>14. \A D \in SUBSET Enforced :
         first \subseteq D /\ (\A u \in D : DependsOn[u] \cap Enforced \subseteq D) => f[N] \subseteq D
  BY <1>1, <1>9
<1> QED BY <1>5, <1>12, <1>13, <1>14 DEF first

-----------------------------------------------------------------------------
(* A waiver is recorded as expiring, whoever records it.                    *)
WaiversExpire == \A g \in Gate : latest[g].verdict = "waived" => latest[g].expires

Earning ==
  /\ GateTypeOK /\ WaiversExpire
  /\ latest = [g \in Gate |-> latest[g]]

(* A gate's own state passes exactly while its decision stands.             *)
LEMMA OwnStanding ==
  ASSUME Earning, NEW g \in Gate
  PROVE  /\ OwnState(g) \in Passing <=> Stands(g)
         /\ OwnState(g) = "satisfied" <=> latest[g].verdict = "approved" /\ Stands(g)
<1>1. latest[g].verdict \in {"approved", "rejected", "changes_requested", "waived", "none"}
  BY GateAssumption DEF Earning, GateTypeOK
<1>2. latest[g].expires \in BOOLEAN
  BY DEF Earning, GateTypeOK
<1>3. latest[g].verdict = "waived" => latest[g].expires
  BY DEF Earning, WaiversExpire
<1> QED BY <1>1, <1>2, <1>3, Zenon DEF OwnState, Stands, Passing

(* What is currently blocking upstream of a gate is what does not stand on  *)
(* some path of enforced gates to it.                                       *)
LEMMA BlockingUpstream ==
  ASSUME Earning, NEW g \in Gate
  PROVE  DependsOn[g] \cap CurrentlyBlocking = {} <=> \A u \in Upstream(g) : Stands(u)
<1> DEFINE B == CurrentlyBlocking
           broken == {h \in Enforced : OwnState(h) \notin Passing}
           U == Upstream(g)
<1>1. DependsOn \in [Gate -> SUBSET Gate] /\ Enforced \in SUBSET Gate /\ broken \in SUBSET Gate
  BY GateAssumption
<1>2. B = Cascade(Registry, DependsOn, Enforced, broken)
  BY DEF CurrentlyBlocking
<1> HIDE DEF B
<1>3. /\ B \subseteq Gate /\ broken \subseteq B /\ Closed(DependsOn, Enforced, B)
      /\ \A C \in SUBSET Gate : broken \subseteq C /\ Closed(DependsOn, Enforced, C) => B \subseteq C
  <2> HIDE DEF broken
  <2> QED BY <1>1, <1>2, Cascaded
<1>4. /\ U \subseteq Enforced /\ DependsOn[g] \cap Enforced \subseteq U
      /\ \A u \in U : DependsOn[u] \cap Enforced \subseteq U
      /\ \A D \in SUBSET Enforced :
           DependsOn[g] \cap Enforced \subseteq D /\ (\A u \in D : DependsOn[u] \cap Enforced \subseteq D)
             => U \subseteq D
  BY UpstreamIs
<1> HIDE DEF U
<1>5. ASSUME \A u \in U : Stands(u) PROVE DependsOn[g] \cap B = {}
  <2>1. broken \subseteq Enforced \ U
    BY <1>1, <1>4, <1>5, OwnStanding
  <2>2. Closed(DependsOn, Enforced, Enforced \ U)
    BY <1>1, <1>4 DEF Closed
  <2>3. B \subseteq Enforced \ U
    BY <1>1, <1>3, <2>1, <2>2
  <2> QED BY <1>4, <2>3
<1>6. ASSUME DependsOn[g] \cap B = {}, NEW u \in U PROVE Stands(u)
  <2>1. \A v \in Enforced \ B : DependsOn[v] \cap Enforced \subseteq Enforced \ B
    BY <1>3 DEF Closed
  <2>2. U \subseteq Enforced \ B
    BY <1>4, <1>6, <2>1
  <2>3. u \in Gate /\ u \in Enforced /\ u \notin broken
    BY <1>1, <1>3, <2>2
  <2> QED BY <2>3, OwnStanding
<1> QED BY <1>5, <1>6 DEF B, U

LEMMA EarnedNow == Earning => AuthorityIsEarned
<1> SUFFICES ASSUME Earning, NEW g \in Gate, NEW a \in Grants[g], \A f \in Gate \ {g} : a \notin Grants[f]
             PROVE  Authorized(a) <=> /\ latest[g].verdict = "approved" /\ Stands(g)
                                      /\ \A u \in Upstream(g) : Stands(u)
  BY DEF AuthorityIsEarned
<1>1. Authorized(a) <=> State(g) = "satisfied" /\ latest[g].verdict = "approved"
  BY DEF Authorized
<1>2. State(g) = "satisfied" <=> DependsOn[g] \cap CurrentlyBlocking = {} /\ OwnState(g) = "satisfied"
  BY DEF State, StateBehind
<1> QED BY <1>1, <1>2, OwnStanding, BlockingUpstream

LEMMA WaiversStep == Typed /\ WaiversExpire /\ [Next]_vars => WaiversExpire'
<1> SUFFICES ASSUME Typed, WaiversExpire, [Next]_vars PROVE WaiversExpire'
  OBVIOUS
<1>1. latest = [g \in Gate |-> latest[g]]
  BY DEF Typed
<1>2. ASSUME NEW k \in Key, Edit(k) PROVE WaiversExpire'
  BY <1>2 DEF Edit, WaiversExpire
<1>3. ASSUME NEW g \in Gate, NEW kind, NEW verdict, NEW expires, Decide(g, kind, verdict, expires)
      PROVE  WaiversExpire'
  <2> DEFINE d == [verdict |-> verdict, subjects |-> SubjectHashes(g, content), expires |-> expires]
  <2>1. latest' = [latest EXCEPT ![g] = d] /\ (d.verdict = "waived" => d.expires)
    BY <1>3 DEF Decide
  <2> HIDE DEF d
  <2> QED BY <1>1, <2>1 DEF WaiversExpire
<1>4. CASE UNCHANGED latest
  BY <1>4 DEF WaiversExpire
<1>5. GateNext \/ UNCHANGED latest
  <2>1. ASSUME NEW s \in Session, Execute(s) PROVE UNCHANGED latest
    BY <2>1 DEF Execute, Start, NotQueried, LookupAbsent, LookupExists, LookupUnanswered, Repair, List,
       PassOver, RefuseUnconfirmed, RefuseUnauthorized, Permit, Perform, Record, NextLookup, gates
  <2> QED BY <2>1 DEF Next, Die, Land, vars, gates
<1> QED BY <1>2, <1>3, <1>4, <1>5 DEF GateNext

(* An authority is held exactly from a gate that was approved for what its  *)
(* subjects are now, with every enforced gate upstream of it approved or    *)
(* waived for what is there now: for any registry, dependencies and content *)
(* the cascade of the code computes the transitive closure.                 *)
THEOREM AuthorityEarned == Spec => []AuthorityIsEarned
<1>1. Init => WaiversExpire
  BY DEF Init, GateInit, WaiversExpire, NoDecision
<1>2. Typed /\ WaiversExpire => AuthorityIsEarned
  BY EarnedNow DEF Earning, Typed, TypeOK
<1> QED BY <1>1, <1>2, EffectInit, EffectStep, WaiversStep, PTL DEF Spec
=============================================================================
