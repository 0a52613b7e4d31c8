------------------------ MODULE SpendService_proofs ------------------------
(***************************************************************************)
(* The spend service for any number of processes, effects and reservations, *)
(* the paid calls of a stage, and the two together.  A behaviour of the      *)
(* service is followed along what a process at each label holds, what the    *)
(* transitions of a reservation look like, what a process whose revision is  *)
(* current knows of the stream, which process dispatches under a reservation *)
(* and what its grant has authorized; one of a stage, along what a call at   *)
(* each place has behind it (CallInv), what the reservation of a call that   *)
(* reached its provider says (BillingInv), and what an attempt knows of its  *)
(* calls (AttemptInv).                                                       *)
(***************************************************************************)
EXTENDS MCSpendService, FiniteSetTheorems, TLAPS

(* The transitions p may be about to append.  None is "reserved": that one  *)
(* is committed with the terms.                                             *)
Goals == {"dispatch_prepared", "dispatch_identified", "billing_unknown"} \cup Terminal

Appending(p) == pc[p] \in {"append", "cas"}

(* p has what the provider reported and has yet to record it.               *)
HasBill(p) ==
  pc[p] \in {"record", "add"} \/ (Appending(p) /\ goal[p] = "dispatch_identified")

(* What a process at each label holds.                                      *)
Controlled(p) ==
  /\ pc[p] \in {"list", "commit"} => request[p] \in Request
  /\ pc[p] \in {"append", "cas", "call", "record", "add"} =>
       held[p] \in Res /\ history[held[p]] # <<>>
  /\ Appending(p) => goal[p] \in Goals
  /\ HasBill(p) => bill[p].status \in DOMAIN SettlesAs

ControlInv == \A p \in Proc : Controlled(p)

(* A reservation has terms once it has a history; no kind of transition     *)
(* occurs twice in it, "reserved" is the first, a terminal one the last.    *)
WellFormed(h) ==
  /\ \A i, j \in 1 .. Len(h) : h[i].kind = h[j].kind => i = j
  /\ \A i \in 1 .. Len(h) : h[i].kind = "reserved" <=> i = 1
  /\ \A i \in 1 .. Len(h) : h[i].kind \in Terminal => i = Len(h)

StreamInv ==
  \A r \in Res : WellFormed(history[r]) /\ (history[r] = <<>> <=> terms[r] = NoTerms)

(* What a process knows as long as the revision it read is the current one. *)
RevisionInv ==
  \A p \in Proc : rev[p] = revision =>
    /\ pc[p] \in {"list", "commit"} => \A r \in Res : terms[r].effect # request[p].effect
    /\ pc[p] = "commit" =>
         \A r \in Res : Status(history[r]) = "billing_unknown" => Bounded(r)
    /\ pc[p] = "cas" => IsLegalSuccessor(LastKind(history[held[p]]), goal[p])

(* Two processes never read one instant. *)
InstantsDiffer == \A p, q \in Proc : Instant[p] = Instant[q] => p = q

(* One announcement, one call; who is about to announce has not done so.    *)
OnceInv ==
  /\ \A r \in Res : calls[r] <= 1 /\ (calls[r] = 1 => Has(history[r], "dispatch_prepared"))
  /\ \A p \in Proc : pc[p] = "cas" /\ goal[p] = "dispatch_prepared" => ~AlreadyPresent(p)

(* p has announced a dispatch and not yet ended it. *)
Dispatching(p) ==
  \/ pc[p] \in {"call", "record", "add"}
  \/ Appending(p) /\ goal[p] \in {"dispatch_identified"} \cup Terminal

Over(h) == \E i \in 1 .. Len(h) : h[i].kind \in Terminal

(* One process at a time dispatches under a reservation, and none ends a    *)
(* reservation under the call of another.                                   *)
DispatchInv ==
  /\ \A p \in Proc : Dispatching(p) => Has(history[held[p]], "dispatch_prepared")
  /\ \A p, q \in Proc : Dispatching(p) /\ Dispatching(q) /\ held[p] = held[q] => p = q
  /\ \A p \in Proc : Dispatching(p) => ~Over(history[held[p]])

(* What has been charged under a reservation is what its dispatch found,    *)
(* and what its last transition will say.                                   *)
ChargeInv ==
  /\ \A r \in Res :
       /\ spent[r] <= 1
       /\ spent[r] = 1 => Has(history[r], "dispatch_prepared") /\ ~Has(history[r], "released")
       /\ Has(history[r], "settled") => costs[r] # <<>>
  /\ \A p \in Proc :
       /\ pc[p] = "call" => spent[held[p]] = 0
       /\ HasBill(p) /\ bill[p].status = "free" => spent[held[p]] = 0
       /\ Appending(p) /\ goal[p] = "released" => spent[held[p]] = 0
       /\ Appending(p) /\ goal[p] = "settled" => costs[held[p]] # <<>>

-----------------------------------------------------------------------------
LEMMA Requests ==
  /\ \A e \in Effect : \A a \in Amount[e] : [effect |-> e, amount |-> a] \in Request
  /\ \A x \in Request : x # NoTerms /\ x.effect \in Effect
BY MoneyAssumption DEF Request, NoTerms

LEMMA NotEmpty ==
  /\ \A t : <<t>> # <<>>
  /\ \A h \in Seq(Transition), t \in Transition : Append(h, t) # <<>>
<1>1. ASSUME NEW t PROVE <<t>> # <<>>
  <2>1. Len(<<t>>) = 1 /\ Len(<<>>) = 0
    OBVIOUS
  <2> QED BY <2>1
<1>2. ASSUME NEW h \in Seq(Transition), NEW t \in Transition PROVE Append(h, t) # <<>>
  <2>1. Len(Append(h, t)) = Len(h) + 1 /\ Len(h) \in Nat /\ Len(<<>>) = 0
    OBVIOUS
  <2> QED BY <2>1
<1> QED BY <1>1, <1>2

LEMMA LastIsFinal ==
  ASSUME NEW h \in Seq(Transition), WellFormed(h), Over(h)
  PROVE  h # <<>> /\ LastKind(h) \in Terminal /\ Status(h) = LastKind(h)
<1> DEFINE statuses == {i \in 1 .. Len(h) : h[i].kind \in Terminal \cup {"billing_unknown"}}
<1>1. PICK i \in 1 .. Len(h) : h[i].kind \in Terminal
  BY DEF Over
<1>2. Len(h) \in Nat /\ i = Len(h) /\ h # <<>>
  BY <1>1 DEF WellFormed
<1>3. Len(h) \in statuses /\ \A j \in statuses : j <= Len(h)
  BY <1>1, <1>2
<1>4. (CHOOSE k \in statuses : \A j \in statuses : j <= k) = Len(h)
  <2> DEFINE top == CHOOSE k \in statuses : \A j \in statuses : j <= k
  <2>1. top \in statuses /\ \A j \in statuses : j <= top
    BY <1>3
  <2> HIDE DEF top
  <2>2. top = Len(h)
    BY <1>2, <1>3, <2>1
  <2> QED BY <2>2 DEF top
<1>5. statuses # {}
  BY <1>3
<1>6. Status(h) = h[Len(h)].kind
  BY <1>2, <1>4, <1>5 DEF Status
<1> QED BY <1>1, <1>2, <1>6 DEF LastKind

(* Without a terminal transition at most one decides, and it keeps the      *)
(* reservation active.                                                      *)
LEMMA NotOverIsActive ==
  ASSUME NEW h \in Seq(Transition), WellFormed(h), h # <<>>, ~Over(h)
  PROVE  Active(h)
<1> DEFINE statuses == {i \in 1 .. Len(h) : h[i].kind \in Terminal \cup {"billing_unknown"}}
<1>1. CASE statuses = {}
  BY <1>1 DEF Status, Active
<1>2. CASE statuses # {}
  <2>1. PICK i \in statuses : TRUE
    BY <1>2
  <2>2. \A j \in statuses : h[j].kind = "billing_unknown" /\ j = i
    BY <2>1 DEF Over, WellFormed
  <2>3. i <= i
    BY <2>1
  <2>4. (CHOOSE k \in statuses : \A j \in statuses : j <= k) = i
    BY <2>1, <2>2, <2>3
  <2>5. Status(h) = "billing_unknown"
    BY <1>2, <2>1, <2>2, <2>4 DEF Status
  <2> QED BY <2>5 DEF Active
<1> QED BY <1>1, <1>2

LEMMA Extension ==
  ASSUME NEW h \in Seq(Transition), WellFormed(h), h # <<>>,
         NEW t \in Transition, t.kind \in Goals,
         \A i \in 1 .. Len(h) : h[i].kind # t.kind,
         IsLegalSuccessor(LastKind(h), t.kind)
  PROVE  WellFormed(Append(h, t)) /\ ~Over(h)
<1> DEFINE a == Append(h, t)
<1>1. Len(h) \in Nat \ {0} /\ Len(a) = Len(h) + 1
  OBVIOUS
<1>2. \A i \in 1 .. Len(h) : a[i] = h[i]
  OBVIOUS
<1>3. a[Len(h) + 1] = t
  OBVIOUS
<1>4. h[Len(h)].kind \notin Terminal
  BY DEF IsLegalSuccessor, LastKind, AllowedAfter, Terminal
<1>5. \A i \in 1 .. Len(h) : h[i].kind \notin Terminal
  BY <1>4 DEF WellFormed
<1>6. \A i, j \in 1 .. Len(a) : a[i].kind = a[j].kind => i = j
  BY <1>1, <1>2, <1>3 DEF WellFormed
<1>7. \A i \in 1 .. Len(a) : a[i].kind = "reserved" <=> i = 1
  BY <1>1, <1>2, <1>3 DEF WellFormed, Goals, Terminal
<1>8. \A i \in 1 .. Len(a) : a[i].kind \in Terminal => i = Len(a)
  BY <1>1, <1>2, <1>3, <1>5
<1> QED BY <1>5, <1>6, <1>7, <1>8 DEF WellFormed, Over

(* The steps of one process, in three groups: those that may append to the  *)
(* stream, those of the provider, and the others.                           *)
Reads(p) ==
  \/ \E e \in Effect : \E a \in Amount[e] : ReserveKnown(p, e, a) \/ ReserveNew(p, e, a)
  \/ ListCosts(p) \/ CommitConflict(p)
  \/ \E r \in Res : Abandon(p, r)
  \/ AppendRead(p) \/ AppendClash(p) \/ AppendConflict(p)
  \/ RecordCheck(p) \/ RecordAdd(p) \/ RecordFails(p)

Returns(p) ==
  \/ \E status \in {"charged", "free", "unknown"}, c \in Charge \cup {0} : ReturnBilled(p, status, c)
  \/ ReturnUnresolved(p) \/ ReturnUndispatched(p)
  \/ Crash(p)

Appends(p) ==
  \/ \E r \in Res : Commit(p, r)
  \/ AppendPresent(p) \/ AppendCommit(p)

LEMMA Steps ==
  ASSUME [Next]_vars
  PROVE  (\E p \in Proc : Reads(p) \/ Returns(p) \/ Appends(p)) \/ UNCHANGED vars
BY Zenon DEF Next, Reads, Returns, Appends

-----------------------------------------------------------------------------
(* The variables keep their types.                                          *)
LEMMA FinishType ==
  ASSUME CallType, revision \in Nat, revision' \in Nat, revision' >= revision,
         NEW p \in Proc, Finish(p)
  PROVE  CallType'
<1>1. NoTerms \in Request \cup {NoTerms}
  OBVIOUS
<1>2. NoBill \in [status : DOMAIN SettlesAs \cup {"none"}, draw : Charge \cup {0}]
  BY DEF NoBill
<1>3. /\ pc' \in [Proc -> {"idle", "list", "commit", "append", "cas", "call", "record", "add"}]
      /\ request' \in [Proc -> Request \cup {NoTerms}]
  BY <1>1 DEF CallType, Finish, Goto
<1>4. held' \in [Proc -> Res \cup {NoRes}] /\ goal' \in [Proc -> Kind \cup {"none"}]
  BY DEF CallType, Finish
<1>5. rev' \in [Proc -> Nat] /\ \A q \in Proc : rev'[q] <= revision'
  BY DEF CallType, Finish
<1>6. bill' \in [Proc -> [status : DOMAIN SettlesAs \cup {"none"}, draw : Charge \cup {0}]]
  BY <1>2 DEF CallType, Finish
<1> QED BY <1>3, <1>4, <1>5, <1>6 DEF CallType

LEMMA Append1Type ==
  ASSUME CallType, NEW p \in Proc, NEW r \in Res, NEW kind \in Kind, Append1(p, r, kind)
  PROVE  /\ pc' \in [Proc -> {"idle", "list", "commit", "append", "cas", "call", "record", "add"}]
         /\ held' \in [Proc -> Res \cup {NoRes}]
         /\ goal' \in [Proc -> Kind \cup {"none"}]
BY DEF CallType, Append1, Goto

LEMMA GrantedAppends ==
  ASSUME NEW p \in Proc, NEW r \in Res, Granted(p, r)
  PROVE  \E kind \in Kind : Append1(p, r, kind)
BY DEF Granted, Kind, Terminal

LEMMA TypeStep == TypeOK /\ ControlInv /\ [Next]_vars => TypeOK'
<1> SUFFICES ASSUME StreamType, CallType, ControlInv, [Next]_vars PROVE TypeOK'
  BY DEF TypeOK
<1>0. {"dispatch_prepared", "dispatch_identified", "billing_unknown", "settled", "released"} \subseteq Kind
  BY DEF Kind, Terminal
<1>1. CASE UNCHANGED vars
  BY <1>1 DEF vars, stream, call, provider, StreamType, CallType, TypeOK
<1>2. ASSUME NEW p \in Proc, Reads(p) PROVE TypeOK'
  <2> USE DEF stream, provider
  <2>1. ASSUME NEW e \in Effect, NEW a \in Amount[e], ReserveKnown(p, e, a) PROVE TypeOK'
    <3>1. CallType'
      BY <2>1, GrantedAppends, Append1Type DEF ReserveKnown, CallType
    <3> QED BY <2>1, <3>1 DEF ReserveKnown, StreamType, TypeOK
  <2>2. ASSUME NEW e \in Effect, NEW a \in Amount[e], ReserveNew(p, e, a) PROVE TypeOK'
    <3>1. CallType'
      BY <2>2, Requests DEF ReserveNew, CallType, StreamType, Goto
    <3> QED BY <2>2, <3>1 DEF ReserveNew, StreamType, TypeOK
  <2>3. CASE ListCosts(p)
    <3>1. CASE Finish(p)
      BY <2>3, <3>1, FinishType DEF ListCosts, StreamType, TypeOK
    <3>2. CASE Goto(p, "commit") /\ UNCHANGED <<request, held, rev, goal, bill>>
      BY <2>3, <3>2 DEF ListCosts, StreamType, CallType, TypeOK, Goto
    <3> QED BY <2>3, <3>1, <3>2 DEF ListCosts
  <2>4. CASE CommitConflict(p)
    BY <2>4, FinishType DEF CommitConflict, StreamType, TypeOK
  <2>5. ASSUME NEW r \in Res, Abandon(p, r) PROVE TypeOK'
    <3>1. CallType'
      BY <2>5, <1>0, Append1Type DEF Abandon, CallType
    <3> QED BY <2>5, <3>1 DEF Abandon, StreamType, TypeOK
  <2>6. CASE AppendRead(p)
    <3>1. CASE Finish(p)
      BY <2>6, <3>1, FinishType DEF AppendRead, StreamType, TypeOK
    <3>2. CASE Goto(p, "cas") /\ rev' = [rev EXCEPT ![p] = revision] /\ UNCHANGED <<request, held, goal, bill>>
      BY <2>6, <3>2 DEF AppendRead, StreamType, CallType, TypeOK, Goto
    <3> QED BY <2>6, <3>1, <3>2 DEF AppendRead
  <2>7. CASE AppendClash(p)
    BY <2>7, FinishType DEF AppendClash, StreamType, TypeOK
  <2>8. CASE AppendConflict(p)
    <3>1. CASE Finish(p)
      BY <2>8, <3>1, FinishType DEF AppendConflict, StreamType, TypeOK
    <3>2. CASE Append1(p, held[p], goal[p]) /\ rev' = [rev EXCEPT ![p] = 0] /\ UNCHANGED <<request, bill>>
      <4>1. CallType'
        BY <2>8, <3>2 DEF AppendConflict, StreamType, CallType, Append1, Goto
      <4> QED BY <2>8, <4>1 DEF AppendConflict, StreamType, TypeOK
    <3> QED BY <2>8, <3>1, <3>2 DEF AppendConflict
  <2>9. ASSUME NEW kind \in Kind, Settle(p, kind), held[p] \in Res, UNCHANGED <<request, rev, revision>>
        PROVE  CallType'
    <3>1. NoBill \in [status : DOMAIN SettlesAs \cup {"none"}, draw : Charge \cup {0}]
      BY DEF NoBill
    <3> QED BY <2>9, <3>1, Append1Type DEF Settle, CallType
  <2>10. \A s \in DOMAIN SettlesAs : SettlesAs[s] \in Kind
    BY <1>0 DEF SettlesAs
  <2>11. CASE RecordCheck(p)
    <3>1. held[p] \in Res /\ bill[p].status \in DOMAIN SettlesAs
      BY <2>11 DEF RecordCheck, ControlInv, Controlled, HasBill
    <3>2. CASE costs[held[p]] # <<>>
      BY <2>9, <2>10, <2>11, <3>1, <3>2 DEF RecordCheck, StreamType, TypeOK
    <3>3. CASE costs[held[p]] = <<>>
      BY <2>11, <3>3 DEF RecordCheck, StreamType, CallType, TypeOK, Goto
    <3> QED BY <3>2, <3>3
  <2>12. CASE RecordAdd(p)
    <3>1. held[p] \in Res /\ bill[p].status \in DOMAIN SettlesAs
      BY <2>12 DEF RecordAdd, ControlInv, Controlled, HasBill
    <3>2. CallType'
      BY <2>9, <2>10, <2>12, <3>1 DEF RecordAdd
    <3>3. bill[p] \in Observation
      BY <3>1 DEF CallType, Observation
    <3>4. costs \in [Res -> Seq(Observation)] /\ Append(costs[held[p]], bill[p]) \in Seq(Observation)
      BY <3>1, <3>3 DEF StreamType
    <3>5. costs' = [costs EXCEPT ![held[p]] = Append(costs[held[p]], bill[p])]
      BY <2>12 DEF RecordAdd
    <3>6. costs' \in [Res -> Seq(Observation)]
      BY <3>1, <3>4, <3>5
    <3> QED BY <2>12, <3>2, <3>6 DEF RecordAdd, StreamType, TypeOK
  <2>13. CASE RecordFails(p)
    <3>1. held[p] \in Res
      BY <2>13 DEF RecordFails, ControlInv, Controlled
    <3> QED BY <1>0, <2>9, <2>13, <3>1 DEF RecordFails, StreamType, TypeOK
  <2> QED
    BY <1>2, <2>1, <2>2, <2>3, <2>4, <2>5, <2>6, <2>7, <2>8, <2>11, <2>12, <2>13 DEF Reads
<1>3. ASSUME NEW p \in Proc, Returns(p) PROVE TypeOK'
  <2> USE DEF stream, provider
  <2>1. ASSUME NEW r \in Res, Charged(r) \/ MayHaveCharged(r) \/ UNCHANGED spent
        PROVE  spent' \in [Res -> Nat]
    <3>1. spent \in [Res -> Nat] /\ spent[r] + 1 \in Nat
      BY DEF StreamType
    <3>2. spent' = [spent EXCEPT ![r] = spent[r] + 1] \/ spent' = spent
      BY <2>1 DEF Charged, MayHaveCharged
    <3> QED BY <3>1, <3>2
  <2>2. pc[p] = "call" => held[p] \in Res
    BY DEF ControlInv, Controlled
  <2>3. ASSUME NEW status \in {"charged", "free", "unknown"}, NEW c \in Charge \cup {0},
               ReturnBilled(p, status, c)
        PROVE  TypeOK'
    <3>1. [status |-> status, draw |-> c] \in [status : DOMAIN SettlesAs \cup {"none"}, draw : Charge \cup {0}]
      BY DEF SettlesAs
    <3>2. bill' \in [Proc -> [status : DOMAIN SettlesAs \cup {"none"}, draw : Charge \cup {0}]]
      BY <2>3, <3>1 DEF ReturnBilled, CallType
    <3>3. spent' \in [Res -> Nat]
      BY <2>1, <2>2, <2>3 DEF ReturnBilled
    <3>4. /\ pc' \in [Proc -> {"idle", "list", "commit", "append", "cas", "call", "record", "add"}]
          /\ held' \in [Proc -> Res \cup {NoRes}]
          /\ goal' \in [Proc -> Kind \cup {"none"}]
      <4>1. CASE Append1(p, held[p], "dispatch_identified")
        BY <1>0, <2>2, <2>3, <4>1, Append1Type DEF ReturnBilled
      <4>2. CASE Goto(p, "record") /\ UNCHANGED <<held, goal>>
        BY <4>2 DEF CallType, Goto
      <4> QED BY <2>3, <4>1, <4>2 DEF ReturnBilled
    <3> QED BY <2>3, <3>2, <3>3, <3>4 DEF ReturnBilled, StreamType, CallType, TypeOK
  <2>4. CASE ReturnUnresolved(p)
    <3>1. spent' \in [Res -> Nat] /\ CallType'
      BY <1>0, <2>1, <2>2, <2>4, Append1Type DEF ReturnUnresolved, CallType
    <3> QED BY <2>4, <3>1 DEF ReturnUnresolved, StreamType, TypeOK
  <2>5. CASE ReturnUndispatched(p)
    <3>1. CallType'
      BY <1>0, <2>2, <2>5, Append1Type DEF ReturnUndispatched, CallType
    <3> QED BY <2>5, <3>1 DEF ReturnUndispatched, StreamType, TypeOK
  <2>6. CASE Crash(p)
    <3>1. spent' \in [Res -> Nat]
      BY <2>1, <2>2, <2>6 DEF Crash, StreamType
    <3>2. CallType'
      BY <2>6, FinishType DEF Crash, StreamType
    <3> QED BY <2>6, <3>1, <3>2 DEF Crash, StreamType, TypeOK
  <2> QED BY <1>3, <2>3, <2>4, <2>5, <2>6 DEF Returns
<1>4. ASSUME NEW p \in Proc, Appends(p) PROVE TypeOK'
  <2> USE DEF stream, provider
  <2>1. ASSUME NEW r \in Res, Commit(p, r) PROVE TypeOK'
    <3>1. [kind |-> "reserved", at |-> Instant[p]] \in Transition
      BY DEF Transition, Kind
    <3>2. history' \in [Res -> Seq(Transition)]
      BY <2>1, <3>1 DEF Commit, StreamType
    <3>3. StreamType'
      BY <2>1, <3>2 DEF Commit, StreamType, CallType
    <3>4. request' \in [Proc -> Request \cup {NoTerms}]
      BY <2>1 DEF Commit, CallType
    <3>5. rev' \in [Proc -> Nat] /\ \A q \in Proc : rev'[q] <= revision'
      BY <2>1 DEF Commit, StreamType, CallType
    <3>6. CallType'
      BY <2>1, <3>4, <3>5, GrantedAppends, Append1Type DEF Commit, CallType
    <3> QED BY <3>3, <3>6 DEF TypeOK
  <2>2. ASSUME Appended(p), pc[p] = "cas", revision' \in Nat, revision' >= revision
        PROVE  CallType' /\ calls' \in [Res -> Nat] /\ spent' \in [Res -> Nat]
    <3>1. CASE goal[p] = "dispatch_prepared"
      <4>1. Proceed(p, "call") /\ calls' = [calls EXCEPT ![held[p]] = @ + 1] /\ UNCHANGED spent
        BY <2>2, <3>1 DEF Appended
      <4>2. CallType'
        BY <2>2, <4>1 DEF Proceed, Goto, StreamType, CallType
      <4>3. held[p] \in Res /\ calls \in [Res -> Nat] /\ calls[held[p]] + 1 \in Nat
        BY <2>2 DEF ControlInv, Controlled, StreamType
      <4>4. calls' \in [Res -> Nat] /\ spent' \in [Res -> Nat]
        BY <4>1, <4>3 DEF StreamType
      <4> QED BY <4>2, <4>4
    <3>2. CASE goal[p] = "dispatch_identified"
      <4>1. Proceed(p, "record") /\ UNCHANGED provider
        BY <2>2, <3>2 DEF Appended
      <4> QED BY <2>2, <4>1 DEF Proceed, Goto, StreamType, CallType
    <3>3. CASE goal[p] \notin {"dispatch_prepared", "dispatch_identified"}
      <4>1. Finish(p) /\ UNCHANGED provider
        BY <2>2, <3>3 DEF Appended
      <4> QED BY <2>2, <4>1, FinishType DEF StreamType
    <3> QED BY <3>1, <3>2, <3>3
  <2>3. CASE AppendPresent(p)
    BY <2>3, <2>2 DEF AppendPresent, StreamType, TypeOK
  <2>4. CASE AppendCommit(p)
    <3>1. Proposed(p) \in Transition /\ held[p] \in Res
      BY <1>0, <2>4 DEF AppendCommit, Proposed, Transition, ControlInv, Controlled, Appending, Goals, Terminal
    <3>2. history' \in [Res -> Seq(Transition)]
      BY <2>4, <3>1 DEF AppendCommit, StreamType
    <3> QED BY <2>2, <2>4, <3>2 DEF AppendCommit, StreamType, TypeOK
  <2> QED BY <1>4, <2>1, <2>3, <2>4 DEF Appends
<1> QED BY <1>1, <1>2, <1>3, <1>4, Steps

-----------------------------------------------------------------------------
(* A step of one process leaves what the others hold alone.                 *)
Untouched(q) ==
  /\ pc'[q] = pc[q] /\ request'[q] = request[q] /\ held'[q] = held[q]
  /\ rev'[q] = rev[q] /\ goal'[q] = goal[q] /\ bill'[q] = bill[q]

LEMMA OneAtATime ==
  ASSUME CallType, NEW p \in Proc, NEW q \in Proc \ {p}, Reads(p) \/ Returns(p) \/ Appends(p)
  PROVE  Untouched(q)
<1> USE DEF CallType, Untouched, Finish, Append1, Goto
<1>1. CASE Reads(p)
  <2>1. ASSUME NEW e \in Effect, NEW a \in Amount[e], ReserveKnown(p, e, a) PROVE Untouched(q)
    BY <2>1, GrantedAppends DEF ReserveKnown
  <2>2. ASSUME NEW e \in Effect, NEW a \in Amount[e], ReserveNew(p, e, a) PROVE Untouched(q)
    BY <2>2 DEF ReserveNew
  <2>3. CASE ListCosts(p)
    BY <2>3 DEF ListCosts
  <2>4. CASE CommitConflict(p)
    BY <2>4 DEF CommitConflict
  <2>5. ASSUME NEW r \in Res, Abandon(p, r) PROVE Untouched(q)
    BY <2>5 DEF Abandon
  <2>6. CASE AppendRead(p)
    BY <2>6 DEF AppendRead
  <2>7. CASE AppendClash(p)
    BY <2>7 DEF AppendClash
  <2>8. CASE AppendConflict(p)
    BY <2>8 DEF AppendConflict
  <2>9. CASE RecordCheck(p)
    BY <2>9 DEF RecordCheck, Settle
  <2>10. CASE RecordAdd(p)
    BY <2>10 DEF RecordAdd, Settle
  <2>11. CASE RecordFails(p)
    BY <2>11 DEF RecordFails, Settle
  <2> QED BY <1>1, <2>1, <2>2, <2>3, <2>4, <2>5, <2>6, <2>7, <2>8, <2>9, <2>10, <2>11 DEF Reads
<1>2. CASE Returns(p)
  <2>1. ASSUME NEW status \in {"charged", "free", "unknown"}, NEW c \in Charge \cup {0},
               ReturnBilled(p, status, c)
        PROVE  Untouched(q)
    BY <2>1 DEF ReturnBilled
  <2>2. CASE ReturnUnresolved(p)
    BY <2>2 DEF ReturnUnresolved
  <2>3. CASE ReturnUndispatched(p)
    BY <2>3 DEF ReturnUndispatched
  <2>4. CASE Crash(p)
    BY <2>4 DEF Crash
  <2> QED BY <1>2, <2>1, <2>2, <2>3, <2>4 DEF Returns
<1>3. CASE Appends(p)
  <2>1. ASSUME NEW r \in Res, Commit(p, r) PROVE Untouched(q)
    BY <2>1, GrantedAppends DEF Commit
  <2>2. ASSUME Appended(p) PROVE Untouched(q)
    BY <2>2 DEF Appended, Proceed
  <2>3. CASE AppendPresent(p) \/ AppendCommit(p)
    BY <2>2, <2>3 DEF AppendPresent, AppendCommit
  <2> QED BY <1>3, <2>1, <2>3 DEF Appends
<1> QED BY <1>1, <1>2, <1>3

(* Only a commit changes the stream.                                        *)
LEMMA StreamStep ==
  ASSUME NEW p \in Proc, Reads(p) \/ Returns(p) \/ Appends(p)
  PROVE  \/ UNCHANGED stream
         \/ \E r \in Res : Commit(p, r)
         \/ AppendCommit(p)
BY DEF Reads, Returns, Appends, ReserveKnown, ReserveNew, ListCosts, CommitConflict, Abandon,
       AppendRead, AppendClash, AppendConflict, RecordCheck, RecordAdd, RecordFails,
       ReturnBilled, ReturnUnresolved, ReturnUndispatched, Crash, AppendPresent

LEMMA Reserved ==
  ASSUME StreamType, NEW p \in Proc, NEW r \in Res, Commit(p, r)
  PROVE  /\ history' = [history EXCEPT ![r] = <<[kind |-> "reserved", at |-> Instant[p]]>>]
         /\ history[r] = <<>> /\ history'[r] = <<[kind |-> "reserved", at |-> Instant[p]]>>
         /\ \A s \in Res \ {r} : history'[s] = history[s] /\ terms'[s] = terms[s]
         /\ terms'[r] = request[p] /\ revision' = revision + 1 /\ rev[p] = revision
BY DEF StreamType, Commit, Unused

LEMMA Committed ==
  ASSUME StreamType, ControlInv, NEW p \in Proc, AppendCommit(p)
  PROVE  /\ held[p] \in Res /\ history[held[p]] # <<>> /\ goal[p] \in Goals
         /\ history'[held[p]] = Append(history[held[p]], Proposed(p))
         /\ \A s \in Res \ {held[p]} : history'[s] = history[s]
         /\ terms' = terms /\ revision' = revision + 1 /\ rev[p] = revision
         /\ \A i \in 1 .. Len(history[held[p]]) : history[held[p]][i].kind # goal[p]
         /\ Proposed(p) \in Transition /\ Proposed(p).kind = goal[p]
<1>1. pc[p] = "cas" /\ held[p] \in Res /\ history[held[p]] # <<>> /\ goal[p] \in Goals
  BY DEF AppendCommit, ControlInv, Controlled, Appending
<1>2. Proposed(p) \in Transition /\ Proposed(p).kind = goal[p]
  BY <1>1 DEF Proposed, Transition, Goals, Kind, Terminal
<1>3. history'[held[p]] = Append(history[held[p]], Proposed(p))
  BY <1>1 DEF AppendCommit, StreamType
<1>4. \A s \in Res \ {held[p]} : history'[s] = history[s]
  BY DEF AppendCommit, StreamType
<1>5. \A i \in 1 .. Len(history[held[p]]) : history[held[p]][i].kind # goal[p]
  BY DEF AppendCommit, SameIdentity
<1> QED BY <1>1, <1>2, <1>3, <1>4, <1>5 DEF AppendCommit

LEMMA HistoriesEndure ==
  ASSUME StreamType, ControlInv, NEW p \in Proc, Reads(p) \/ Returns(p) \/ Appends(p),
         NEW r \in Res, history[r] # <<>>
  PROVE  history'[r] # <<>>
<1>1. CASE UNCHANGED stream
  BY <1>1 DEF stream
<1>2. ASSUME NEW s \in Res, Commit(p, s) PROVE history'[r] # <<>>
  BY <1>2, Reserved
<1>3. CASE AppendCommit(p)
  <2>1. history[held[p]] \in Seq(Transition) /\ Append(history[held[p]], Proposed(p)) # <<>>
    BY <1>3, Committed, NotEmpty DEF StreamType
  <2> QED BY <1>3, <2>1, Committed
<1> QED BY <1>1, <1>2, <1>3, StreamStep

-----------------------------------------------------------------------------
LEMMA ControlStep == TypeOK /\ ControlInv /\ StreamInv /\ [Next]_vars => ControlInv'
<1> SUFFICES ASSUME StreamType, CallType, ControlInv, StreamInv, [Next]_vars PROVE ControlInv'
  BY DEF TypeOK
<1>1. CASE UNCHANGED vars
  BY <1>1 DEF vars, stream, call, provider, ControlInv, Controlled, Appending, HasBill
<1>2. ASSUME NEW p \in Proc, Reads(p) \/ Returns(p) \/ Appends(p), NEW q \in Proc \ {p}
      PROVE  Controlled(q)'
  <2>1. Untouched(q) /\ Controlled(q)
    BY <1>2, OneAtATime DEF ControlInv
  <2>2. held[q] \in Res /\ history[held[q]] # <<>> => history'[held[q]] # <<>>
    BY <1>2, HistoriesEndure
  <2> QED BY <2>1, <2>2 DEF Untouched, Controlled, Appending, HasBill
<1>3. ASSUME NEW p \in Proc, NEW r \in Res, NEW kind \in Goals,
             Append1(p, r, kind), history'[r] # <<>>,
             kind = "dispatch_identified" => bill'[p].status \in DOMAIN SettlesAs
      PROVE  Controlled(p)'
  <2>1. pc'[p] = "append" /\ held'[p] = r /\ goal'[p] = kind
    BY <1>3 DEF CallType, Append1, Goto
  <2> QED BY <1>3, <2>1 DEF Controlled, Appending, HasBill
<1>4. ASSUME NEW p \in Proc, pc'[p] = "idle" PROVE Controlled(p)'
  BY <1>4 DEF Controlled, Appending, HasBill
<1>5. ASSUME NEW p \in Proc, Finish(p) PROVE Controlled(p)'
  BY <1>4, <1>5 DEF Finish, Goto, CallType
<1>6. ASSUME NEW p \in Proc, NEW r \in Res, Granted(p, r), history'[r] # <<>> PROVE Controlled(p)'
  BY <1>3, <1>6 DEF Granted, Goals, Terminal
<1>7. ASSUME NEW p \in Proc, Reads(p) PROVE Controlled(p)'
  <2>1. ASSUME NEW r \in Res, history[r] # <<>> PROVE history'[r] # <<>>
    BY <1>7, <2>1, HistoriesEndure
  <2>2. ASSUME NEW e \in Effect, NEW a \in Amount[e], ReserveKnown(p, e, a) PROVE Controlled(p)'
    <3>1. PICK r \in Res : terms[r] = [effect |-> e, amount |-> a] /\ Granted(p, r)
      BY <2>2 DEF ReserveKnown
    <3>2. history[r] # <<>>
      BY <3>1, Requests DEF StreamInv
    <3> QED BY <1>6, <2>1, <3>1, <3>2
  <2>3. ASSUME NEW e \in Effect, NEW a \in Amount[e], ReserveNew(p, e, a) PROVE Controlled(p)'
    <3>1. pc'[p] = "list" /\ request'[p] = [effect |-> e, amount |-> a]
      BY <2>3 DEF ReserveNew, Goto, CallType
    <3> QED BY <3>1, Requests DEF Controlled, Appending, HasBill
  <2>4. CASE ListCosts(p)
    <3>1. CASE Goto(p, "commit") /\ UNCHANGED <<request, held, rev, goal, bill>>
      <4>1. pc'[p] = "commit" /\ request'[p] = request[p] /\ request[p] \in Request
        BY <2>4, <3>1 DEF ListCosts, Goto, CallType, ControlInv, Controlled
      <4> QED BY <4>1 DEF Controlled, Appending, HasBill
    <3> QED BY <1>5, <2>4, <3>1 DEF ListCosts
  <2>5. ASSUME NEW r \in Res, Abandon(p, r) PROVE Controlled(p)'
    <3>1. history[r] # <<>>
      BY <2>5 DEF Abandon, Status
    <3>2. "billing_unknown" \in Goals
      BY DEF Goals
    <3> QED BY <1>3, <2>1, <2>5, <3>1, <3>2 DEF Abandon
  <2>6. CASE AppendRead(p)
    <3>1. CASE Goto(p, "cas") /\ rev' = [rev EXCEPT ![p] = revision] /\ UNCHANGED <<request, held, goal, bill>>
      <4>1. pc'[p] = "cas" /\ held'[p] = held[p] /\ goal'[p] = goal[p] /\ bill'[p] = bill[p]
        BY <3>1 DEF Goto, CallType
      <4>2. pc[p] = "append" /\ Controlled(p)
        BY <2>6 DEF AppendRead, ControlInv
      <4> QED BY <2>1, <4>1, <4>2 DEF Controlled, Appending, HasBill
    <3> QED BY <1>5, <2>6, <3>1 DEF AppendRead
  <2>7. CASE AppendConflict(p)
    <3>1. CASE Append1(p, held[p], goal[p]) /\ UNCHANGED <<request, bill>>
      <4>1. pc[p] = "cas" /\ Controlled(p)
        BY <2>7 DEF AppendConflict, ControlInv
      <4> QED BY <1>3, <2>1, <3>1, <4>1 DEF Controlled, Appending, HasBill
    <3> QED BY <1>5, <2>7, <3>1 DEF AppendConflict
  <2>8. ASSUME NEW kind \in Goals \ {"dispatch_identified"}, Settle(p, kind),
               held[p] \in Res, history[held[p]] # <<>>
        PROVE  Controlled(p)'
    BY <1>3, <2>1, <2>8 DEF Settle
  <2>9. \A s \in DOMAIN SettlesAs : SettlesAs[s] \in Goals \ {"dispatch_identified"}
    BY DEF SettlesAs, Goals, Terminal
  <2>10. CASE RecordCheck(p) \/ RecordAdd(p) \/ RecordFails(p)
    <3>1. held[p] \in Res /\ history[held[p]] # <<>> /\ bill[p].status \in DOMAIN SettlesAs
      BY <2>10 DEF RecordCheck, RecordAdd, RecordFails, ControlInv, Controlled, HasBill
    <3>2. CASE Settle(p, SettlesAs[bill[p].status])
      BY <2>8, <2>9, <3>1, <3>2
    <3>3. CASE Settle(p, "billing_unknown")
      BY <2>8, <3>1, <3>3 DEF Goals
    <3>4. CASE RecordCheck(p) /\ Goto(p, "add") /\ UNCHANGED <<held, goal, bill>>
      <4>1. pc'[p] = "add" /\ held'[p] = held[p] /\ bill'[p] = bill[p]
        BY <3>4 DEF Goto, CallType
      <4> QED BY <2>1, <3>1, <4>1 DEF Controlled, Appending, HasBill
    <3> QED BY <2>10, <3>2, <3>3, <3>4 DEF RecordCheck, RecordAdd, RecordFails
  <2> QED
    BY <1>5, <1>7, <2>2, <2>3, <2>4, <2>5, <2>6, <2>7, <2>10 DEF Reads, CommitConflict, AppendClash
<1>8. ASSUME NEW p \in Proc, Returns(p) PROVE Controlled(p)'
  <2>1. CASE Crash(p)
    BY <1>5, <2>1 DEF Crash
  <2>2. CASE ~Crash(p)
    <3>1. held[p] \in Res /\ history[held[p]] # <<>>
      BY <1>8, <2>2 DEF Returns, ReturnBilled, ReturnUnresolved, ReturnUndispatched, ControlInv, Controlled
    <3>2. history'[held[p]] # <<>>
      BY <1>8, <3>1, HistoriesEndure
    <3>3. CASE ReturnUnresolved(p) \/ ReturnUndispatched(p)
      BY <1>3, <3>1, <3>2, <3>3 DEF ReturnUnresolved, ReturnUndispatched, Goals, Terminal
    <3>4. ASSUME NEW status \in {"charged", "free", "unknown"}, NEW c \in Charge \cup {0},
                 ReturnBilled(p, status, c)
          PROVE  Controlled(p)'
      <4>1. bill'[p].status \in DOMAIN SettlesAs
        BY <3>4 DEF ReturnBilled, CallType, SettlesAs
      <4>2. CASE Append1(p, held[p], "dispatch_identified")
        BY <1>3, <3>1, <3>2, <4>1, <4>2 DEF Goals
      <4>3. CASE Goto(p, "record") /\ UNCHANGED <<held, goal>>
        <5>1. pc'[p] = "record" /\ held'[p] = held[p]
          BY <4>3 DEF Goto, CallType
        <5> QED BY <3>1, <3>2, <4>1, <5>1 DEF Controlled, Appending
      <4> QED BY <3>4, <4>2, <4>3 DEF ReturnBilled
    <3> QED BY <1>8, <2>2, <3>3, <3>4 DEF Returns
  <2> QED BY <2>1, <2>2
<1>9. ASSUME NEW p \in Proc, Appends(p) PROVE Controlled(p)'
  <2>1. ASSUME NEW r \in Res, Commit(p, r) PROVE Controlled(p)'
    <3>1. <<[kind |-> "reserved", at |-> Instant[p]]>> # <<>>
      BY NotEmpty
    <3>2. history'[r] # <<>>
      BY <2>1, <3>1, Reserved
    <3> QED BY <1>6, <2>1, <3>2 DEF Commit
  <2>2. CASE AppendPresent(p) \/ AppendCommit(p)
    <3>1. pc[p] = "cas" /\ Controlled(p) /\ Appended(p)
      BY <2>2 DEF AppendPresent, AppendCommit, ControlInv
    <3>2. history'[held[p]] # <<>> /\ held[p] \in Res
      BY <1>9, <3>1, HistoriesEndure DEF Controlled
    <3>3. ASSUME NEW l \in {"call", "record"}, Proceed(p, l) PROVE pc'[p] = l /\ held'[p] = held[p] /\ bill'[p] = bill[p]
      BY <3>3 DEF Proceed, Goto, CallType
    <3>4. CASE Proceed(p, "call")
      BY <3>2, <3>3, <3>4 DEF Controlled, Appending, HasBill
    <3>5. CASE goal[p] = "dispatch_identified" /\ Proceed(p, "record")
      BY <3>1, <3>2, <3>3, <3>5 DEF Controlled, Appending, HasBill
    <3> QED BY <1>5, <3>1, <3>4, <3>5 DEF Appended
  <2> QED BY <1>9, <2>1, <2>2 DEF Appends
<1> QED BY <1>1, <1>2, <1>7, <1>8, <1>9, Steps DEF ControlInv

-----------------------------------------------------------------------------
LEMMA StreamInvStep == TypeOK /\ ControlInv /\ StreamInv /\ RevisionInv /\ [Next]_vars => StreamInv'
<1> SUFFICES ASSUME StreamType, CallType, ControlInv, StreamInv, RevisionInv, [Next]_vars
             PROVE  StreamInv'
  BY DEF TypeOK
<1>1. CASE UNCHANGED stream
  BY <1>1 DEF stream, StreamInv
<1>2. ASSUME NEW p \in Proc, NEW r \in Res, Commit(p, r) PROVE StreamInv'
  <2> DEFINE first == [kind |-> "reserved", at |-> Instant[p]]
  <2>1. Len(<<first>>) = 1 /\ <<first>>[1] = first /\ <<first>> # <<>>
    BY NotEmpty
  <2>2. WellFormed(<<first>>)
    BY <2>1 DEF WellFormed
  <2>3. request[p] \in Request
    BY <1>2 DEF Commit, ControlInv, Controlled
  <2>4. terms'[r] # NoTerms /\ history'[r] # <<>> /\ WellFormed(history'[r])
    BY <1>2, <2>1, <2>2, <2>3, Reserved, Requests
  <2> QED BY <1>2, <2>4, Reserved DEF StreamInv
<1>3. ASSUME NEW p \in Proc, AppendCommit(p) PROVE StreamInv'
  <2>1. IsLegalSuccessor(LastKind(history[held[p]]), goal[p])
    BY <1>3 DEF AppendCommit, RevisionInv
  <2>2. history[held[p]] \in Seq(Transition) /\ WellFormed(history[held[p]])
    BY <1>3, Committed DEF StreamType, StreamInv
  <2>3. WellFormed(history'[held[p]])
    <3> DEFINE t == Proposed(p)
               h == history[held[p]]
    <3>1. t \in Transition /\ t.kind \in Goals /\ h # <<>> /\ history'[held[p]] = Append(h, t)
      BY <1>3, Committed
    <3>2. (\A i \in 1 .. Len(h) : h[i].kind # t.kind) /\ IsLegalSuccessor(LastKind(h), t.kind)
      BY <1>3, <2>1, Committed
    <3>3. h \in Seq(Transition) /\ WellFormed(h)
      BY <2>2
    <3> HIDE DEF t, h
    <3>4. WellFormed(Append(h, t))
      BY <3>1, <3>2, <3>3, Extension
    <3> QED BY <3>1, <3>4
  <2>4. history'[held[p]] # <<>>
    BY <1>3, <2>2, Committed, NotEmpty
  <2> QED BY <1>3, <2>3, <2>4, Committed DEF StreamInv
<1> QED BY <1>1, <1>2, <1>3, Steps, StreamStep DEF vars

(* A step that leaves the stream leaves what p knows of it; a commit makes  *)
(* every revision read before it an old one.                                *)
Knowing(p) ==
  rev[p] = revision =>
    /\ pc[p] \in {"list", "commit"} => \A r \in Res : terms[r].effect # request[p].effect
    /\ pc[p] = "commit" =>
         \A r \in Res : Status(history[r]) = "billing_unknown" => Bounded(r)
    /\ pc[p] = "cas" => IsLegalSuccessor(LastKind(history[held[p]]), goal[p])

LEMMA RevisionStep == TypeOK /\ ControlInv /\ RevisionInv /\ [Next]_vars => RevisionInv'
<1> SUFFICES ASSUME StreamType, CallType, ControlInv, RevisionInv, [Next]_vars, NEW p \in Proc
             PROVE  Knowing(p)'
  BY Zenon DEF TypeOK, RevisionInv, Knowing
<1>0. Knowing(p)
  BY Zenon DEF RevisionInv, Knowing
<1>1. CASE UNCHANGED vars
  BY <1>0, <1>1 DEF vars, stream, call, provider, Knowing, Bounded
<1>2. ASSUME NEW q \in Proc, Reads(q) \/ Returns(q) \/ Appends(q), UNCHANGED stream, p # q
      PROVE  Knowing(p)'
  <2>1. Untouched(p)
    BY <1>2, OneAtATime
  <2> QED BY <1>0, <1>2, <2>1 DEF stream, Untouched, Knowing, Bounded
<1>3. CASE \E q \in Proc : AppendCommit(q) \/ \E r \in Res : Commit(q, r)
  <2>1. PICK q \in Proc : AppendCommit(q) \/ \E r \in Res : Commit(q, r)
    BY <1>3
  <2>2. revision' = revision + 1 /\ revision \in Nat
    BY <2>1, Committed, Reserved DEF StreamType
  <2>3. CASE p # q
    <3>1. Appends(q)
      BY <2>1 DEF Appends
    <3>2. rev'[p] = rev[p] /\ rev[p] <= revision /\ rev[p] \in Nat
      BY <2>3, <3>1, OneAtATime DEF Untouched, CallType
    <3> QED BY <2>2, <3>2 DEF Knowing
  <2>4. CASE p = q
    <3>1. ASSUME NEW r \in Res, Granted(p, r) PROVE pc'[p] = "append"
      BY <3>1 DEF Granted, Append1, Goto, CallType
    <3>2. ASSUME Appended(p) PROVE pc'[p] \in {"call", "record", "idle"}
      BY <3>2 DEF Appended, Proceed, Finish, Goto, CallType
    <3>3. pc'[p] \notin {"list", "commit", "cas"}
      BY <2>1, <2>4, <3>1, <3>2 DEF Commit, AppendCommit
    <3> QED BY <3>3 DEF Knowing
  <2> QED BY <2>3, <2>4
<1>4. ASSUME UNCHANGED stream, Reads(p) \/ Returns(p) \/ AppendPresent(p) PROVE Knowing(p)'
  <2>1. ASSUME pc'[p] \notin {"list", "commit", "cas"} PROVE Knowing(p)'
    BY <2>1 DEF Knowing
  <2>2. ASSUME NEW e \in Effect, NEW a \in Amount[e], ReserveNew(p, e, a) PROVE Knowing(p)'
    <3>1. pc'[p] = "list" /\ request'[p] = [effect |-> e, amount |-> a] /\ terms' = terms
      BY <1>4, <2>2 DEF ReserveNew, Goto, CallType, stream
    <3> QED BY <2>2, <3>1 DEF ReserveNew, Knowing
  <2>3. CASE ListCosts(p)
    <3>1. CASE Goto(p, "commit") /\ UNCHANGED <<request, held, rev, goal, bill>> /\ (rev[p] = revision => Fits(request[p].amount))
      <4>1. pc'[p] = "commit" /\ UNCHANGED <<request, rev, history, terms, revision>> /\ pc[p] = "list"
        BY <1>4, <2>3, <3>1 DEF Goto, CallType, stream, ListCosts
      <4>2. rev[p] = revision => \A r \in Res : Status(history[r]) = "billing_unknown" => Bounded(r)
        BY <3>1 DEF Fits, Determinate, UnresolvedCharge
      <4> QED BY <1>0, <4>1, <4>2 DEF Knowing, Bounded
    <3>2. CASE Finish(p)
      BY <2>1, <3>2 DEF Finish, Goto, CallType
    <3> QED BY <2>3, <3>1, <3>2 DEF ListCosts
  <2>4. CASE AppendRead(p)
    <3>1. CASE /\ IsLegalSuccessor(LastKind(history[held[p]]), goal[p])
               /\ Goto(p, "cas") /\ UNCHANGED <<request, held, goal, bill>>
      <4>1. pc'[p] = "cas" /\ UNCHANGED <<held, goal, history>>
        BY <1>4, <3>1 DEF Goto, CallType, stream
      <4> QED BY <3>1, <4>1 DEF Knowing
    <3>2. CASE Finish(p)
      BY <2>1, <3>2 DEF Finish, Goto, CallType
    <3> QED BY <2>4, <3>1, <3>2 DEF AppendRead
  <2>5. ASSUME NEW r, NEW kind, Append1(p, r, kind) PROVE Knowing(p)'
    BY <2>1, <2>5 DEF Append1, Goto, CallType
  <2>6. ASSUME NEW l \in {"idle", "call", "record", "add"}, Goto(p, l) PROVE Knowing(p)'
    BY <2>1, <2>6 DEF Goto, CallType
  <2>7. CASE Reads(p)
    BY <2>2, <2>3, <2>4, <2>5, <2>6, <2>7
       DEF Reads, ReserveKnown, Granted, CommitConflict, Abandon, AppendClash, AppendConflict,
           RecordCheck, RecordAdd, RecordFails, Settle, Finish
  <2>8. CASE Returns(p)
    BY <2>5, <2>6, <2>8 DEF Returns, ReturnBilled, ReturnUnresolved, ReturnUndispatched, Crash, Finish
  <2>9. CASE AppendPresent(p)
    BY <2>6, <2>9 DEF AppendPresent, Appended, Proceed, Finish
  <2> QED BY <1>4, <2>7, <2>8, <2>9
<1> QED BY <1>1, <1>2, <1>3, <1>4, Steps, StreamStep DEF Appends

-----------------------------------------------------------------------------
Inductive == TypeOK /\ ControlInv /\ StreamInv /\ RevisionInv

LEMMA InductiveHolds == Spec => []Inductive
<1>1. Init => Inductive
  <2> SUFFICES ASSUME Init PROVE Inductive
    OBVIOUS
  <2>1. StreamType
    BY DEF Init, StreamType
  <2>2. CallType
    BY DEF Init, CallType, NoTerms, NoBill
  <2>3. ControlInv
    BY DEF Init, ControlInv, Controlled, Appending, HasBill
  <2>4. WellFormed(<<>>)
    BY DEF WellFormed
  <2>5. StreamInv
    BY <2>4 DEF Init, StreamInv
  <2>6. RevisionInv
    BY DEF Init, RevisionInv
  <2> QED BY <2>1, <2>2, <2>3, <2>5, <2>6 DEF Inductive, TypeOK
<1>2. Inductive /\ [Next]_vars => Inductive'
  BY TypeStep, ControlStep, StreamInvStep, RevisionStep DEF Inductive
<1> QED BY <1>1, <1>2, PTL DEF Spec

(* The variables keep their types.                                          *)
THEOREM TypeCorrect == Spec => []TypeOK
BY InductiveHolds, PTL DEF Inductive

(* "A reservation that stopped consuming authorization never resumes": its  *)
(* last transition is terminal, and nothing is a legal successor of that.   *)
THEOREM TerminalHolds == Spec => TerminalIsFinal
<1>1. Inductive /\ [Next]_vars =>
        \A r \in Res : Status(history[r]) \in Terminal => history'[r] = history[r]
  <2> SUFFICES ASSUME Inductive, [Next]_vars, NEW r \in Res, Status(history[r]) \in Terminal
               PROVE  history'[r] = history[r]
    OBVIOUS
  <2> USE DEF Inductive, TypeOK
  <2>1. history[r] \in Seq(Transition) /\ WellFormed(history[r])
    BY DEF StreamType, StreamInv
  <2>2. history[r] # <<>>
    BY DEF Status, Terminal
  <2>3. Over(history[r])
    BY <2>1, <2>2, NotOverIsActive DEF Active, Terminal
  <2>4. LastKind(history[r]) \in Terminal
    BY <2>1, <2>3, LastIsFinal
  <2>5. ASSUME NEW p \in Proc, NEW s \in Res, Commit(p, s) PROVE history'[r] = history[r]
    BY <2>2, <2>5, Reserved
  <2>6. ASSUME NEW p \in Proc, AppendCommit(p) PROVE history'[r] = history[r]
    <3>1. IsLegalSuccessor(LastKind(history[held[p]]), goal[p])
      BY <2>6 DEF AppendCommit, RevisionInv
    <3>2. held[p] # r
      BY <2>4, <3>1 DEF IsLegalSuccessor, AllowedAfter, Terminal
    <3> QED BY <2>6, <3>2, Committed
  <2> QED BY <2>5, <2>6, Steps, StreamStep DEF vars, stream
<1> QED BY <1>1, InductiveHolds, PTL DEF Spec, TerminalIsFinal

(* "Two callers racing to reserve the same effect converge on one           *)
(* reservation": a commit finds the stream as the caller read it, and there *)
(* it had no reservation of the effect.                                     *)
THEOREM OneReservation == Spec => []OneReservationPerEffect
<1>1. Init => OneReservationPerEffect
  BY DEF Init, OneReservationPerEffect, Unused
<1>2. Inductive /\ OneReservationPerEffect /\ [Next]_vars => OneReservationPerEffect'
  <2> SUFFICES ASSUME Inductive, OneReservationPerEffect, [Next]_vars PROVE OneReservationPerEffect'
    OBVIOUS
  <2> USE DEF OneReservationPerEffect, Unused
  <2>0. StreamType /\ ControlInv /\ RevisionInv
    BY DEF Inductive, TypeOK
  <2>1. CASE UNCHANGED stream
    BY <2>1 DEF stream
  <2>2. ASSUME NEW p \in Proc, NEW r \in Res, Commit(p, r) PROVE OneReservationPerEffect'
    <3>1. \A s \in Res : terms[s].effect # request[p].effect
      BY <2>0, <2>2 DEF Commit, RevisionInv
    <3>2. terms'[r] = request[p] /\ \A s \in Res \ {r} : history'[s] = history[s] /\ terms'[s] = terms[s]
      BY <2>0, <2>2, Reserved
    <3> QED BY <3>1, <3>2
  <2>3. ASSUME NEW p \in Proc, AppendCommit(p) PROVE OneReservationPerEffect'
    <3>1. /\ held[p] \in Res /\ history[held[p]] # <<>> /\ terms' = terms
          /\ \A s \in Res \ {held[p]} : history'[s] = history[s]
      BY <2>0, <2>3, Committed
    <3> QED BY <3>1
  <2> QED BY <2>1, <2>2, <2>3, Steps, StreamStep DEF vars
<1> QED BY <1>1, <1>2, InductiveHolds, PTL DEF Spec

(* "An unknown charge blocks the grant, unless that execution was           *)
(* dispatched under an enforced ceiling": what was determinate when the     *)
(* costs were listed still is when the commit finds its revision current.   *)
THEOREM UnknownBlocks == Spec => UnknownBlocksGrant
<1>1. Inductive /\ [Next]_vars =>
        \A r \in Res : Unused(r) /\ ~Unused(r)' =>
          \A s \in Res : Status(history[s]) = "billing_unknown" => Bounded(s)
  <2> SUFFICES ASSUME Inductive, [Next]_vars, NEW r \in Res, Unused(r), ~Unused(r)'
               PROVE  \A s \in Res : Status(history[s]) = "billing_unknown" => Bounded(s)
    OBVIOUS
  <2> USE DEF Inductive, TypeOK, Unused
  <2>1. ASSUME NEW p \in Proc, NEW t \in Res, Commit(p, t)
        PROVE  \A s \in Res : Status(history[s]) = "billing_unknown" => Bounded(s)
    BY <2>1 DEF Commit, RevisionInv
  <2>2. ASSUME NEW p \in Proc, AppendCommit(p) PROVE FALSE
    BY <2>2, Committed
  <2> QED BY <2>1, <2>2, Steps, StreamStep DEF vars, stream
<1> QED BY <1>1, InductiveHolds, PTL DEF Spec, UnknownBlocksGrant

-----------------------------------------------------------------------------
LEMMA AppendedHas ==
  ASSUME NEW h \in Seq(Transition), NEW t \in Transition, NEW kind
  PROVE  Has(Append(h, t), kind) <=> Has(h, kind) \/ t.kind = kind
<1>1. Len(h) \in Nat /\ Len(Append(h, t)) = Len(h) + 1 /\ Append(h, t)[Len(h) + 1] = t
  OBVIOUS
<1>2. \A i \in 1 .. Len(h) : Append(h, t)[i] = h[i]
  OBVIOUS
<1> QED BY <1>1, <1>2 DEF Has

(* What was in a history stays in it.                                       *)
LEMMA HistoriesGrow ==
  ASSUME Inductive, NEW p \in Proc, Reads(p) \/ Returns(p) \/ Appends(p), NEW r \in Res, NEW kind,
         Has(history[r], kind)
  PROVE  Has(history'[r], kind)
<1> USE DEF Inductive, TypeOK
<1>1. CASE UNCHANGED stream
  BY <1>1 DEF stream
<1>2. ASSUME NEW s \in Res, Commit(p, s) PROVE Has(history'[r], kind)
  <2>1. Len(<<>>) = 0
    OBVIOUS
  <2>2. history[r] # <<>>
    BY <2>1 DEF Has
  <2> QED BY <1>2, <2>2, Reserved
<1>3. CASE AppendCommit(p)
  <2>1. history[held[p]] \in Seq(Transition) /\ Proposed(p) \in Transition
        /\ history'[held[p]] = Append(history[held[p]], Proposed(p))
    BY <1>3, Committed DEF StreamType
  <2>2. CASE r = held[p]
    <3>1. Has(history[held[p]], kind)
      BY <2>2
    <3>2. Has(Append(history[held[p]], Proposed(p)), kind)
      BY <2>1, <3>1, AppendedHas
    <3> QED BY <2>1, <2>2, <3>2
  <2>3. CASE r # held[p]
    BY <1>3, <2>3, Committed
  <2> QED BY <2>2, <2>3
<1> QED BY <1>1, <1>2, <1>3, StreamStep

(* What an append leads to: the call, the record, or the end.               *)
LEMMA AfterAppend ==
  ASSUME Inductive, NEW p \in Proc, AppendPresent(p) \/ AppendCommit(p)
  PROVE  /\ pc[p] = "cas" /\ held[p] \in Res
         /\ \/ /\ goal[p] = "dispatch_prepared" /\ pc'[p] = "call" /\ held'[p] = held[p]
               /\ calls' = [calls EXCEPT ![held[p]] = @ + 1]
            \/ /\ goal[p] = "dispatch_identified" /\ pc'[p] = "record" /\ held'[p] = held[p]
               /\ calls' = calls
            \/ goal[p] \notin {"dispatch_prepared", "dispatch_identified"} /\ pc'[p] = "idle" /\ calls' = calls
         /\ spent' = spent /\ costs' = costs /\ (pc'[p] # "idle" => bill'[p] = bill[p])
<1>1. pc[p] = "cas" /\ Appended(p) /\ Controlled(p) /\ CallType /\ costs' = costs
  BY DEF AppendPresent, AppendCommit, Inductive, ControlInv, TypeOK
<1>2. held[p] \in Res
  BY <1>1 DEF Controlled
<1>3. CASE goal[p] = "dispatch_prepared"
  BY <1>1, <1>2, <1>3 DEF Appended, Proceed, Goto, CallType
<1>4. CASE goal[p] = "dispatch_identified"
  BY <1>1, <1>2, <1>4 DEF Appended, Proceed, Goto, CallType, provider
<1>5. CASE goal[p] \notin {"dispatch_prepared", "dispatch_identified"}
  BY <1>1, <1>2, <1>5 DEF Appended, Finish, Goto, CallType, provider
<1> QED BY <1>1, <1>2, <1>3, <1>4, <1>5

LEMMA OnlyReadLeadsToCas ==
  ASSUME CallType, NEW p \in Proc, Reads(p) \/ Returns(p) \/ Appends(p), pc'[p] = "cas"
  PROVE  AppendRead(p)
<1>1. ASSUME NEW r, NEW kind, Append1(p, r, kind) PROVE FALSE
  BY <1>1 DEF Append1, Goto, CallType
<1>2. ASSUME NEW l \in {"idle", "list", "commit", "call", "record", "add"}, Goto(p, l) PROVE FALSE
  BY <1>2 DEF Goto, CallType
<1>3. Appends(p) => FALSE
  BY <1>1, <1>2 DEF Appends, Commit, Granted, AppendPresent, AppendCommit, Appended, Proceed, Finish
<1>4. Returns(p) => FALSE
  BY <1>1, <1>2 DEF Returns, ReturnBilled, ReturnUnresolved, ReturnUndispatched, Crash, Finish
<1>5. Reads(p) => AppendRead(p)
  BY <1>1, <1>2
     DEF Reads, ReserveKnown, ReserveNew, Granted, ListCosts, CommitConflict, Abandon, AppendClash,
         AppendConflict, RecordCheck, RecordAdd, RecordFails, Settle, Finish
<1> QED BY <1>3, <1>4, <1>5

LEMMA OnceStep == InstantsDiffer /\ Inductive /\ OnceInv /\ [Next]_vars => OnceInv'
<1> SUFFICES ASSUME InstantsDiffer, Inductive, OnceInv, [Next]_vars PROVE OnceInv'
  OBVIOUS
<1> USE DEF Inductive, TypeOK
<1>1. CASE UNCHANGED vars
  BY <1>1 DEF vars, stream, call, provider, OnceInv, AlreadyPresent, SameIdentity, Proposed
<1>2. ASSUME NEW p \in Proc, Reads(p) \/ Returns(p) \/ Appends(p)
      PROVE  \A r \in Res : calls'[r] <= 1 /\ (calls'[r] = 1 => Has(history'[r], "dispatch_prepared"))
  <2>1. CASE calls' = calls
    BY <1>2, <2>1, HistoriesGrow DEF OnceInv
  <2>2. CASE AppendPresent(p) \/ AppendCommit(p)
    <3>1. CASE goal[p] = "dispatch_prepared"
      <4>1. AppendCommit(p)
        BY <2>2, <3>1, AfterAppend DEF AppendPresent, OnceInv
      <4>2. ~Has(history[held[p]], "dispatch_prepared") /\ Has(history'[held[p]], "dispatch_prepared")
        <5>1. history[held[p]] \in Seq(Transition) /\ Proposed(p) \in Transition
              /\ Proposed(p).kind = "dispatch_prepared"
              /\ history'[held[p]] = Append(history[held[p]], Proposed(p))
          BY <3>1, <4>1, Committed DEF StreamType
        <5>2. \A i \in 1 .. Len(history[held[p]]) : history[held[p]][i].kind # "dispatch_prepared"
          BY <3>1, <4>1, Committed
        <5> QED BY <5>1, <5>2, AppendedHas DEF Has
      <4>3. calls \in [Res -> Nat] /\ calls[held[p]] = 0
        <5>1. calls \in [Res -> Nat] /\ held[p] \in Res
          BY <4>1, Committed DEF StreamType
        <5>2. calls[held[p]] \in Nat /\ calls[held[p]] <= 1 /\ calls[held[p]] # 1
          BY <4>2, <5>1 DEF OnceInv
        <5> QED BY <5>1, <5>2
      <4>4. calls' = [calls EXCEPT ![held[p]] = 1] /\ held[p] \in Res
        BY <2>2, <3>1, <4>3, AfterAppend
      <4> QED BY <1>2, <4>2, <4>3, <4>4, HistoriesGrow DEF OnceInv
    <3> QED BY <2>1, <2>2, <3>1, AfterAppend
  <2>3. ASSUME NEW r \in Res, Commit(p, r) PROVE calls' = calls
    BY <2>3 DEF Commit, provider
  <2>4. CASE Reads(p) \/ Returns(p)
    BY <2>1, <2>4
       DEF Reads, Returns, ReserveKnown, ReserveNew, ListCosts, CommitConflict, Abandon, AppendRead,
           AppendClash, AppendConflict, RecordCheck, RecordAdd, RecordFails, ReturnBilled,
           ReturnUnresolved, ReturnUndispatched, Crash, provider
  <2> QED BY <1>2, <2>1, <2>2, <2>3, <2>4 DEF Appends
<1>3. ASSUME NEW p \in Proc, NEW q \in Proc, Reads(q) \/ Returns(q) \/ Appends(q),
             pc'[p] = "cas", goal'[p] = "dispatch_prepared"
      PROVE  ~AlreadyPresent(p)'
  <2>1. CASE p # q
    <3>1. Untouched(p) /\ pc[p] = "cas" /\ goal[p] = "dispatch_prepared" /\ held[p] \in Res
      BY <1>3, <2>1, OneAtATime DEF Untouched, ControlInv, Controlled
    <3>2. ~AlreadyPresent(p) /\ history[held[p]] # <<>>
      BY <3>1 DEF OnceInv, ControlInv, Controlled
    <3>3. CASE history'[held[p]] = history[held[p]]
      BY <3>1, <3>2, <3>3 DEF AlreadyPresent, SameIdentity, Proposed, Untouched
    <3>4. CASE AppendCommit(q) /\ held[q] = held[p]
      <4> DEFINE h == history[held[p]]
      <4>1. h \in Seq(Transition) /\ history'[held[p]] = Append(h, Proposed(q)) /\ Proposed(q) # Proposed(p)
        BY <2>1, <3>1, <3>4, Committed DEF StreamType, Proposed, InstantsDiffer
      <4>2. Len(h) \in Nat /\ Len(Append(h, Proposed(q))) = Len(h) + 1
            /\ Append(h, Proposed(q))[Len(h) + 1] = Proposed(q)
            /\ \A i \in 1 .. Len(h) : Append(h, Proposed(q))[i] = h[i]
        BY <3>4, <4>1, Committed
      <4>3. \A i \in 1 .. Len(h) : h[i] # Proposed(p)
        BY <3>2 DEF AlreadyPresent, SameIdentity, Proposed
      <4>4. \A i \in 1 .. Len(history'[held[p]]) : history'[held[p]][i] # Proposed(p)
        BY <4>1, <4>2, <4>3
      <4>5. Proposed(p)' = Proposed(p) /\ held'[p] = held[p]
        BY <3>1 DEF Proposed, Untouched
      <4> QED BY <4>4, <4>5 DEF AlreadyPresent, SameIdentity
    <3>5. ASSUME NEW r \in Res, Commit(q, r) PROVE history'[held[p]] = history[held[p]]
      BY <3>1, <3>2, <3>5, Reserved
    <3> QED BY <1>3, <3>1, <3>3, <3>4, <3>5, Committed, StreamStep DEF stream
  <2>2. CASE p = q
    <3>1. AppendRead(p)
      BY <1>3, <2>2, OnlyReadLeadsToCas
    <3>2. UNCHANGED <<history, held, goal>> /\ IsLegalSuccessor(LastKind(history[held[p]]), "dispatch_prepared")
      BY <1>3, <3>1 DEF AppendRead, Finish, Goto, CallType, stream
    <3> DEFINE h == history[held[p]]
    <3>3. h \in Seq(Transition) /\ WellFormed(h) /\ h # <<>> /\ LastKind(h) = "reserved"
      <4>1. h \in Seq(Transition) /\ WellFormed(h) /\ h # <<>>
        BY <3>1 DEF AppendRead, ControlInv, Controlled, StreamType, StreamInv
      <4>2. Len(h) \in 1 .. Len(h)
        BY <4>1
      <4>3. LastKind(h) \in Kind
        <5>1. h[Len(h)] \in Transition
          BY <4>1, <4>2
        <5>2. LastKind(h) = h[Len(h)].kind
          BY <4>1 DEF LastKind
        <5> QED BY <5>1, <5>2 DEF Transition
      <4> QED BY <3>2, <4>1, <4>3 DEF IsLegalSuccessor, AllowedAfter, Kind, Terminal
    <3>4. Len(h) = 1 /\ h[1].kind = "reserved"
      <4>1. Len(h) \in 1 .. Len(h) /\ h[Len(h)].kind = "reserved"
        BY <3>3 DEF LastKind
      <4> QED BY <3>3, <4>1 DEF WellFormed
    <3> QED BY <1>3, <3>2, <3>4 DEF AlreadyPresent, SameIdentity
  <2> QED BY <2>1, <2>2
<1> QED BY <1>1, <1>2, <1>3, Steps DEF OnceInv

(* "One reservation authorizes one charge": if no two processes read one    *)
(* instant, a reservation is announced once and called under once, whoever  *)
(* dies, retries or races.                                                  *)
THEOREM OneCall == InstantsDiffer /\ Spec => []DispatchedOnce
<1> SUFFICES ASSUME InstantsDiffer PROVE Spec => []DispatchedOnce
  OBVIOUS
<1>1. Init => OnceInv
  BY DEF Init, OnceInv
<1>2. Inductive /\ OnceInv /\ [Next]_vars => OnceInv'
  BY OnceStep
<1>3. OnceInv => DispatchedOnce
  BY DEF OnceInv, DispatchedOnce
<1> QED BY <1>1, <1>2, <1>3, InductiveHolds, PTL DEF Spec

-----------------------------------------------------------------------------
LEMMA OverHas == \A h : Over(h) <=> Has(h, "settled") \/ Has(h, "released")
BY DEF Over, Has, Terminal

(* A process comes to dispatch by announcing it, and keeps to one           *)
(* reservation while it does.                                               *)
LEMMA DispatchBegins ==
  ASSUME Inductive, OnceInv, ~Releasing, NEW p \in Proc, Reads(p) \/ Returns(p) \/ Appends(p),
         Dispatching(p)'
  PROVE  /\ held'[p] = held[p]
         /\ \/ Dispatching(p) /\ pc'[p] # "call"
            \/ AppendCommit(p) /\ goal[p] = "dispatch_prepared"
<1>0. CallType /\ Controlled(p) /\ StreamType
  BY DEF Inductive, TypeOK, ControlInv
<1>1. ASSUME NEW r, NEW kind \in {"dispatch_prepared", "billing_unknown"}, Append1(p, r, kind) PROVE FALSE
  BY <1>0, <1>1 DEF Append1, Goto, CallType, Dispatching, Appending, Terminal
<1>2. ASSUME NEW l \in {"idle", "list", "commit"}, Goto(p, l) PROVE FALSE
  BY <1>0, <1>2 DEF Goto, CallType, Dispatching, Appending
<1>3. Finish(p) => FALSE
  BY <1>2 DEF Finish
<1>4. ASSUME NEW r, Granted(p, r) PROVE FALSE
  BY <1>1, <1>4 DEF Granted
<1>5. ASSUME pc[p] \in {"call", "record", "add"}, NEW kind, Append1(p, held[p], kind)
      PROVE  held'[p] = held[p] /\ Dispatching(p) /\ pc'[p] # "call"
  BY <1>0, <1>5 DEF Append1, Goto, CallType, Dispatching
<1>6. ASSUME pc[p] \in {"call", "record", "add"}, NEW l \in {"record", "add"}, Goto(p, l), held' = held
      PROVE  held'[p] = held[p] /\ Dispatching(p) /\ pc'[p] # "call"
  BY <1>0, <1>6 DEF Goto, CallType, Dispatching
<1>7. CASE AppendRead(p)
  <2>1. pc[p] = "append" /\ pc'[p] = "cas" /\ UNCHANGED <<held, goal>>
    BY <1>0, <1>3, <1>7 DEF AppendRead, Goto, CallType
  <2> QED BY <2>1 DEF Dispatching, Appending
<1>8. CASE AppendConflict(p)
  <2>1. pc[p] = "cas" /\ pc'[p] = "append" /\ held'[p] = held[p] /\ goal'[p] = goal[p]
    BY <1>0, <1>3, <1>8 DEF AppendConflict, Append1, Goto, CallType
  <2> QED BY <2>1 DEF Dispatching, Appending
<1>9. CASE Reads(p)
  <2>1. CASE \E e \in Effect : \E a \in Amount[e] : ReserveKnown(p, e, a) \/ ReserveNew(p, e, a)
    BY <1>2, <1>4, <2>1 DEF ReserveKnown, ReserveNew
  <2>2. CASE ListCosts(p) \/ CommitConflict(p) \/ AppendClash(p) \/ \E r \in Res : Abandon(p, r)
    BY <1>1, <1>2, <1>3, <2>2 DEF ListCosts, CommitConflict, AppendClash, Abandon
  <2>3. CASE RecordCheck(p) \/ RecordAdd(p) \/ RecordFails(p)
    BY <1>5, <1>6, <2>3 DEF RecordCheck, RecordAdd, RecordFails, Settle
  <2> QED BY <1>7, <1>8, <1>9, <2>1, <2>2, <2>3 DEF Reads
<1>10. CASE Returns(p)
  BY <1>3, <1>5, <1>6, <1>10 DEF Returns, ReturnBilled, ReturnUnresolved, ReturnUndispatched, Crash
<1>11. CASE Appends(p)
  <2>1. ~ \E r \in Res : Commit(p, r)
    BY <1>4 DEF Commit
  <2>2. AppendPresent(p) \/ AppendCommit(p)
    BY <1>11, <2>1 DEF Appends
  <2>3. pc'[p] # "idle"
    BY DEF Dispatching, Appending
  <2>4. CASE goal[p] = "dispatch_prepared"
    BY <2>2, <2>4, AfterAppend DEF AppendPresent, OnceInv
  <2>5. CASE goal[p] = "dispatch_identified"
    BY <2>2, <2>5, AfterAppend DEF Dispatching, Appending
  <2> QED BY <2>2, <2>3, <2>4, <2>5, AfterAppend
<1> QED BY <1>9, <1>10, <1>11

(* What an announcement finds: no other announcement, and no end.           *)
LEMMA Announced ==
  ASSUME Inductive, NEW p \in Proc, AppendCommit(p), goal[p] = "dispatch_prepared"
  PROVE  /\ held[p] \in Res /\ ~Has(history[held[p]], "dispatch_prepared")
         /\ Has(history'[held[p]], "dispatch_prepared") /\ ~Over(history'[held[p]])
<1> DEFINE t == Proposed(p)
           h == history[held[p]]
<1>1. /\ t \in Transition /\ t.kind \in Goals /\ h # <<>> /\ history'[held[p]] = Append(h, t)
      /\ held[p] \in Res /\ t.kind = "dispatch_prepared"
  BY Committed DEF Inductive, TypeOK
<1>2. \A i \in 1 .. Len(h) : h[i].kind # t.kind
  BY Committed DEF Inductive, TypeOK
<1>3. IsLegalSuccessor(LastKind(h), t.kind)
  BY <1>1 DEF AppendCommit, RevisionInv, Inductive
<1>4. h \in Seq(Transition) /\ WellFormed(h)
  BY <1>1 DEF Inductive, TypeOK, StreamType, StreamInv
<1> HIDE DEF t, h
<1>5. ~Over(h)
  BY <1>1, <1>2, <1>3, <1>4, Extension
<1>6. ~Has(h, "dispatch_prepared")
  BY <1>1, <1>2 DEF Has
<1>7. Has(Append(h, t), "dispatch_prepared") /\ ~Over(Append(h, t))
  BY <1>1, <1>4, <1>5, AppendedHas, OverHas
<1> QED BY <1>1, <1>6, <1>7 DEF h

LEMMA DispatchStep ==
  ~Releasing /\ Inductive /\ OnceInv /\ DispatchInv /\ [Next]_vars => DispatchInv'
<1> SUFFICES ASSUME ~Releasing, Inductive, OnceInv, DispatchInv, [Next]_vars PROVE DispatchInv'
  OBVIOUS
<1>0. CallType /\ ControlInv /\ StreamType
  BY DEF Inductive, TypeOK
<1>1. CASE UNCHANGED vars
  BY <1>1 DEF vars, stream, call, provider, DispatchInv, Dispatching, Appending
<1>2. ASSUME NEW p \in Proc, Reads(p) \/ Returns(p) \/ Appends(p) PROVE DispatchInv'
  <2>1. ASSUME NEW q \in Proc \ {p}
        PROVE  /\ held'[q] = held[q] /\ pc'[q] = pc[q] /\ (Dispatching(q)' <=> Dispatching(q))
               /\ Dispatching(q) => held[q] \in Res
    BY <1>0, <1>2, OneAtATime DEF Untouched, Dispatching, Appending, ControlInv, Controlled
  <2>2. Dispatching(p) => held[p] \in Res
    BY <1>0 DEF Dispatching, Appending, ControlInv, Controlled
  <2>3. ASSUME NEW q \in Proc, Dispatching(q)' PROVE Has(history'[held'[q]], "dispatch_prepared")
    <3>1. CASE Dispatching(q) /\ held'[q] = held[q]
      BY <1>2, <2>1, <2>2, <3>1, HistoriesGrow DEF DispatchInv
    <3>2. CASE q = p /\ AppendCommit(p) /\ goal[p] = "dispatch_prepared" /\ held'[p] = held[p]
      BY <3>2, Announced
    <3> QED BY <1>2, <2>1, <2>3, <3>1, <3>2, DispatchBegins
  <2>4. ASSUME NEW q \in Proc, NEW s \in Proc, Dispatching(q)', Dispatching(s)', held'[q] = held'[s], q # s
        PROVE  FALSE
    <3>1. ASSUME NEW u \in Proc \ {p}, Dispatching(u)', Dispatching(p)', held'[u] = held'[p] PROVE FALSE
      <4>1. Dispatching(u) /\ held[u] = held[p]
        BY <1>2, <2>1, <3>1, DispatchBegins
      <4>2. ~Dispatching(p)
        BY <4>1 DEF DispatchInv
      <4>3. AppendCommit(p) /\ goal[p] = "dispatch_prepared"
        BY <1>2, <3>1, <4>2, DispatchBegins
      <4> QED BY <4>1, <4>3, Announced DEF DispatchInv
    <3>2. CASE q # p /\ s # p
      BY <2>1, <2>4, <3>2 DEF DispatchInv
    <3> QED BY <2>4, <3>1, <3>2
  <2>5. ASSUME NEW q \in Proc, Dispatching(q)' PROVE ~Over(history'[held'[q]])
    <3>1. CASE AppendCommit(p) /\ goal[p] = "dispatch_prepared" /\ held'[p] = held[p] /\ q = p
      BY <3>1, Announced
    <3>2. CASE Dispatching(q) /\ held'[q] = held[q]
      <4> DEFINE r == held[q]
      <4>1. held'[q] = r /\ r \in Res /\ ~Over(history[r]) /\ history[r] # <<>>
        BY <1>0, <2>1, <2>2, <3>2 DEF DispatchInv, Dispatching, Appending, ControlInv, Controlled
      <4>2. CASE AppendCommit(p) /\ held[p] = r
        <5>1. goal[p] \notin Terminal
          <6>1. pc[p] = "cas"
            BY <4>2 DEF AppendCommit
          <6>2. CASE q = p
            <7>1. pc'[p] # "idle"
              BY <2>5, <6>2 DEF Dispatching, Appending
            <7> QED BY <4>2, <7>1, AfterAppend DEF Terminal
          <6>3. CASE q # p
            <7>1. ~Dispatching(p)
              BY <3>2, <4>2, <6>3 DEF DispatchInv
            <7> QED BY <6>1, <7>1 DEF Dispatching, Appending
          <6> QED BY <6>2, <6>3
        <5>2. /\ history[r] \in Seq(Transition) /\ Proposed(p) \in Transition
              /\ Proposed(p).kind \notin Terminal /\ history'[r] = Append(history[r], Proposed(p))
          BY <1>0, <4>2, <5>1, Committed DEF StreamType
        <5> HIDE DEF r
        <5>3. ~Over(Append(history[r], Proposed(p)))
          BY <4>1, <5>2, AppendedHas, OverHas DEF Terminal
        <5> QED BY <4>1, <5>2, <5>3
      <4>3. CASE history'[r] = history[r]
        BY <4>1, <4>3
      <4>4. ASSUME NEW s \in Res, Commit(p, s) PROVE history'[r] = history[r]
        BY <1>0, <4>1, <4>4, Reserved
      <4>5. UNCHANGED stream => history'[r] = history[r]
        BY DEF stream
      <4>6. AppendCommit(p) /\ held[p] # r => history'[r] = history[r]
        BY <1>0, <4>1, Committed
      <4> QED BY <1>2, <4>2, <4>3, <4>4, <4>5, <4>6, StreamStep
    <3> QED BY <1>2, <2>1, <2>5, <3>1, <3>2, DispatchBegins
  <2> QED BY <2>3, <2>4, <2>5 DEF DispatchInv
<1> QED BY <1>1, <1>2, Steps

(* "releaseBeforeDispatch refuses once dispatch_prepared exists": if no     *)
(* caller changes its mind, a provider call under way holds its             *)
(* authorization.                                                           *)
THEOREM LiveCall == InstantsDiffer /\ ~Releasing /\ Spec => []LiveCallIsCovered
<1> SUFFICES ASSUME InstantsDiffer, ~Releasing PROVE Spec => []LiveCallIsCovered
  OBVIOUS
<1>1. Init => OnceInv /\ DispatchInv
  BY DEF Init, OnceInv, DispatchInv, Dispatching, Appending
<1>2. Inductive /\ OnceInv /\ DispatchInv /\ [Next]_vars => OnceInv' /\ DispatchInv'
  BY OnceStep, DispatchStep
<1>3. Inductive /\ DispatchInv => LiveCallIsCovered
  BY NotOverIsActive
     DEF Inductive, TypeOK, StreamType, StreamInv, ControlInv, Controlled, DispatchInv, Dispatching, LiveCallIsCovered
<1> QED BY <1>1, <1>2, <1>3, InductiveHolds, PTL DEF Spec

-----------------------------------------------------------------------------
LEMMA CostsGrow ==
  ASSUME StreamType, CallType, NEW p \in Proc, Reads(p) \/ Returns(p) \/ Appends(p),
         NEW r \in Res, costs[r] # <<>>
  PROVE  costs'[r] # <<>>
<1>1. CASE RecordAdd(p)
  <2>1. costs' = [costs EXCEPT ![held[p]] = Append(costs[held[p]], bill[p])]
    BY <1>1 DEF RecordAdd
  <2>2. CASE r = held[p]
    <3>1. costs'[r] = Append(costs[r], bill[p]) /\ Len(costs[r]) \in Nat
      BY <2>1, <2>2 DEF StreamType
    <3>2. Len(Append(costs[r], bill[p])) = Len(costs[r]) + 1 /\ Len(<<>>) = 0
      BY <3>1 DEF StreamType
    <3>3. Len(costs'[r]) # 0
      BY <3>1, <3>2
    <3> QED BY <3>2, <3>3
  <2>3. CASE r # held[p]
    BY <2>1, <2>3 DEF StreamType
  <2> QED BY <2>2, <2>3
<1>2. CASE ~RecordAdd(p)
  <2>1. costs' = costs
    BY <1>2
       DEF Reads, Returns, Appends, ReserveKnown, ReserveNew, ListCosts, CommitConflict, Abandon,
           AppendRead, AppendClash, AppendConflict, RecordCheck, RecordFails, ReturnBilled,
           ReturnUnresolved, ReturnUndispatched, Crash, Commit, AppendPresent, AppendCommit
  <2> QED BY <2>1
<1> QED BY <1>1, <1>2

LEMMA SpentGrows ==
  ASSUME NEW p \in Proc, Reads(p) \/ Returns(p) \/ Appends(p)
  PROVE  \/ spent' = spent
         \/ pc[p] = "call" /\ spent' = [spent EXCEPT ![held[p]] = @ + 1] /\ UNCHANGED stream
<1>1. CASE Returns(p)
  BY <1>1 DEF Returns, ReturnBilled, ReturnUnresolved, ReturnUndispatched, Crash, Charged,
              MayHaveCharged, provider
<1>2. CASE Reads(p)
  BY <1>2 DEF Reads, ReserveKnown, ReserveNew, ListCosts, CommitConflict, Abandon, AppendRead,
              AppendClash, AppendConflict, RecordCheck, RecordAdd, RecordFails, provider
<1>3. CASE Appends(p)
  BY <1>3 DEF Appends, Commit, AppendPresent, AppendCommit, Appended, Finish, Proceed, provider
<1> QED BY <1>1, <1>2, <1>3

(* What p is about to end its reservation with agrees with what it found.   *)
Found(p) ==
  /\ pc[p] = "call" => spent[held[p]] = 0
  /\ HasBill(p) /\ bill[p].status = "free" => spent[held[p]] = 0
  /\ Appending(p) /\ goal[p] = "released" => spent[held[p]] = 0
  /\ Appending(p) /\ goal[p] = "settled" => costs[held[p]] # <<>>

LEMMA FoundStep ==
  ASSUME ~Releasing, Inductive, OnceInv, DispatchInv, ChargeInv,
         NEW p \in Proc, Reads(p) \/ Returns(p) \/ Appends(p)
  PROVE  Found(p)'
<1>0. CallType /\ Controlled(p) /\ StreamType /\ ControlInv /\ Found(p)
  BY DEF Inductive, TypeOK, ControlInv, ChargeInv, Found
<1>1. CASE ~Dispatching(p)'
  BY <1>1 DEF Dispatching, Found, HasBill, Appending, Terminal
<1>2. CASE AppendCommit(p) /\ goal[p] = "dispatch_prepared"
  <2>1. pc'[p] = "call" /\ held'[p] = held[p] /\ held[p] \in Res /\ spent' = spent
    BY <1>2, AfterAppend
  <2>2. spent[held[p]] \in Nat /\ spent[held[p]] <= 1 /\ spent[held[p]] # 1
    BY <1>0, <1>2, <2>1, Announced DEF ChargeInv, StreamType
  <2> QED BY <2>1, <2>2 DEF Found, HasBill, Appending
<1>3. CASE Dispatching(p)' /\ ~(AppendCommit(p) /\ goal[p] = "dispatch_prepared")
  <2>1. held'[p] = held[p] /\ Dispatching(p) /\ pc'[p] # "call"
    BY <1>3, DispatchBegins
  <2>2. held[p] \in Res
    BY <1>0, <2>1 DEF Controlled, Dispatching, Appending
  <2>3. ASSUME spent' = spent, Appending(p) /\ Appending(p)', goal'[p] = goal[p], bill'[p] = bill[p]
        PROVE  Found(p)'
    BY <1>0, <2>1, <2>2, <2>3, CostsGrow DEF Found, HasBill, Appending
  <2>4. CASE AppendRead(p)
    <3>1. pc[p] = "append" /\ pc'[p] = "cas" /\ goal' = goal /\ bill' = bill /\ spent' = spent
      BY <1>0, <1>3, <2>4 DEF AppendRead, Finish, Goto, CallType, Dispatching, Appending, provider
    <3> QED BY <2>3, <3>1 DEF Appending
  <2>5. CASE AppendConflict(p)
    <3>1. pc[p] = "cas" /\ pc'[p] = "append" /\ goal'[p] = goal[p] /\ bill' = bill /\ spent' = spent
      BY <1>0, <1>3, <2>5
         DEF AppendConflict, Append1, Finish, Goto, CallType, Dispatching, Appending, provider
    <3> QED BY <2>3, <3>1 DEF Appending
  <2>6. CASE AppendPresent(p) \/ AppendCommit(p)
    <3>1. pc'[p] # "idle"
      BY <1>3 DEF Dispatching, Appending
    <3>2. goal[p] = "dispatch_identified" /\ pc[p] = "cas" /\ pc'[p] = "record" /\ bill'[p] = bill[p] /\ spent' = spent
      BY <2>1, <2>6, <3>1, AfterAppend
    <3> QED BY <1>0, <2>1, <3>2 DEF Found, HasBill, Appending
  <2>7. CASE RecordCheck(p) \/ RecordAdd(p) \/ RecordFails(p)
    <3>1. HasBill(p) /\ bill[p].status \in DOMAIN SettlesAs /\ spent' = spent
      BY <1>0, <2>7 DEF RecordCheck, RecordAdd, RecordFails, HasBill, Controlled, provider
    <3>2. CASE Settle(p, "billing_unknown")
      <4>1. pc'[p] = "append" /\ goal'[p] = "billing_unknown"
        BY <1>0, <3>2 DEF Settle, Append1, Goto, CallType
      <4> QED BY <4>1 DEF Found, HasBill, Appending
    <3>3. CASE Settle(p, SettlesAs[bill[p].status]) /\ costs'[held[p]] # <<>>
      <4>1. pc'[p] = "append" /\ goal'[p] = SettlesAs[bill[p].status]
        BY <1>0, <3>3 DEF Settle, Append1, Goto, CallType
      <4>2. goal'[p] # "dispatch_identified" /\ (goal'[p] = "released" => bill[p].status = "free")
        BY <3>1, <4>1 DEF SettlesAs
      <4> QED BY <1>0, <2>1, <3>1, <3>3, <4>1, <4>2 DEF Found, HasBill, Appending
    <3>4. CASE RecordCheck(p) /\ Goto(p, "add") /\ bill' = bill
      <4>1. pc'[p] = "add"
        BY <1>0, <3>4 DEF Goto, CallType
      <4> QED BY <1>0, <2>1, <3>1, <3>4, <4>1 DEF Found, HasBill, Appending
    <3>5. RecordAdd(p) => costs'[held[p]] # <<>>
      <4>1. ASSUME RecordAdd(p) PROVE costs'[held[p]] = Append(costs[held[p]], bill[p])
        BY <1>0, <2>2, <4>1 DEF RecordAdd, StreamType
      <4>2. costs[held[p]] \in Seq(Observation)
        BY <1>0, <2>2 DEF StreamType
      <4>3. Len(Append(costs[held[p]], bill[p])) = Len(costs[held[p]]) + 1 /\ Len(costs[held[p]]) \in Nat /\ Len(<<>>) = 0
        BY <4>2
      <4> QED BY <4>1, <4>3
    <3> QED BY <2>7, <3>2, <3>3, <3>4, <3>5 DEF RecordCheck, RecordAdd, RecordFails
  <2>8. CASE Returns(p)
    <3>1. ~Crash(p)
      BY <1>0, <1>3 DEF Crash, Finish, Goto, CallType, Dispatching, Appending
    <3>2. pc[p] = "call" /\ spent[held[p]] = 0
      BY <1>0, <2>8, <3>1 DEF Returns, ReturnBilled, ReturnUnresolved, ReturnUndispatched, Found
    <3>3. CASE ReturnUnresolved(p)
      <4>1. pc'[p] = "append" /\ goal'[p] = "billing_unknown"
        BY <1>0, <3>3 DEF ReturnUnresolved, Append1, Goto, CallType
      <4> QED BY <4>1 DEF Found, HasBill, Appending
    <3>4. CASE ReturnUndispatched(p)
      <4>1. pc'[p] = "append" /\ goal'[p] = "released" /\ spent' = spent
        BY <1>0, <3>4 DEF ReturnUndispatched, Append1, Goto, CallType, provider
      <4> QED BY <2>1, <3>2, <4>1 DEF Found, HasBill, Appending
    <3>5. ASSUME NEW status \in {"charged", "free", "unknown"}, NEW c \in Charge \cup {0},
                 ReturnBilled(p, status, c)
          PROVE  Found(p)'
      <4>1. bill'[p].status = status /\ (status = "free" => spent' = spent)
        BY <1>0, <3>5 DEF ReturnBilled, CallType
      <4>2. pc'[p] = "record" \/ (pc'[p] = "append" /\ goal'[p] = "dispatch_identified")
        BY <1>0, <3>5 DEF ReturnBilled, Append1, Goto, CallType
      <4> QED BY <2>1, <3>2, <4>1, <4>2 DEF Found, HasBill, Appending
    <3> QED BY <2>8, <3>1, <3>3, <3>4, <3>5 DEF Returns
  <2>9. ASSUME pc'[p] \in {"idle", "list", "commit"} PROVE FALSE
    BY <1>3, <2>9 DEF Dispatching, Appending
  <2>10. ASSUME NEW r, Granted(p, r) PROVE FALSE
    BY <1>0, <1>3, <2>10 DEF Granted, Append1, Goto, CallType, Dispatching, Appending, Terminal
  <2>11. ~ \E r \in Res : Commit(p, r) \/ Abandon(p, r)
    BY <1>0, <1>3, <2>10 DEF Commit, Abandon, Append1, Goto, CallType, Dispatching, Appending, Terminal
  <2>12. ~(ListCosts(p) \/ CommitConflict(p) \/ AppendClash(p))
    BY <1>0, <2>9 DEF ListCosts, CommitConflict, AppendClash, Finish, Goto, CallType
  <2>13. ~ \E e \in Effect : \E a \in Amount[e] : ReserveKnown(p, e, a) \/ ReserveNew(p, e, a)
    BY <1>0, <2>9, <2>10 DEF ReserveKnown, ReserveNew, Goto, CallType
  <2> QED
    BY <2>4, <2>5, <2>6, <2>7, <2>8, <2>11, <2>12, <2>13 DEF Reads, Appends
<1> QED BY <1>1, <1>2, <1>3

LEMMA ChargeStep ==
  ~Releasing /\ Inductive /\ OnceInv /\ DispatchInv /\ ChargeInv /\ [Next]_vars => ChargeInv'
<1> SUFFICES ASSUME ~Releasing, Inductive, OnceInv, DispatchInv, ChargeInv, [Next]_vars
             PROVE  ChargeInv'
  OBVIOUS
<1>0. CallType /\ ControlInv /\ StreamType /\ StreamInv
  BY DEF Inductive, TypeOK
<1>1. CASE UNCHANGED vars
  BY <1>1 DEF vars, stream, call, provider, ChargeInv, HasBill, Appending
<1>2. ASSUME NEW p \in Proc, Reads(p) \/ Returns(p) \/ Appends(p), NEW q \in Proc \ {p}
      PROVE  Found(q)'
  <2>1. Untouched(q) /\ Found(q) /\ Controlled(q)
    BY <1>0, <1>2, OneAtATime DEF ChargeInv, Found, ControlInv
  <2>2. Dispatching(q) => held[q] \in Res /\ spent'[held[q]] = spent[held[q]]
    <3> SUFFICES ASSUME Dispatching(q) PROVE held[q] \in Res /\ spent'[held[q]] = spent[held[q]]
      OBVIOUS
    <3>1. held[q] \in Res
      BY <2>1 DEF Controlled, Dispatching, Appending
    <3>2. CASE pc[p] = "call" /\ spent' = [spent EXCEPT ![held[p]] = @ + 1]
      <4>1. held[p] # held[q]
        BY <3>2 DEF DispatchInv, Dispatching
      <4> QED BY <1>0, <3>1, <3>2, <4>1 DEF StreamType
    <3> QED BY <1>2, <3>1, <3>2, SpentGrows
  <2>3. Appending(q) => held[q] \in Res /\ (costs[held[q]] # <<>> => costs'[held[q]] # <<>>)
    BY <1>0, <1>2, <2>1, CostsGrow DEF Controlled, Appending
  <2> QED BY <2>1, <2>2, <2>3 DEF Untouched, Found, HasBill, Appending, Dispatching, Terminal
<1>3. ASSUME NEW p \in Proc, Reads(p) \/ Returns(p) \/ Appends(p), NEW r \in Res
      PROVE  /\ spent'[r] <= 1
             /\ spent'[r] = 1 => Has(history'[r], "dispatch_prepared") /\ ~Has(history'[r], "released")
             /\ Has(history'[r], "settled") => costs'[r] # <<>>
  <2>1. CASE spent'[r] # spent[r]
    <3>1. pc[p] = "call" /\ held[p] = r /\ spent' = [spent EXCEPT ![r] = spent[r] + 1] /\ UNCHANGED stream
      BY <1>0, <1>3, <2>1, SpentGrows DEF StreamType
    <3>2. Has(history[r], "dispatch_prepared") /\ ~Over(history[r]) /\ spent[r] = 0
      BY <3>1 DEF DispatchInv, Dispatching, ChargeInv
    <3>3. spent'[r] = 1
      BY <1>0, <3>1, <3>2 DEF StreamType
    <3> QED BY <3>1, <3>2, <3>3, OverHas DEF stream
  <2>2. CASE spent'[r] = spent[r]
    <3>1. CASE history'[r] = history[r]
      BY <1>0, <1>3, <2>2, <3>1, CostsGrow DEF ChargeInv
    <3>2. ASSUME NEW s \in Res, Commit(p, s), s = r
          PROVE  spent'[r] <= 1 /\ spent'[r] # 1 /\ ~Has(history'[r], "settled")
      <4> DEFINE first == [kind |-> "reserved", at |-> Instant[p]]
      <4>1. history[r] = <<>> /\ history'[r] = <<first>>
        BY <1>0, <3>2, Reserved
      <4>2. Len(<<>>) = 0 /\ Len(<<first>>) = 1 /\ <<first>>[1].kind = "reserved"
        OBVIOUS
      <4>3. ~Has(history[r], "dispatch_prepared") /\ ~Has(history'[r], "settled")
        BY <4>1, <4>2 DEF Has
      <4> QED BY <2>2, <4>3 DEF ChargeInv
    <3>3. CASE AppendCommit(p) /\ held[p] = r
      <4>1. /\ history[r] \in Seq(Transition) /\ Proposed(p) \in Transition
            /\ Proposed(p).kind = goal[p] /\ history'[r] = Append(history[r], Proposed(p))
        BY <1>0, <3>3, Committed DEF StreamType
      <4>2. Appending(p)
        BY <3>3 DEF AppendCommit, Appending
      <4>3. \A kind : Has(history'[r], kind) <=> Has(history[r], kind) \/ goal[p] = kind
        BY <4>1, AppendedHas
      <4>4. spent'[r] = 1 => goal[p] # "released"
        <5>1. goal[p] = "released" => spent[held[p]] = 0
          BY <4>2 DEF ChargeInv
        <5> QED BY <2>2, <3>3, <5>1
      <4>5. goal[p] = "settled" => costs[r] # <<>>
        BY <3>3, <4>2 DEF ChargeInv
      <4>6. costs[r] # <<>> => costs'[r] # <<>>
        BY <1>0, <1>3, CostsGrow
      <4> QED BY <2>2, <4>3, <4>4, <4>5, <4>6 DEF ChargeInv
    <3>4. CASE UNCHANGED stream
      BY <3>1, <3>4 DEF stream
    <3>5. ASSUME NEW s \in Res, Commit(p, s), s # r PROVE history'[r] = history[r]
      BY <1>0, <3>5, Reserved
    <3>6. AppendCommit(p) /\ held[p] # r => history'[r] = history[r]
      BY <1>0, Committed
    <3> QED BY <1>3, <3>1, <3>2, <3>3, <3>4, <3>5, <3>6, StreamStep
  <2> QED BY <2>1, <2>2
<1>4. ASSUME NEW p \in Proc, Reads(p) \/ Returns(p) \/ Appends(p) PROVE ChargeInv'
  <2>1. \A q \in Proc : Found(q)'
    BY <1>2, <1>4, FoundStep
  <2> QED BY <1>3, <1>4, <2>1 DEF ChargeInv, Found
<1> QED BY <1>1, <1>4, Steps

(* No charge disappears: what a provider charged is on record under a       *)
(* settled reservation, or its reservation still holds the authorization.   *)
THEOREM NoChargeLost == InstantsDiffer /\ ~Releasing /\ Spec => []ChargeAccounted
<1> SUFFICES ASSUME InstantsDiffer, ~Releasing PROVE Spec => []ChargeAccounted
  OBVIOUS
<1>1. Init => OnceInv /\ DispatchInv /\ ChargeInv
  <2>1. Len(<<>>) = 0
    OBVIOUS
  <2> QED BY <2>1 DEF Init, OnceInv, DispatchInv, Dispatching, Appending, ChargeInv, HasBill, Has
<1>2. Inductive /\ OnceInv /\ DispatchInv /\ ChargeInv /\ [Next]_vars => OnceInv' /\ DispatchInv' /\ ChargeInv'
  BY OnceStep, DispatchStep, ChargeStep
<1>3. Inductive /\ ChargeInv => ChargeAccounted
  <2> SUFFICES ASSUME Inductive, ChargeInv, NEW r \in Res, spent[r] > 0
               PROVE  Active(history[r]) \/ (Status(history[r]) = "settled" /\ Len(costs[r]) >= spent[r])
    BY DEF ChargeAccounted
  <2>1. history[r] \in Seq(Transition) /\ WellFormed(history[r]) /\ costs[r] \in Seq(Observation)
    BY DEF Inductive, TypeOK, StreamType, StreamInv
  <2>2. spent[r] = 1
    BY DEF ChargeInv, Inductive, TypeOK, StreamType
  <2>3. Has(history[r], "dispatch_prepared") /\ ~Has(history[r], "released")
    BY <2>2 DEF ChargeInv
  <2>4. history[r] # <<>>
    <3>1. Len(<<>>) = 0
      OBVIOUS
    <3> QED BY <2>3, <3>1 DEF Has
  <2>5. CASE ~Over(history[r])
    BY <2>1, <2>4, <2>5, NotOverIsActive
  <2>6. CASE Over(history[r])
    <3>1. LastKind(history[r]) \in Terminal /\ Status(history[r]) = LastKind(history[r])
      BY <2>1, <2>6, LastIsFinal
    <3>2. Len(history[r]) \in 1 .. Len(history[r])
      BY <2>1, <2>4
    <3>3. Has(history[r], LastKind(history[r]))
      BY <2>4, <3>2 DEF Has, LastKind
    <3>4. LastKind(history[r]) = "settled" /\ Has(history[r], "settled")
      BY <2>3, <3>1, <3>3 DEF Terminal
    <3>5. costs[r] # <<>>
      BY <3>4 DEF ChargeInv
    <3>6. Len(costs[r]) >= 1
      BY <2>1, <3>5
    <3> QED BY <2>2, <3>1, <3>4, <3>6
  <2> QED BY <2>5, <2>6
<1> QED BY <1>1, <1>2, <1>3, InductiveHolds, PTL DEF Spec

-----------------------------------------------------------------------------
(* Induction over the naturals, from the least element of a set of them.    *)
LEMMA Least ==
  ASSUME NEW S \in SUBSET Nat, S # {}
  PROVE  \E n \in S : \A m \in S : n <= m
<1>1. IsWellFoundedOn(OpToRel(<, Nat), Nat)
  BY NatLessThanWellFounded
<1>2. \E x \in S : \A y \in S : <<y, x>> \notin OpToRel(<, Nat)
  BY <1>1, WFMin
<1>3. \A x, y \in Nat : <<y, x>> \in OpToRel(<, Nat) <=> y < x
  BY DEF OpToRel
<1>4. \E x \in S : \A y \in S : ~ (y < x)
  BY <1>2, <1>3, Zenon
<1> QED BY <1>4

LEMMA Induction ==
  ASSUME NEW S, 0 \in S, \A n \in Nat : n \in S => n + 1 \in S
  PROVE  Nat \subseteq S
<1> SUFFICES ASSUME Nat \ S # {} PROVE FALSE
  OBVIOUS
<1>1. PICK n \in Nat \ S : \A m \in Nat \ S : n <= m
  BY Least
<1>2. n # 0 /\ n - 1 \in Nat /\ n - 1 \notin Nat \ S
  BY <1>1
<1> QED BY <1>1, <1>2

(* The same over the subsets of a finite set. *)
LEMMA SubsetInduction ==
  ASSUME NEW S, IsFiniteSet(S), NEW T,
         {} \in T,
         \A t \in SUBSET S : t # {} /\ (\A x \in t : t \ {x} \in T) => t \in T
  PROVE  SUBSET S \subseteq T
<1> DEFINE N == {n \in Nat : \A t \in SUBSET S : Cardinality(t) = n => t \in T}
<1>1. \A t \in SUBSET S : IsFiniteSet(t) /\ Cardinality(t) \in Nat
  BY FS_Subset, FS_CardinalityType
<1>2. 0 \in N
  BY <1>1, FS_EmptySet
<1>3. ASSUME NEW n \in Nat, n \in N PROVE n + 1 \in N
  <2> SUFFICES ASSUME NEW t \in SUBSET S, Cardinality(t) = n + 1 PROVE t \in T
    OBVIOUS
  <2>1. t # {}
    BY FS_EmptySet, <1>3
  <2>2. ASSUME NEW x \in t PROVE t \ {x} \in T
    <3>1. Cardinality(t \ {x}) = n
      BY <1>1, FS_RemoveElement, <1>3
    <3> QED BY <1>3, <3>1
  <2> QED BY <2>1, <2>2
<1>4. Nat \subseteq N
  <2> HIDE DEF N
  <2> QED BY <1>2, <1>3, Induction
<1> QED BY <1>1, <1>4

Pick(t) == CHOOSE x \in t : TRUE

(* s[t] is the sum of f over t. *)
Sums(s, f, S) ==
  s = [t \in SUBSET S |-> IF t = {} THEN 0 ELSE f[Pick(t)] + s[t \ {Pick(t)}]]

LEMMA Picked == \A t : t # {} => Pick(t) \in t
BY DEF Pick

LEMMA SumAt ==
  ASSUME NEW S, NEW f, NEW s, Sums(s, f, S)
  PROVE  /\ s[{}] = 0
         /\ \A t \in SUBSET S : t # {} =>
              /\ Pick(t) \in t /\ t \ {Pick(t)} \in SUBSET S
              /\ s[t] = f[Pick(t)] + s[t \ {Pick(t)}]
<1>1. \A t \in SUBSET S : s[t] = IF t = {} THEN 0 ELSE f[Pick(t)] + s[t \ {Pick(t)}]
  BY DEF Sums
<1>2. {} \in SUBSET S
  OBVIOUS
<1> QED BY <1>1, <1>2, Picked

LEMMA SumType ==
  ASSUME NEW S, IsFiniteSet(S), NEW f \in [S -> Nat], NEW s, Sums(s, f, S)
  PROVE  \A t \in SUBSET S : s[t] \in Nat
<1> DEFINE T == {t \in SUBSET S : s[t] \in Nat}
<1>1. {} \in T
  BY SumAt
<1>2. ASSUME NEW t \in SUBSET S, t # {}, \A x \in t : t \ {x} \in T PROVE t \in T
  <2>1. Pick(t) \in t /\ s[t] = f[Pick(t)] + s[t \ {Pick(t)}]
    BY <1>2, SumAt
  <2>2. f[Pick(t)] \in Nat /\ s[t \ {Pick(t)}] \in Nat
    BY <1>2, <2>1
  <2> QED BY <2>1, <2>2
<1>3. SUBSET S \subseteq T
  <2> HIDE DEF T
  <2> QED BY <1>1, <1>2, SubsetInduction
<1> QED BY <1>3

LEMMA SumExists ==
  ASSUME NEW S, IsFiniteSet(S), NEW f \in [S -> Nat]
  PROVE  \E s : Sums(s, f, S)
<1> DEFINE Small(n) == {t \in SUBSET S : Cardinality(t) <= n}
           Upto(s, n) == \A t \in Small(n) :
                           s[t] = IF t = {} THEN 0 ELSE f[Pick(t)] + s[t \ {Pick(t)}]
           N == {n \in Nat : \E s \in [Small(n) -> Nat] : Upto(s, n)}
<1>1. \A t \in SUBSET S : IsFiniteSet(t) /\ Cardinality(t) \in Nat /\ Cardinality(t) <= Cardinality(S)
  BY FS_Subset, FS_CardinalityType
<1>2. \A t \in SUBSET S : Cardinality(t) = 0 <=> t = {}
  BY <1>1, FS_EmptySet
<1>3. 0 \in N
  <2> DEFINE s == [t \in Small(0) |-> 0]
  <2>1. \A t \in Small(0) : t = {}
    BY <1>1, <1>2
  <2>2. s \in [Small(0) -> Nat] /\ Upto(s, 0)
    BY <2>1
  <2> QED BY <2>2
<1>4. ASSUME NEW n \in Nat, n \in N PROVE n + 1 \in N
  <2>1. PICK s \in [Small(n) -> Nat] : Upto(s, n)
    BY <1>4
  <2> DEFINE r == [t \in Small(n + 1) |-> IF t \in Small(n) THEN s[t] ELSE f[Pick(t)] + s[t \ {Pick(t)}]]
  <2>2. ASSUME NEW t \in Small(n + 1), t # {}
        PROVE  Pick(t) \in S /\ t \ {Pick(t)} \in Small(n)
    <3>1. Pick(t) \in t /\ IsFiniteSet(t)
      BY <1>1, <2>2, Picked
    <3>2. Cardinality(t \ {Pick(t)}) = Cardinality(t) - 1
      BY <3>1, FS_RemoveElement
    <3> QED BY <1>1, <3>1, <3>2
  <2>3. {} \in Small(n)
    BY <1>1, <1>2
  <2>4. r \in [Small(n + 1) -> Nat]
    <3>1. ASSUME NEW t \in Small(n + 1) PROVE r[t] \in Nat
      <4>1. CASE t \in Small(n)
        BY <4>1
      <4>2. CASE t \notin Small(n)
        <5>1. t # {}
          BY <2>3, <4>2
        <5>2. f[Pick(t)] \in Nat /\ s[t \ {Pick(t)}] \in Nat
          BY <2>2, <5>1
        <5> QED BY <4>2, <5>2
      <4> QED BY <4>1, <4>2
    <3> QED BY <3>1
  <2>5. \A t \in Small(n) : t \in Small(n + 1) /\ r[t] = s[t]
    BY <1>1
  <2>6. Upto(r, n + 1)
    BY <2>1, <2>2, <2>3, <2>5
  <2>7. \E q \in [Small(n + 1) -> Nat] : Upto(q, n + 1)
    BY <2>4, <2>6
  <2> HIDE DEF Upto, Small
  <2> QED BY <2>7
<1>5. Cardinality(S) \in N
  <2>1. Nat \subseteq N
    <3> HIDE DEF N
    <3> QED BY <1>3, <1>4, Induction
  <2> QED BY <2>1, FS_CardinalityType
<1>6. Small(Cardinality(S)) = SUBSET S
  BY <1>1
<1>7. PICK s \in [SUBSET S -> Nat] : \A t \in SUBSET S :
        s[t] = IF t = {} THEN 0 ELSE f[Pick(t)] + s[t \ {Pick(t)}]
  BY <1>5, <1>6
<1> QED BY <1>7 DEF Sums

LEMMA SumBound ==
  ASSUME NEW S, IsFiniteSet(S),
         NEW f \in [S -> Nat], NEW g \in [S -> Nat], NEW h \in [S -> Nat],
         NEW s, NEW u, NEW v, Sums(s, f, S), Sums(u, g, S), Sums(v, h, S),
         \A x \in S : f[x] <= g[x] + h[x]
  PROVE  s[S] <= u[S] + v[S]
<1> DEFINE T == {t \in SUBSET S : s[t] <= u[t] + v[t]}
<1>1. {} \in T
  BY SumAt
<1>2. ASSUME NEW t \in SUBSET S, t # {}, \A x \in t : t \ {x} \in T PROVE t \in T
  <2> DEFINE x == Pick(t)
             w == t \ {x}
  <2>1. x \in S /\ w \in SUBSET S /\ w \in T
    BY <1>2, SumAt
  <2>21. s[t] = f[x] + s[w]
    BY <1>2, SumAt
  <2>22. u[t] = g[x] + u[w]
    BY <1>2, SumAt
  <2>23. v[t] = h[x] + v[w]
    BY <1>2, SumAt
  <2>2. s[t] = f[x] + s[w] /\ u[t] = g[x] + u[w] /\ v[t] = h[x] + v[w]
    BY <2>21, <2>22, <2>23
  <2>3. s[w] \in Nat /\ u[w] \in Nat /\ v[w] \in Nat /\ f[x] \in Nat /\ g[x] \in Nat /\ h[x] \in Nat
    BY <2>1, SumType
  <2>4. s[w] <= u[w] + v[w] /\ f[x] <= g[x] + h[x]
    BY <2>1
  <2> HIDE DEF x, w
  <2> QED BY <2>2, <2>3, <2>4
<1>3. SUBSET S \subseteq T
  <2> HIDE DEF T
  <2> QED BY <1>1, <1>2, SubsetInduction
<1> QED BY <1>3

LEMMA SumAlone ==
  ASSUME NEW S, IsFiniteSet(S), NEW r, NEW a \in Nat, NEW s,
         Sums(s, [x \in S |-> IF x = r THEN a ELSE 0], S)
  PROVE  s[S] <= a
<1> DEFINE f == [x \in S |-> IF x = r THEN a ELSE 0]
           T == {t \in SUBSET S : s[t] <= a /\ (r \notin t => s[t] = 0)}
<1>0. f \in [S -> Nat]
  OBVIOUS
<1>1. {} \in T
  BY SumAt
<1>2. ASSUME NEW t \in SUBSET S, t # {}, \A x \in t : t \ {x} \in T PROVE t \in T
  <2> DEFINE x == Pick(t)
             w == t \ {x}
  <2>1. x \in t /\ x \in S /\ w \in SUBSET S /\ w \in T /\ s[t] = f[x] + s[w]
    BY <1>2, SumAt
  <2>2. s[w] \in Nat
    BY <1>0, <2>1, SumType
  <2>3. CASE x = r
    BY <2>1, <2>2, <2>3
  <2>4. CASE x # r
    BY <2>1, <2>2, <2>4
  <2> QED BY <2>3, <2>4
<1>3. SUBSET S \subseteq T
  <2> HIDE DEF T
  <2> QED BY <1>1, <1>2, SubsetInduction
<1> QED BY <1>3


(* The sums of availableAuthorization.                                      *)
LEMMA DrawIsSum ==
  ASSUME StreamType
  PROVE  \A r \in Res : Draw(r) \in Nat
<1> SUFFICES ASSUME NEW r \in Res PROVE Draw(r) \in Nat
  OBVIOUS
<1> DEFINE S == DOMAIN costs[r]
           f == [i \in S |-> costs[r][i].draw]
           Rec(s) == s = [t \in SUBSET S |-> IF t = {} THEN 0
                            ELSE costs[r][CHOOSE x \in t : TRUE].draw + s[t \ {CHOOSE x \in t : TRUE}]]
           It == CHOOSE s : Rec(s)
<1>1. IsFiniteSet(S) /\ f \in [S -> Nat]
  <2>1. costs[r] \in Seq(Observation) /\ S = 1 .. Len(costs[r]) /\ Len(costs[r]) \in Nat
    BY DEF StreamType
  <2>2. IsFiniteSet(S)
    BY <2>1, FS_Interval
  <2>3. \A i \in S : costs[r][i].draw \in Nat
    <3>1. \A i \in S : costs[r][i] \in Observation
      BY <2>1
    <3>2. Charge \cup {0} \subseteq Nat
      BY MoneyAssumption
    <3>3. \A o \in Observation : o.draw \in Nat
      BY <3>2 DEF Observation
    <3> QED BY <3>1, <3>3
  <2> HIDE DEF S
  <2> QED BY <2>2, <2>3
<1>2. Draw(r) = It[S]
  BY DEF Draw, MapThenSumSet, MapThenFoldSet
<1>3. PICK s : Sums(s, f, S)
  BY <1>1, SumExists
<1>4. \A g : Sums(g, f, S) <=> Rec(g)
  BY Picked DEF Sums, Pick
<1>5. Sums(It, f, S)
  <2> HIDE DEF Rec, f, S
  <2>1. Rec(It)
    BY <1>3, <1>4
  <2> QED BY <1>4, <2>1
<1>6. It[S] \in Nat
  <2> HIDE DEF It, f, S
  <2> QED BY <1>1, <1>5, SumType
<1> QED BY <1>2, <1>6
LEMMA AmountsAreNat ==
  ASSUME StreamType
  PROVE  \A r \in Res :
           /\ terms[r].amount \in Nat /\ Draw(r) \in Nat
           /\ ReservedAmount(r) \in Nat /\ Authorized(r) \in Nat
           /\ Authorized(r) <= Draw(r) + ReservedAmount(r)
<1> SUFFICES ASSUME NEW r \in Res
             PROVE  /\ terms[r].amount \in Nat /\ Draw(r) \in Nat
                    /\ ReservedAmount(r) \in Nat /\ Authorized(r) \in Nat
                    /\ Authorized(r) <= Draw(r) + ReservedAmount(r)
  OBVIOUS
<1>1. terms[r].amount \in Nat
  <2>1. terms[r] \in Request \cup {NoTerms}
    BY DEF StreamType
  <2>2. \A x \in Request : x.amount \in Nat
    BY MoneyAssumption DEF Request
  <2> QED BY <2>1, <2>2 DEF NoTerms
<1>2. Draw(r) \in Nat
  BY DrawIsSum
<1> QED BY <1>1, <1>2 DEF ReservedAmount, Authorized

LEMMA ReservedSum ==
  StreamType => \E s : Sums(s, [r \in Res |-> ReservedAmount(r)], Res) /\ MapThenSumSet(ReservedAmount, Res) = s[Res]
<1> SUFFICES ASSUME StreamType
             PROVE  \E s : Sums(s, [r \in Res |-> ReservedAmount(r)], Res) /\ MapThenSumSet(ReservedAmount, Res) = s[Res]
  OBVIOUS
<1> DEFINE f == [r \in Res |-> ReservedAmount(r)]
           Rec(s) == s = [t \in SUBSET Res |-> IF t = {} THEN 0
                            ELSE ReservedAmount(CHOOSE x \in t : TRUE) + s[t \ {CHOOSE x \in t : TRUE}]]
           It == CHOOSE s : Rec(s)
<1>1. f \in [Res -> Nat]
  BY AmountsAreNat
<1>2. MapThenSumSet(ReservedAmount, Res) = It[Res]
  BY DEF MapThenSumSet, MapThenFoldSet
<1>3. PICK s : Sums(s, f, Res)
  BY <1>1, SumExists, ResAssumption
<1>4. \A g : Sums(g, f, Res) <=> Rec(g)
  BY Picked DEF Sums, Pick
<1>5. Sums(It, f, Res)
  <2> HIDE DEF Rec, f
  <2>1. Rec(It)
    BY <1>3, <1>4
  <2> QED BY <1>4, <2>1
<1> QED BY <1>2, <1>5

LEMMA AuthorizedSum ==
  StreamType => \E s : Sums(s, [r \in Res |-> Authorized(r)], Res) /\ MapThenSumSet(Authorized, Res) = s[Res]
<1> SUFFICES ASSUME StreamType
             PROVE  \E s : Sums(s, [r \in Res |-> Authorized(r)], Res) /\ MapThenSumSet(Authorized, Res) = s[Res]
  OBVIOUS
<1> DEFINE f == [r \in Res |-> Authorized(r)]
           Rec(s) == s = [t \in SUBSET Res |-> IF t = {} THEN 0
                            ELSE Authorized(CHOOSE x \in t : TRUE) + s[t \ {CHOOSE x \in t : TRUE}]]
           It == CHOOSE s : Rec(s)
<1>1. f \in [Res -> Nat]
  BY AmountsAreNat
<1>2. MapThenSumSet(Authorized, Res) = It[Res]
  BY DEF MapThenSumSet, MapThenFoldSet
<1>3. PICK s : Sums(s, f, Res)
  BY <1>1, SumExists, ResAssumption
<1>4. \A g : Sums(g, f, Res) <=> Rec(g)
  BY Picked DEF Sums, Pick
<1>5. Sums(It, f, Res)
  <2> HIDE DEF Rec, f
  <2>1. Rec(It)
    BY <1>3, <1>4
  <2> QED BY <1>4, <2>1
<1> QED BY <1>2, <1>5

LEMMA DrawSum ==
  StreamType => \E s : Sums(s, [r \in Res |-> Draw(r)], Res) /\ MapThenSumSet(Draw, Res) = s[Res]
<1> SUFFICES ASSUME StreamType
             PROVE  \E s : Sums(s, [r \in Res |-> Draw(r)], Res) /\ MapThenSumSet(Draw, Res) = s[Res]
  OBVIOUS
<1> DEFINE f == [r \in Res |-> Draw(r)]
           Rec(s) == s = [t \in SUBSET Res |-> IF t = {} THEN 0
                            ELSE Draw(CHOOSE x \in t : TRUE) + s[t \ {CHOOSE x \in t : TRUE}]]
           It == CHOOSE s : Rec(s)
<1>1. f \in [Res -> Nat]
  BY AmountsAreNat
<1>2. MapThenSumSet(Draw, Res) = It[Res]
  BY DEF MapThenSumSet, MapThenFoldSet
<1>3. PICK s : Sums(s, f, Res)
  BY <1>1, SumExists, ResAssumption
<1>4. \A g : Sums(g, f, Res) <=> Rec(g)
  BY Picked DEF Sums, Pick
<1>5. Sums(It, f, Res)
  <2> HIDE DEF Rec, f
  <2>1. Rec(It)
    BY <1>3, <1>4
  <2> QED BY <1>4, <2>1
<1> QED BY <1>2, <1>5

(* What the grant has authorized; a step raises it by at most what it adds   *)
(* to one reservation.                                                      *)
Total == MapThenSumSet(Authorized, Res)

TotalIsSum == \E s : Sums(s, [r \in Res |-> Authorized(r)], Res) /\ Total = s[Res]

AuthorizedAreNat ==
  \A r \in Res : Authorized(r) \in Nat /\ Draw(r) \in Nat /\ terms[r].amount \in Nat

LEMMA TotalStands == StreamType => TotalIsSum /\ AuthorizedAreNat
BY AuthorizedSum, AmountsAreNat DEF TotalIsSum, Total, AuthorizedAreNat

LEMMA TotalRises ==
  ASSUME StreamType, StreamType', NEW r, NEW a \in Nat,
         \A x \in Res : Authorized(x)' <= Authorized(x) + (IF x = r THEN a ELSE 0)
  PROVE  Total \in Nat /\ Total' \in Nat /\ Total' <= Total + a
<1>1. StreamType' => TotalIsSum' /\ AuthorizedAreNat'
  BY TotalStands, PTL
<1>2. TotalIsSum /\ TotalIsSum'
  BY <1>1, TotalStands
<1>3. \A x \in Res : Authorized(x) \in Nat
  BY TotalStands DEF AuthorizedAreNat
<1>4. \A x \in Res : Authorized(x)' \in Nat
  BY <1>1 DEF AuthorizedAreNat
<1> DEFINE f == [x \in Res |-> Authorized(x)]
           g == [x \in Res |-> Authorized(x)']
           h == [x \in Res |-> IF x = r THEN a ELSE 0]
<1>6. f \in [Res -> Nat] /\ g \in [Res -> Nat] /\ h \in [Res -> Nat]
  BY <1>3, <1>4
<1>7. PICK s : Sums(s, f, Res) /\ Total = s[Res]
  BY <1>2 DEF TotalIsSum
<1>8. PICK t : Sums(t, g, Res) /\ Total' = t[Res]
  BY <1>2 DEF TotalIsSum
<1>9. PICK u : Sums(u, h, Res)
  BY <1>6, SumExists, ResAssumption
<1>10. u[Res] <= a
  BY <1>9, SumAlone, ResAssumption
<1>11. \A x \in Res : g[x] <= f[x] + h[x]
  OBVIOUS
<1> HIDE DEF f, g, h
<1>12. s[Res] \in Nat /\ t[Res] \in Nat /\ u[Res] \in Nat
  BY <1>6, <1>7, <1>8, <1>9, SumType, ResAssumption
<1>13. t[Res] <= s[Res] + u[Res]
  BY <1>6, <1>7, <1>8, <1>9, <1>11, SumBound, ResAssumption
<1> QED BY <1>7, <1>8, <1>10, <1>12, <1>13

LEMMA FitsIsEnough ==
  ASSUME StreamType, NEW a \in Nat, Fits(a)
  PROVE  Total \in Nat /\ a + Total <= MaxTotal
<1> DEFINE f == [r \in Res |-> Authorized(r)]
           g == [r \in Res |-> Draw(r)]
           h == [r \in Res |-> ReservedAmount(r)]
<1>1. PICK s : Sums(s, f, Res) /\ Total = s[Res]
  BY AuthorizedSum DEF Total
<1>2. PICK u : Sums(u, g, Res) /\ Consumed = u[Res]
  BY DrawSum DEF Consumed, Draw
<1>3. PICK v : Sums(v, h, Res) /\ MapThenSumSet(ReservedAmount, Res) = v[Res]
  BY ReservedSum
<1>4. f \in [Res -> Nat] /\ g \in [Res -> Nat] /\ h \in [Res -> Nat]
  BY AmountsAreNat
<1>5. \A r \in Res : f[r] <= g[r] + h[r]
  BY AmountsAreNat
<1> HIDE DEF f, g, h
<1>6. s[Res] \in Nat /\ u[Res] \in Nat /\ v[Res] \in Nat
  BY <1>1, <1>2, <1>3, <1>4, SumType, ResAssumption
<1>7. s[Res] <= u[Res] + v[Res]
  BY <1>1, <1>2, <1>3, <1>4, <1>5, SumBound, ResAssumption
<1>8. a + u[Res] + v[Res] <= MaxTotal
  BY <1>2, <1>3 DEF Fits
<1> QED BY <1>1, <1>6, <1>7, <1>8, MoneyAssumption

-----------------------------------------------------------------------------
(* What a process about to commit knows as long as its revision is current:  *)
(* costs may have been recorded since it listed them, but only under         *)
(* reservations that still hold their whole authorization.                   *)
HeadroomInv ==
  \A p \in Proc : pc[p] = "commit" /\ rev[p] = revision => request[p].amount + Total <= MaxTotal

MoneyInv == Total \in Nat /\ Total <= MaxTotal /\ HeadroomInv

Drawn(records) == MapThenSumSet(LAMBDA i : records[i].draw, DOMAIN records)

DrawsFollow == \A r : Draw(r) = Drawn(costs[r])

LEMMA DrawIsOfRecords == DrawsFollow
BY DEF Draw, Drawn, DrawsFollow

LEMMA CostsStep ==
  ASSUME NEW p \in Proc, Reads(p) \/ Returns(p) \/ Appends(p)
  PROVE  costs' = costs \/ (RecordAdd(p) /\ UNCHANGED stream)
BY DEF Reads, Returns, Appends, ReserveKnown, ReserveNew, ListCosts, CommitConflict, Abandon,
       AppendRead, AppendClash, AppendConflict, RecordCheck, RecordAdd, RecordFails,
       ReturnBilled, ReturnUnresolved, ReturnUndispatched, Crash, Commit, AppendPresent, AppendCommit

(* A cost is recorded under a reservation that is still active, so what it   *)
(* authorizes stays what it was.                                             *)
LEMMA AuthorizedStays ==
  ASSUME Inductive, DispatchInv, NEW p \in Proc, Reads(p) \/ Returns(p) \/ Appends(p),
         NEW r \in Res, history'[r] = history[r], terms'[r] = terms[r]
  PROVE  Authorized(r)' = Authorized(r)
<1>1. CASE costs'[r] = costs[r]
  <2>0. DrawsFollow /\ DrawsFollow'
    BY DrawIsOfRecords, PTL
  <2>1. Draw(r)' = Drawn(costs'[r]) /\ Draw(r) = Drawn(costs[r])
    BY <2>0 DEF DrawsFollow
  <2> QED BY <1>1, <2>1 DEF Authorized
<1>2. CASE RecordAdd(p) /\ r = held[p]
  <2>1. Dispatching(p)
    BY <1>2 DEF RecordAdd, Dispatching
  <2>2. history[r] \in Seq(Transition) /\ WellFormed(history[r]) /\ history[r] # <<>>
    BY <1>2 DEF RecordAdd, Inductive, TypeOK, StreamType, StreamInv, ControlInv, Controlled
  <2>3. Active(history[r])
    BY <1>2, <2>1, <2>2, NotOverIsActive DEF DispatchInv
  <2> QED BY <2>3 DEF Authorized
<1>3. RecordAdd(p) /\ r # held[p] => costs'[r] = costs[r]
  BY DEF RecordAdd, Inductive, TypeOK, StreamType
<1> QED BY <1>1, <1>2, <1>3, CostsStep

(* An append never raises what its reservation authorizes: it was active.    *)
LEMMA AppendLowers ==
  ASSUME Inductive, Inductive', NEW p \in Proc, AppendCommit(p), NEW r \in Res, r = held[p]
  PROVE  Authorized(r)' <= Authorized(r)
<1> DEFINE h == history[r]
<1>0. StreamType /\ StreamType' /\ ControlInv /\ StreamInv /\ RevisionInv
  BY DEF Inductive, TypeOK
<1>1. /\ h \in Seq(Transition) /\ WellFormed(h) /\ h # <<>> /\ Proposed(p) \in Transition
      /\ Proposed(p).kind \in Goals /\ \A i \in 1 .. Len(h) : h[i].kind # Proposed(p).kind
  <2>1. h \in Seq(Transition) /\ WellFormed(h)
    BY <1>0 DEF StreamType, StreamInv
  <2>2. Proposed(p) \in Transition /\ Proposed(p).kind = goal[p] /\ goal[p] \in Goals /\ h # <<>>
    BY <1>0, Committed
  <2>3. \A i \in 1 .. Len(h) : h[i].kind # goal[p]
    BY <1>0, Committed
  <2> QED BY <2>1, <2>2, <2>3
<1>2. IsLegalSuccessor(LastKind(h), Proposed(p).kind)
  BY <1>0, Committed DEF RevisionInv, AppendCommit
<1>3. ~Over(h)
  BY <1>1, <1>2, Extension
<1>4. Authorized(r) = terms[r].amount
  BY <1>1, <1>3, NotOverIsActive DEF Authorized
<1>5. terms'[r] = terms[r]
  BY <1>0, Committed
<1>6. AuthorizedAreNat /\ AuthorizedAreNat'
  <2>1. StreamType' => AuthorizedAreNat'
    BY TotalStands, PTL
  <2> QED BY <1>0, <2>1, TotalStands
<1>7. Authorized(r)' <= terms'[r].amount
  BY <1>6 DEF Authorized, AuthorizedAreNat
<1> QED BY <1>4, <1>5, <1>7

LEMMA OnlyListLeadsToCommit ==
  ASSUME CallType, NEW p \in Proc, Reads(p) \/ Returns(p) \/ Appends(p), pc'[p] = "commit"
  PROVE  ListCosts(p) /\ ~Finish(p)
<1>1. ASSUME NEW r, NEW kind, Append1(p, r, kind) PROVE FALSE
  BY <1>1 DEF Append1, Goto, CallType
<1>2. ASSUME NEW l \in {"idle", "list", "cas", "call", "record", "add"}, Goto(p, l) PROVE FALSE
  BY <1>2 DEF Goto, CallType
<1>3. Appends(p) => FALSE
  BY <1>1, <1>2 DEF Appends, Commit, Granted, AppendPresent, AppendCommit, Appended, Proceed, Finish
<1>4. Returns(p) => FALSE
  BY <1>1, <1>2 DEF Returns, ReturnBilled, ReturnUnresolved, ReturnUndispatched, Crash, Finish
<1>5. Finish(p) => FALSE
  BY <1>2 DEF Finish
<1>6. Reads(p) => ListCosts(p)
  BY <1>1, <1>2
     DEF Reads, ReserveKnown, ReserveNew, Granted, CommitConflict, Abandon, AppendRead, AppendClash,
         AppendConflict, RecordCheck, RecordAdd, RecordFails, Settle, Finish
<1> QED BY <1>3, <1>4, <1>5, <1>6

LEMMA MoneyStep == Inductive /\ Inductive' /\ DispatchInv /\ MoneyInv /\ [Next]_vars => MoneyInv'
<1> SUFFICES ASSUME Inductive, Inductive', DispatchInv, MoneyInv, [Next]_vars PROVE MoneyInv'
  OBVIOUS
<1>0. StreamType /\ CallType /\ ControlInv /\ StreamType' /\ CallType' /\ Total \in Nat /\ Total <= MaxTotal
  BY DEF Inductive, TypeOK, MoneyInv
<1>a. \A r \in Res : Authorized(r) \in Nat
  BY <1>0, TotalStands DEF AuthorizedAreNat
<1>1. CASE UNCHANGED vars
  <2>0. DrawsFollow /\ DrawsFollow'
    BY DrawIsOfRecords, PTL
  <2>1. \A r \in Res : Authorized(r)' = Authorized(r)
    BY <1>1, <2>0 DEF DrawsFollow, Authorized, vars, stream
  <2>2. \A x \in Res : Authorized(x)' <= Authorized(x) + (IF x = NoRes THEN 0 ELSE 0)
    BY <1>a, <2>1
  <2>3. Total' \in Nat /\ Total' <= Total + 0
    BY <1>0, <2>2, TotalRises
  <2>4. ASSUME NEW q \in Proc, pc'[q] = "commit", rev'[q] = revision'
        PROVE  request'[q].amount + Total' <= MaxTotal
    <3>1. request[q].amount + Total <= MaxTotal /\ request'[q] = request[q] /\ request[q] \in Request
      BY <1>0, <1>1, <2>4 DEF vars, stream, call, MoneyInv, HeadroomInv, ControlInv, Controlled
    <3>2. request[q].amount \in Nat
      BY <3>1, MoneyAssumption DEF Request
    <3> QED BY <1>0, <2>3, <3>1, <3>2, MoneyAssumption
  <2> QED BY <1>0, <2>3, <2>4, MoneyAssumption DEF MoneyInv, HeadroomInv
<1>2. ASSUME NEW p \in Proc, Reads(p) \/ Returns(p) \/ Appends(p), UNCHANGED stream PROVE MoneyInv'
  <2>1. \A r \in Res : Authorized(r)' = Authorized(r)
    BY <1>2, AuthorizedStays DEF stream
  <2>2. Total' \in Nat /\ Total' <= Total
    <3>1. \A x \in Res : Authorized(x)' <= Authorized(x) + (IF x = NoRes THEN 0 ELSE 0)
      BY <1>a, <2>1
    <3>2. Total' \in Nat /\ Total' <= Total + 0
      BY <1>0, <3>1, TotalRises
    <3> QED BY <1>0, <3>2
  <2>3. ASSUME NEW q \in Proc, pc'[q] = "commit", rev'[q] = revision' PROVE request'[q].amount + Total' <= MaxTotal
    <3>1. request[q].amount + Total <= MaxTotal /\ request'[q] = request[q] /\ request[q] \in Request
      <4>1. CASE q # p
        BY <1>0, <1>2, <2>3, <4>1, OneAtATime DEF Untouched, stream, MoneyInv, HeadroomInv, ControlInv, Controlled
      <4>2. CASE q = p
        <5>1. /\ rev[p] = revision => Fits(request[p].amount)
              /\ pc[p] = "list" /\ UNCHANGED <<request, rev, revision>>
          BY <1>0, <1>2, <2>3, <4>2, OnlyListLeadsToCommit DEF ListCosts, stream
        <5>2. Fits(request[p].amount) /\ request[p] \in Request
          BY <1>0, <2>3, <4>2, <5>1 DEF ControlInv, Controlled
        <5>3. request[p].amount \in Nat
          BY <5>2, MoneyAssumption DEF Request
        <5> QED BY <1>0, <4>2, <5>1, <5>2, <5>3, FitsIsEnough
      <4> QED BY <4>1, <4>2
    <3>2. request[q].amount \in Nat
      BY <3>1, MoneyAssumption DEF Request
    <3> QED BY <1>0, <2>2, <3>1, <3>2, MoneyAssumption
  <2> QED BY <1>0, <2>2, <2>3, MoneyAssumption DEF MoneyInv, HeadroomInv
<1>3. ASSUME NEW p \in Proc, AppendCommit(p) \/ \E r \in Res : Commit(p, r),
             Total' \in Nat, Total' <= MaxTotal
      PROVE  MoneyInv'
  <2>1. revision' = revision + 1 /\ revision \in Nat /\ Appends(p)
    BY <1>0, <1>3, Committed, Reserved DEF StreamType, Appends
  <2>2. ASSUME NEW q \in Proc, pc'[q] = "commit", rev'[q] = revision' PROVE FALSE
    <3>1. CASE q # p
      <4>1. rev'[q] = rev[q] /\ rev[q] <= revision /\ rev[q] \in Nat
        BY <1>0, <2>1, <3>1, OneAtATime DEF Untouched, CallType
      <4> QED BY <2>1, <2>2, <4>1
    <3>2. CASE q = p
      <4>1. ListCosts(p)
        BY <1>0, <2>1, <2>2, <3>2, OnlyListLeadsToCommit
      <4> QED BY <1>0, <1>3, <2>1, <4>1 DEF ListCosts, stream
    <3> QED BY <3>1, <3>2
  <2> QED BY <1>3, <2>2 DEF MoneyInv, HeadroomInv
<1>4. ASSUME NEW p \in Proc, NEW r \in Res, Commit(p, r) PROVE MoneyInv'
  <2> DEFINE a == request[p].amount
  <2>1. request[p] \in Request /\ a \in Nat
    BY <1>0, <1>4, MoneyAssumption DEF Commit, ControlInv, Controlled, Request
  <2>2. a + Total <= MaxTotal
    BY <1>4 DEF Commit, MoneyInv, HeadroomInv
  <2>3. \A x \in Res \ {r} : Authorized(x)' = Authorized(x)
    BY <1>0, <1>4, AuthorizedStays, Reserved DEF Appends
  <2>4. Authorized(r)' <= a
    <3>1. terms'[r] = request[p]
      BY <1>0, <1>4, Reserved
    <3>2. AuthorizedAreNat'
      <4>1. StreamType' => AuthorizedAreNat'
        BY TotalStands, PTL
      <4> QED BY <1>0, <4>1
    <3> QED BY <3>1, <3>2 DEF Authorized, AuthorizedAreNat
  <2>5. AuthorizedAreNat'
    <3>1. StreamType' => AuthorizedAreNat'
      BY TotalStands, PTL
    <3> QED BY <1>0, <3>1
  <2> HIDE DEF a
  <2>6. \A x \in Res : Authorized(x)' <= Authorized(x) + (IF x = r THEN a ELSE 0)
    BY <1>a, <2>1, <2>3, <2>4, <2>5 DEF AuthorizedAreNat
  <2>7. Total' \in Nat /\ Total' <= Total + a
    BY <1>0, <2>1, <2>6, TotalRises
  <2>8. Total' <= MaxTotal
    BY <1>0, <2>1, <2>2, <2>7, MoneyAssumption
  <2> QED BY <1>3, <1>4, <2>7, <2>8
<1>5. ASSUME NEW p \in Proc, AppendCommit(p) PROVE MoneyInv'
  <2>1. held[p] \in Res
    BY <1>0, <1>5, Committed
  <2>2. \A x \in Res \ {held[p]} : Authorized(x)' = Authorized(x)
    BY <1>0, <1>5, AuthorizedStays, Committed DEF Appends
  <2>3. \A x \in Res : x = held[p] => Authorized(x)' <= Authorized(x)
    BY <1>5, AppendLowers
  <2>4. AuthorizedAreNat'
    <3>1. StreamType' => AuthorizedAreNat'
      BY TotalStands, PTL
    <3> QED BY <1>0, <3>1
  <2>5. \A x \in Res : Authorized(x)' <= Authorized(x) + (IF x = NoRes THEN 0 ELSE 0)
    BY <1>a, <2>2, <2>3, <2>4 DEF AuthorizedAreNat
  <2>6. Total' \in Nat /\ Total' <= Total + 0
    BY <1>0, <2>5, TotalRises
  <2>7. Total' <= MaxTotal
    BY <1>0, <2>6, MoneyAssumption
  <2> QED BY <1>3, <1>5, <2>6, <2>7
<1> QED BY <1>1, <1>2, <1>4, <1>5, Steps, StreamStep

(* "Two executions read the same remaining headroom and both dispatch" is    *)
(* prevented: the authorization committed under a grant never exceeds its    *)
(* ceiling, for any number of processes, effects and reservations, as long   *)
(* as no two processes read one instant and none releases under a dispatch.  *)
THEOREM WithinCeiling == InstantsDiffer /\ ~Releasing /\ Spec => []NeverOvercommitted
<1> SUFFICES ASSUME InstantsDiffer, ~Releasing PROVE Spec => []NeverOvercommitted
  OBVIOUS
<1>1. Init /\ Inductive => OnceInv /\ DispatchInv /\ MoneyInv
  <2> SUFFICES ASSUME Init, Inductive PROVE OnceInv /\ DispatchInv /\ MoneyInv
    OBVIOUS
  <2>1. OnceInv /\ DispatchInv
    BY DEF Init, OnceInv, DispatchInv, Dispatching, Appending
  <2>2. StreamType
    BY DEF Inductive, TypeOK
  <2>3. \A r \in Res : Authorized(r) = 0
    <3> SUFFICES ASSUME NEW r \in Res PROVE Authorized(r) = 0
      OBVIOUS
    <3>1. ~Active(history[r]) /\ terms[r].amount = 0
      BY DEF Init, Active, Status, NoTerms
    <3>2. Draw(r) \in Nat
      BY <2>2, AmountsAreNat
    <3> QED BY <3>1, <3>2 DEF Authorized
  <2>4. PICK s : Sums(s, [r \in Res |-> Authorized(r)], Res) /\ Total = s[Res]
    BY <2>2, AuthorizedSum DEF Total
  <2>5. [r \in Res |-> Authorized(r)] = [x \in Res |-> IF x = NoRes THEN 0 ELSE 0]
    BY <2>3
  <2>6. Total \in Nat
    BY <2>3, <2>4, SumType, ResAssumption
  <2>7. Total <= 0
    BY <2>4, <2>5, SumAlone, ResAssumption
  <2>8. HeadroomInv
    BY DEF Init, HeadroomInv
  <2> QED BY <2>1, <2>6, <2>7, <2>8, MoneyAssumption DEF MoneyInv
<1>2. Inductive /\ Inductive' /\ OnceInv /\ DispatchInv /\ MoneyInv /\ [Next]_vars
        => OnceInv' /\ DispatchInv' /\ MoneyInv'
  BY OnceStep, DispatchStep, MoneyStep
<1>3. MoneyInv => NeverOvercommitted
  BY DEF MoneyInv, NeverOvercommitted, Total
<1> QED BY <1>1, <1>2, <1>3, InductiveHolds, PTL DEF Spec

-----------------------------------------------------------------------------
(* Invocations: the paid calls of a stage.                                  *)
Place == {"idle", "capabilities", "reserve", "prepare", "provider", "record", "resolve", "done"}
Held == {"none", "reserved", "dispatch_prepared", "settled", "released", "billing_unknown"}

Told == {"nothing", "failure", "result", "billing_unresolved"}

StageType ==
  /\ scope \in Scopes /\ ordinal \in 1 .. Attempts /\ running \in BOOLEAN /\ effects \in Nat
  /\ invoked \in SUBSET Call
  /\ recorded \in [1 .. Attempts -> SUBSET Call]

AskType ==
  /\ ask \in [Call -> Ask \cup {NoAsk}]
  /\ attempt \in [Call -> 0 .. Attempts]
  /\ at \in [Call -> Place]
  /\ answer \in [Call -> DOMAIN IsChargeBearing \cup {"none"}]
  /\ told \in [Call -> Told]
  /\ written \in [Call -> Nat]
  /\ called \in SUBSET Call

InvocationsTypeOK == StageType /\ AskType /\ reservation \in [Billed -> Held]

(* Before its provider a call has cost nothing; behind it, its charges are  *)
(* being recorded one after the other.                                      *)
Placed(c) ==
  /\ at[c] \in {"idle", "capabilities", "reserve", "prepare"} => c \notin called /\ written[c] = 0
  /\ at[c] \in {"capabilities", "reserve", "prepare"} \/ c \in called => ask[c] \in Ask
  /\ at[c] \in {"reserve", "prepare"} => Paid(c)
  /\ at[c] \in {"provider", "record", "resolve"} => c \in called
  /\ at[c] = "provider" => written[c] = 0
  /\ at[c] = "record" => answer[c] \in Answer /\ written[c] < IsChargeBearing[answer[c]]
  /\ at[c] = "resolve" => /\ answer[c] \in DOMAIN IsChargeBearing
                          /\ written[c] = IsChargeBearing[answer[c]] \/ (answer[c] = "unrecorded" /\ Paid(c))
  /\ at[c] = "done" /\ c \in called => /\ answer[c] \in DOMAIN IsChargeBearing
                                       /\ ~Paid(c) /\ IsChargeBearing[answer[c]] > 0 => told[c] = "failure"

CallInv == \A c \in Call : Placed(c)

(* A reservation is its call's own from its announcement on.                *)
Covered(c) ==
  c \in called /\ Paid(c) =>
    /\ at[c] # "done" => reservation[EffectOf(c)] = "dispatch_prepared"
    /\ at[c] = "done" => \/ reservation[EffectOf(c)] = "dispatch_prepared"
                         \/ /\ reservation[EffectOf(c)] = ResolvesAs[answer[c]]
                            /\ answer[c] = "charge" => written[c] = 1

BillingInv == \A c \in Call : Covered(c)

AttemptInv ==
  /\ \A c \in Call : /\ Effectful(c) => scope # "no_external_effects"
                     /\ Effectful(c) /\ attempt[c] = ordinal => effects > 0
                     /\ attempt[c] <= ordinal
                     /\ ask[c] \in Ask => attempt[c] > 0
                     /\ ask[c].by = "worker" /\ attempt[c] = ordinal => c \in invoked
                     /\ ask[c].by = "worker" /\ attempt[c] < ordinal => c \in recorded[attempt[c]]
  /\ scope = "stage" =>
       \A c, d \in Call : Effectful(c) /\ Effectful(d) /\ attempt[c] = attempt[d] => c = d
  /\ ~running => recorded[ordinal] = invoked

InvocationsInductive == InvocationsTypeOK /\ CallInv /\ BillingInv /\ AttemptInv /\ BilledOnce

-----------------------------------------------------------------------------
Invokes(c) ==
  \/ InvokeUndeclared(c)
  \/ \E a \in Ask : InvokeExceeding(c, a) \/ Invoke(c, a)

Proceeds(c) ==
  \/ Checked(c) \/ Reserve(c) \/ Prepare(c)
  \/ \E a \in Answer : Return(c, a)
  \/ Record(c) \/ RecordRefused(c) \/ Resolve(c) \/ ResolveFails(c)

LEMMA InvocationsSteps ==
  ASSUME [InvocationsNext]_invocationVars
  PROVE  \/ \E c \in Call : Invokes(c) \/ Proceeds(c)
         \/ Settles \/ Retries \/ UNCHANGED invocationVars
BY Zenon DEF InvocationsNext, Invokes, Proceeds

LEMMA Effects ==
  ASSUME NEW c \in Call, ask[c] \in Ask, Paid(c)
  PROVE  EffectOf(c) \in Billed
BY DEF Paid, EffectOf, Billed, Ask

LEMMA Outcome ==
  ASSUME NEW c \in Call, NEW outcome \in Tells(c)
  PROVE  outcome \in Told
BY DEF Tells, Outcomes, Told

(* The variables keep their types.                                          *)
LEMMA InvocationsTypeStep ==
  InvocationsAssumption /\ InvocationsTypeOK /\ CallInv /\ [InvocationsNext]_invocationVars => InvocationsTypeOK'
<1> SUFFICES ASSUME InvocationsAssumption, StageType, AskType, reservation \in [Billed -> Held], CallInv,
                    [InvocationsNext]_invocationVars
             PROVE  InvocationsTypeOK'
  BY DEF InvocationsTypeOK
<1> USE DEF attemptVars, billing
<1>1. CASE UNCHANGED invocationVars
  BY <1>1 DEF invocationVars, StageType, AskType, InvocationsTypeOK
<1>2. CASE Settles
  <2>1. StageType'
    BY <1>2 DEF Settles, StageType
  <2> QED BY <1>2, <2>1 DEF Settles, AskType, InvocationsTypeOK
<1>3. CASE Retries
  <2>1. StageType'
    BY <1>3 DEF Retries, StageType, InvocationsAssumption
  <2> QED BY <1>3, <2>1 DEF Retries, AskType, InvocationsTypeOK
<1>4. ASSUME NEW c \in Call, Moves(c, at'[c]), at'[c] \in Place
      PROVE  /\ at' \in [Call -> Place] /\ ask' \in [Call -> Ask \cup {NoAsk}]
             /\ attempt' \in [Call -> 0 .. Attempts] /\ told' \in [Call -> Told]
  BY <1>4 DEF Moves, AskType
<1>5. ASSUME NEW c \in Call, NEW outcome \in Told, Done(c, outcome)
      PROVE  /\ at' \in [Call -> Place] /\ ask' \in [Call -> Ask \cup {NoAsk}]
             /\ attempt' \in [Call -> 0 .. Attempts] /\ told' \in [Call -> Told]
  BY <1>5 DEF Done, AskType, Place
<1>6. ASSUME NEW c \in Call, Refused(c)
      PROVE  /\ at' \in [Call -> Place] /\ ask' \in [Call -> Ask \cup {NoAsk}]
             /\ attempt' \in [Call -> 0 .. Attempts] /\ told' \in [Call -> Told]
  BY <1>6 DEF Refused, AskType, Place, Told, InvocationsAssumption
<1>7. ASSUME NEW c \in Call, NEW l \in Place, Moves(c, l) PROVE Moves(c, at'[c]) /\ at'[c] \in Place
  BY <1>7 DEF Moves, AskType
<1>8. ASSUME NEW c \in Call, Invokes(c) PROVE InvocationsTypeOK'
  <2>1. CASE InvokeUndeclared(c)
    BY <1>6, <2>1 DEF InvokeUndeclared, StageType, AskType, InvocationsTypeOK
  <2>2. ASSUME NEW a \in Ask, Raise(a) PROVE effects' \in Nat
    BY <2>2 DEF Raise, StageType
  <2>3. ASSUME NEW a \in Ask, InvokeExceeding(c, a) PROVE InvocationsTypeOK'
    <3>1. StageType'
      BY <2>2, <2>3 DEF InvokeExceeding, StageType
    <3> QED BY <1>6, <2>3, <3>1 DEF InvokeExceeding, AskType, InvocationsTypeOK
  <2>4. ASSUME NEW a \in Ask, Invoke(c, a) PROVE InvocationsTypeOK'
    <3>1. StageType'
      BY <2>2, <2>4 DEF Invoke, StageType
    <3>2. CASE Refused(c)
      BY <1>6, <2>4, <3>1, <3>2 DEF Invoke, AskType, InvocationsTypeOK
    <3>3. CASE /\ ask' = [ask EXCEPT ![c] = a] /\ attempt' = [attempt EXCEPT ![c] = ordinal]
               /\ at' = [at EXCEPT ![c] = "capabilities"] /\ UNCHANGED told
      BY <2>4, <3>1, <3>3 DEF Invoke, StageType, AskType, InvocationsTypeOK, Place
    <3> QED BY <2>4, <3>2, <3>3 DEF Invoke
  <2> QED BY <1>8, <2>1, <2>3, <2>4 DEF Invokes
<1>9. ASSUME NEW c \in Call, Proceeds(c) PROVE InvocationsTypeOK'
  <2> USE DEF Place, Told
  <2>1. CASE Checked(c)
    <3>1. called' \in SUBSET Call
      BY <2>1 DEF Checked, Begins, AskType
    <3> QED BY <1>4, <1>6, <1>7, <2>1, <3>1 DEF Checked, Begins, StageType, AskType, InvocationsTypeOK
  <2>2. CASE Reserve(c)
    <3>1. EffectOf(c) \in Billed
      BY <2>2, Effects DEF Reserve, CallInv, Placed
    <3>2. reservation' \in [Billed -> Held]
      BY <2>2, <3>1 DEF Reserve, Held
    <3> QED BY <1>4, <1>6, <1>7, <2>2, <3>2 DEF Reserve, StageType, AskType, InvocationsTypeOK
  <2>3. CASE Prepare(c)
    <3>1. EffectOf(c) \in Billed
      BY <2>3, Effects DEF Prepare, CallInv, Placed
    <3>2. reservation' \in [Billed -> Held] /\ called' \in SUBSET Call
      BY <2>3, <3>1 DEF Prepare, Held, Begins, AskType
    <3> QED BY <1>4, <1>6, <1>7, <2>3, <3>2 DEF Prepare, Begins, StageType, AskType, InvocationsTypeOK
  <2>4. ASSUME NEW a \in Answer, Return(c, a) PROVE InvocationsTypeOK'
    <3>1. answer' \in [Call -> DOMAIN IsChargeBearing \cup {"none"}]
      BY <2>4 DEF Return, AskType, Answer
    <3> QED BY <1>4, <1>7, <2>4, <3>1 DEF Return, StageType, AskType, InvocationsTypeOK
  <2>5. CASE Record(c)
    <3>1. written' \in [Call -> Nat]
      <4>1. written \in [Call -> Nat] /\ written[c] + 1 \in Nat
        BY DEF AskType
      <4>2. written' = [written EXCEPT ![c] = written[c] + 1]
        BY <2>5 DEF Record
      <4> QED BY <4>1, <4>2
    <3> QED BY <1>4, <1>7, <2>5, <3>1 DEF Record, StageType, AskType, InvocationsTypeOK
  <2>6. CASE RecordRefused(c)
    <3>1. answer' \in [Call -> DOMAIN IsChargeBearing \cup {"none"}]
      BY <2>6 DEF RecordRefused, AskType, IsChargeBearing
    <3> QED BY <1>4, <1>5, <1>7, <2>6, <3>1 DEF RecordRefused, Fails, StageType, AskType, InvocationsTypeOK
  <2>7. CASE Resolve(c)
    <3>1. reservation' \in [Billed -> Held]
      <4>1. answer[c] \in DOMAIN IsChargeBearing /\ ask[c] \in Ask
        BY <2>7 DEF Resolve, CallInv, Placed
      <4>2. ResolvesAs[answer[c]] \in Held
        BY <4>1 DEF ResolvesAs, IsChargeBearing, Held
      <4> QED BY <2>7, <4>1, <4>2, Effects DEF Resolve
    <3>2. \E outcome \in Told : Done(c, outcome)
      BY <2>7, Outcome DEF Resolve, Fails
    <3> QED BY <1>5, <2>7, <3>1, <3>2 DEF Resolve, StageType, AskType, InvocationsTypeOK
  <2>8. CASE ResolveFails(c)
    BY <1>5, <2>8 DEF ResolveFails, Fails, StageType, AskType, InvocationsTypeOK
  <2> QED BY <1>9, <2>1, <2>2, <2>3, <2>4, <2>5, <2>6, <2>7, <2>8 DEF Proceeds
<1> QED BY <1>1, <1>2, <1>3, <1>8, <1>9, InvocationsSteps

-----------------------------------------------------------------------------
(* A step of one call leaves the others where they are.                     *)
Undisturbed(d) ==
  /\ ask'[d] = ask[d] /\ attempt'[d] = attempt[d] /\ at'[d] = at[d]
  /\ answer'[d] = answer[d] /\ told'[d] = told[d] /\ written'[d] = written[d]
  /\ d \in called' <=> d \in called

LEMMA OneCallAtATime ==
  ASSUME AskType, NEW c \in Call, Invokes(c) \/ Proceeds(c), NEW d \in Call \ {c}
  PROVE  Undisturbed(d)
<1> USE DEF AskType, Undisturbed, Moves, Done, Refused, Fails, Begins, billing, attemptVars
<1>1. CASE InvokeUndeclared(c)
  BY <1>1 DEF InvokeUndeclared
<1>2. ASSUME NEW a \in Ask, InvokeExceeding(c, a) PROVE Undisturbed(d)
  BY <1>2 DEF InvokeExceeding
<1>3. ASSUME NEW a \in Ask, Invoke(c, a) PROVE Undisturbed(d)
  BY <1>3 DEF Invoke
<1>4. CASE Checked(c)
  BY <1>4 DEF Checked
<1>5. CASE Reserve(c)
  BY <1>5 DEF Reserve
<1>6. CASE Prepare(c)
  BY <1>6 DEF Prepare
<1>7. ASSUME NEW a \in Answer, Return(c, a) PROVE Undisturbed(d)
  BY <1>7 DEF Return
<1>8. CASE Record(c)
  BY <1>8 DEF Record
<1>9. CASE RecordRefused(c)
  BY <1>9 DEF RecordRefused
<1>10. CASE Resolve(c)
  BY <1>10 DEF Resolve
<1>11. CASE ResolveFails(c)
  BY <1>11 DEF ResolveFails
<1> QED
  BY <1>1, <1>2, <1>3, <1>4, <1>5, <1>6, <1>7, <1>8, <1>9, <1>10, <1>11 DEF Invokes, Proceeds

LEMMA CallStep == InvocationsTypeOK /\ CallInv /\ [InvocationsNext]_invocationVars => CallInv'
<1> SUFFICES ASSUME StageType, AskType, CallInv, [InvocationsNext]_invocationVars PROVE CallInv'
  BY DEF InvocationsTypeOK
<1> USE DEF attemptVars, billing
<1>1. CASE Settles \/ Retries \/ UNCHANGED invocationVars
  BY <1>1 DEF Settles, Retries, invocationVars, CallInv, Placed, Paid
<1>2. ASSUME NEW c \in Call, Invokes(c) \/ Proceeds(c), NEW d \in Call \ {c} PROVE Placed(d)'
  BY <1>2, OneCallAtATime DEF CallInv, Placed, Paid, Undisturbed
<1>3. ASSUME NEW c \in Call, Refused(c), written' = written, called' = called, c \notin called PROVE Placed(c)'
  BY <1>3 DEF Refused, Placed, AskType
<1>4. ASSUME NEW c \in Call, Invokes(c) PROVE Placed(c)'
  <2>1. at[c] = "idle" /\ c \notin called /\ written[c] = 0 /\ written' = written /\ called' = called
    BY <1>4 DEF Invokes, InvokeUndeclared, InvokeExceeding, Invoke, Calling, CallInv, Placed
  <2>2. CASE Refused(c)
    BY <1>3, <2>1, <2>2
  <2>3. ASSUME NEW a \in Ask, ask' = [ask EXCEPT ![c] = a], at' = [at EXCEPT ![c] = "capabilities"]
        PROVE  Placed(c)'
    BY <2>1, <2>3 DEF Placed, AskType
  <2> QED BY <1>4, <2>2, <2>3 DEF Invokes, InvokeUndeclared, InvokeExceeding, Invoke
<1>5. ASSUME NEW c \in Call, NEW l, Moves(c, l) PROVE at'[c] = l /\ ask'[c] = ask[c] /\ told'[c] = told[c]
  BY <1>5 DEF Moves, AskType
<1>6. ASSUME NEW c \in Call, NEW outcome, Done(c, outcome)
      PROVE  at'[c] = "done" /\ ask'[c] = ask[c] /\ told'[c] = outcome
  BY <1>6 DEF Done, AskType
<1>7. ASSUME NEW c \in Call, Proceeds(c) PROVE Placed(c)'
  <2>0. Placed(c)
    BY DEF CallInv
  <2>1. CASE Checked(c)
    <3>1. /\ at[c] = "capabilities" /\ c \notin called /\ written[c] = 0 /\ written' = written
          /\ ask[c] \in Ask
      BY <2>0, <2>1 DEF Checked, Placed
    <3>2. CASE Paid(c) /\ Moves(c, "reserve") /\ called' = called
      BY <1>5, <3>1, <3>2 DEF Placed, Paid
    <3>3. CASE ~Paid(c) /\ Begins(c)
      BY <1>5, <3>1, <3>3 DEF Placed, Paid, Begins
    <3> QED BY <1>3, <2>1, <3>1, <3>2, <3>3 DEF Checked
  <2>2. CASE Reserve(c)
    <3>1. /\ at[c] = "reserve" /\ c \notin called /\ written[c] = 0 /\ written' = written
          /\ called' = called /\ ask[c] \in Ask /\ Paid(c)
      BY <2>0, <2>2 DEF Reserve, Placed
    <3>2. CASE Moves(c, "prepare")
      BY <1>5, <3>1, <3>2 DEF Placed, Paid
    <3> QED BY <1>3, <2>2, <3>1, <3>2 DEF Reserve
  <2>3. CASE Prepare(c)
    <3>1. /\ at[c] = "prepare" /\ c \notin called /\ written[c] = 0 /\ written' = written
          /\ ask[c] \in Ask /\ Paid(c)
      BY <2>0, <2>3 DEF Prepare, Placed
    <3>2. CASE Begins(c)
      BY <1>5, <3>1, <3>2 DEF Placed, Paid, Begins
    <3> QED BY <1>3, <2>3, <3>1, <3>2 DEF Prepare
  <2>4. ASSUME NEW a \in Answer, Return(c, a) PROVE Placed(c)'
    <3>1. /\ at[c] = "provider" /\ c \in called /\ called' = called /\ written[c] = 0
          /\ written' = written /\ ask[c] \in Ask /\ answer'[c] = a
      BY <2>0, <2>4 DEF Return, Placed, AskType
    <3>2. a \in DOMAIN IsChargeBearing /\ IsChargeBearing[a] \in Nat
      BY DEF Answer, IsChargeBearing
    <3>3. CASE IsChargeBearing[a] > 0
      BY <1>5, <2>4, <3>1, <3>2, <3>3 DEF Return, Placed, Paid
    <3>4. CASE ~(IsChargeBearing[a] > 0)
      BY <1>5, <2>4, <3>1, <3>2, <3>4 DEF Return, Placed, Paid
    <3> QED BY <3>3, <3>4
  <2>5. CASE Record(c)
    <3>1. /\ at[c] = "record" /\ c \in called /\ called' = called /\ answer' = answer
          /\ answer[c] \in Answer /\ ask[c] \in Ask
          /\ written[c] \in Nat /\ written[c] < IsChargeBearing[answer[c]] /\ written'[c] = written[c] + 1
      BY <2>0, <2>5 DEF Record, Placed, AskType
    <3>2. answer[c] \in DOMAIN IsChargeBearing /\ IsChargeBearing[answer[c]] \in Nat
      BY <3>1 DEF Answer, IsChargeBearing
    <3>3. CASE written[c] + 1 < IsChargeBearing[answer[c]]
      BY <1>5, <2>5, <3>1, <3>2, <3>3 DEF Record, Placed, Paid
    <3>4. CASE ~(written[c] + 1 < IsChargeBearing[answer[c]])
      BY <1>5, <2>5, <3>1, <3>2, <3>4 DEF Record, Placed, Paid
    <3> QED BY <3>3, <3>4
  <2>6. CASE RecordRefused(c)
    <3>1. /\ at[c] = "record" /\ c \in called /\ called' = called /\ written' = written
          /\ answer[c] \in Answer /\ ask[c] \in Ask
      BY <2>0, <2>6 DEF RecordRefused, Placed
    <3>2. CASE Paid(c) /\ Moves(c, "resolve") /\ answer' = [answer EXCEPT ![c] = "unrecorded"]
      <4>1. answer'[c] = "unrecorded" /\ "unrecorded" \in DOMAIN IsChargeBearing
        BY <3>2 DEF AskType, IsChargeBearing
      <4> QED BY <1>5, <3>1, <3>2, <4>1 DEF Placed, Paid
    <3>3. CASE Fails(c) /\ answer' = answer
      BY <1>6, <3>1, <3>3 DEF Placed, Paid, Fails, Answer
    <3> QED BY <2>6, <3>2, <3>3 DEF RecordRefused
  <2>7. CASE Resolve(c)
    <3>1. /\ at[c] = "resolve" /\ c \in called /\ called' = called /\ answer' = answer /\ ask[c] \in Ask
          /\ answer[c] \in DOMAIN IsChargeBearing
          /\ ~Paid(c) => written[c] = IsChargeBearing[answer[c]]
      BY <2>0, <2>7 DEF Resolve, Placed
    <3>2. CASE Paid(c)
      BY <1>6, <2>7, <3>1, <3>2 DEF Resolve, Placed, Paid
    <3>3. CASE ~Paid(c)
      <4>1. IsChargeBearing[answer[c]] > 0 => Fails(c)
        BY <2>7, <3>1, <3>3 DEF Resolve
      <4>2. \E outcome : Done(c, outcome)
        BY <2>7, <3>3 DEF Resolve, Fails
      <4> QED BY <1>6, <3>1, <3>3, <4>1, <4>2 DEF Fails, Placed, Paid
    <3> QED BY <3>2, <3>3
  <2>8. CASE ResolveFails(c)
    BY <1>6, <2>0, <2>8 DEF ResolveFails, Fails, Placed, Paid
  <2> QED BY <1>7, <2>1, <2>2, <2>3, <2>4, <2>5, <2>6, <2>7, <2>8 DEF Proceeds
<1> QED BY <1>1, <1>2, <1>4, <1>7, InvocationsSteps DEF CallInv

-----------------------------------------------------------------------------
(* What a step of c may do to a reservation, and when it reaches a provider. *)
Keeps(c) ==
  /\ reservation' = reservation
  /\ called' = called \/ (~Paid(c) /\ c \notin called /\ called' = called \cup {c})

Books(c) ==
  /\ at[c] = "reserve" /\ called' = called /\ reservation[EffectOf(c)] = "none"
  /\ reservation' = [reservation EXCEPT ![EffectOf(c)] = "reserved"]

Announces(c) ==
  /\ at[c] = "prepare" /\ called' = called \cup {c} /\ reservation[EffectOf(c)] = "reserved"
  /\ at'[c] = "provider" /\ ask' = ask
  /\ reservation' = [reservation EXCEPT ![EffectOf(c)] = "dispatch_prepared"]

Closes(c) ==
  /\ at[c] = "resolve" /\ called' = called /\ Paid(c) /\ answer' = answer /\ written' = written
  /\ at'[c] = "done" /\ ask' = ask
  /\ reservation' = [reservation EXCEPT ![EffectOf(c)] = ResolvesAs[answer[c]]]

LEMMA ReservationStep ==
  ASSUME InvocationsTypeOK, CallInv, NEW c \in Call, Invokes(c) \/ Proceeds(c)
  PROVE  Keeps(c) \/ Books(c) \/ Announces(c) \/ Closes(c)
<1> USE DEF attemptVars, billing
<1>0. AskType
  BY DEF InvocationsTypeOK
<1>1. ASSUME reservation' = reservation, called' = called PROVE Keeps(c)
  BY <1>1 DEF Keeps
<1>2. CASE Invokes(c)
  <2>1. reservation' = reservation /\ called' = called
    BY <1>2 DEF Invokes, InvokeUndeclared, InvokeExceeding, Invoke
  <2> QED BY <1>1, <2>1
<1>3. CASE Checked(c)
  <2>1. reservation' = reservation /\ c \notin called
    BY <1>3 DEF Checked, CallInv, Placed
  <2>2. called' = called \/ (~Paid(c) /\ called' = called \cup {c})
    BY <1>3 DEF Checked, Begins
  <2> QED BY <2>1, <2>2 DEF Keeps
<1>4. CASE Reserve(c)
  <2>1. at[c] = "reserve" /\ called' = called
    BY <1>4 DEF Reserve
  <2>2. \/ reservation' = reservation
        \/ /\ reservation[EffectOf(c)] = "none"
           /\ reservation' = [reservation EXCEPT ![EffectOf(c)] = "reserved"]
    BY <1>4 DEF Reserve
  <2> QED BY <1>1, <2>1, <2>2 DEF Books
<1>5. CASE Prepare(c)
  <2>1. CASE reservation' = reservation /\ called' = called
    BY <1>1, <2>1
  <2>2. CASE /\ reservation[EffectOf(c)] = "reserved" /\ Begins(c)
             /\ reservation' = [reservation EXCEPT ![EffectOf(c)] = "dispatch_prepared"]
    <3>1. at[c] = "prepare" /\ at'[c] = "provider" /\ ask' = ask /\ called' = called \cup {c}
      BY <1>0, <1>5, <2>2 DEF Prepare, Begins, Moves, AskType
    <3> QED BY <2>2, <3>1 DEF Announces
  <2> QED BY <1>5, <2>1, <2>2 DEF Prepare
<1>6. ASSUME NEW a \in Answer, Return(c, a) PROVE Keeps(c)
  <2>1. reservation' = reservation /\ called' = called
    BY <1>6 DEF Return
  <2> QED BY <1>1, <2>1
<1>7. CASE Record(c) \/ RecordRefused(c) \/ ResolveFails(c)
  <2>1. reservation' = reservation /\ called' = called
    BY <1>7 DEF Record, RecordRefused, ResolveFails
  <2> QED BY <1>1, <2>1
<1>8. CASE Resolve(c)
  <2>1. at[c] = "resolve" /\ called' = called /\ answer' = answer /\ written' = written
    BY <1>8 DEF Resolve
  <2>2. CASE Paid(c)
    <3>1. at'[c] = "done" /\ ask' = ask
      BY <1>0, <1>8, <2>2 DEF Resolve, Done, AskType
    <3>2. reservation' = [reservation EXCEPT ![EffectOf(c)] = ResolvesAs[answer[c]]]
      BY <1>8, <2>2 DEF Resolve
    <3> QED BY <2>1, <2>2, <3>1, <3>2 DEF Closes
  <2>3. CASE ~Paid(c)
    <3>1. reservation' = reservation
      BY <1>8, <2>3 DEF Resolve
    <3> QED BY <1>1, <2>1, <3>1
  <2> QED BY <2>2, <2>3
<1> QED BY <1>2, <1>3, <1>4, <1>5, <1>6, <1>7, <1>8 DEF Proceeds

(* A call that has reached its provider does so no more, and its effect     *)
(* stays the one it asked for.                                              *)
LEMMA CalledKeeps ==
  ASSUME AskType, CallInv, NEW c \in Call, Invokes(c) \/ Proceeds(c), NEW d \in called
  PROVE  d \in Call /\ d \in called' /\ ask'[d] = ask[d]
<1> USE DEF attemptVars, billing
<1>1. d \in Call
  BY DEF AskType
<1>2. CASE d # c
  BY <1>1, <1>2, OneCallAtATime DEF Undisturbed
<1>3. CASE d = c
  <2>1. at[c] \notin {"idle", "capabilities", "reserve", "prepare"}
    BY <1>3 DEF CallInv, Placed
  <2>2. ~Invokes(c) /\ ~Checked(c) /\ ~Reserve(c) /\ ~Prepare(c)
    BY <2>1 DEF Invokes, InvokeUndeclared, InvokeExceeding, Invoke, Calling, Checked, Reserve, Prepare
  <2> QED
    BY <1>1, <1>3, <2>2 DEF Proceeds, Return, Record, RecordRefused, Resolve, ResolveFails, Moves, Done, Fails
<1> QED BY <1>2, <1>3

LEMMA BillingStep ==
  InvocationsTypeOK /\ CallInv /\ BillingInv /\ BilledOnce /\ [InvocationsNext]_invocationVars
    => BillingInv' /\ BilledOnce'
<1> SUFFICES ASSUME InvocationsTypeOK, CallInv, BillingInv, BilledOnce, [InvocationsNext]_invocationVars
             PROVE  BillingInv' /\ BilledOnce'
  OBVIOUS
<1>0. AskType /\ reservation \in [Billed -> Held]
  BY DEF InvocationsTypeOK
<1>1. CASE Settles \/ Retries \/ UNCHANGED invocationVars
  BY <1>1 DEF Settles, Retries, invocationVars, attemptVars, billing, BillingInv, BilledOnce, Covered,
              Paid, EffectOf
<1>2. ASSUME NEW d \in called, Paid(d)
      PROVE  reservation[EffectOf(d)] \notin {"none", "reserved"} /\ EffectOf(d) \in Billed
  <2>1. d \in Call /\ Covered(d) /\ Placed(d) /\ ask[d] \in Ask
    BY <1>0, <1>2 DEF BillingInv, CallInv, Placed, AskType
  <2>2. at[d] = "done" => answer[d] \in DOMAIN IsChargeBearing
    BY <1>2, <2>1 DEF Placed
  <2>3. \A a \in DOMAIN IsChargeBearing : ResolvesAs[a] \notin {"none", "reserved"}
    BY DEF IsChargeBearing, ResolvesAs
  <2> QED BY <1>2, <2>1, <2>2, <2>3, Effects DEF Covered
<1>3. ASSUME NEW c \in Call, Invokes(c) \/ Proceeds(c) PROVE BilledOnce'
  <2> SUFFICES ASSUME NEW d \in called', NEW e \in called', d # e, Paid(d)', Paid(e)', (EffectOf(d) = EffectOf(e))'
               PROVE  FALSE
    BY DEF BilledOnce
  <2>1. ASSUME NEW u \in called PROVE u \in Call /\ (Paid(u)' <=> Paid(u)) /\ EffectOf(u)' = EffectOf(u)
    BY <1>0, <1>3, <2>1, CalledKeeps DEF Paid, EffectOf
  <2>2. ~(d \in called /\ e \in called)
    BY <2>1 DEF BilledOnce
  <2>3. c \notin called /\ called' = called \cup {c} /\ Paid(c)'
    BY <1>3, <2>2, ReservationStep DEF Keeps, Books, Announces, Closes
  <2>4. CASE at[c] = "prepare" /\ reservation[EffectOf(c)] = "reserved" /\ ask' = ask
    <3>1. EffectOf(c)' = EffectOf(c)
      BY <2>4 DEF EffectOf
    <3>2. PICK u \in called : Paid(u) /\ EffectOf(u) = EffectOf(c)
      BY <2>1, <2>2, <2>3, <3>1
    <3> QED BY <1>2, <2>4, <3>2
  <2>5. CASE ~Paid(c)
    <3>1. Checked(c)
      BY <1>3, <2>3, <2>5
         DEF Invokes, InvokeUndeclared, InvokeExceeding, Invoke, Proceeds, Reserve, Prepare, Return, Record,
             RecordRefused, Resolve, ResolveFails, CallInv, Placed, attemptVars, billing
    <3>2. ask' = ask
      BY <2>3, <3>1 DEF Checked, Begins, Moves
    <3> QED BY <2>3, <2>5, <3>2 DEF Paid
  <2> QED BY <1>3, <2>3, <2>4, <2>5, ReservationStep DEF Keeps, Books, Announces, Closes
<1>4. ASSUME NEW c \in Call, Invokes(c) \/ Proceeds(c), NEW d \in Call, d # c PROVE Covered(d)'
  <2> SUFFICES ASSUME d \in called', Paid(d)' PROVE Covered(d)'
    BY DEF Covered
  <2>1. Undisturbed(d)
    BY <1>0, <1>4, OneCallAtATime
  <2>2. d \in called /\ Paid(d) /\ EffectOf(d)' = EffectOf(d) /\ Covered(d)
    BY <2>1 DEF Undisturbed, Paid, EffectOf, BillingInv
  <2>3. reservation[EffectOf(d)] \notin {"none", "reserved"} /\ EffectOf(d) \in Billed
    BY <1>2, <2>2
  <2>4. CASE at[c] = "resolve" /\ Paid(c)
    <3>1. c \in called
      BY <2>4 DEF CallInv, Placed
    <3>2. EffectOf(c) # EffectOf(d)
      BY <1>4, <2>2, <2>4, <3>1 DEF BilledOnce
    <3>3. reservation'[EffectOf(d)] = reservation[EffectOf(d)]
      BY <1>0, <1>4, <2>3, <2>4, <3>2, ReservationStep DEF Keeps, Books, Announces, Closes
    <3> QED BY <2>1, <2>2, <3>3 DEF Undisturbed, Covered, Paid
  <2>5. CASE ~(at[c] = "resolve" /\ Paid(c))
    <3>1. reservation'[EffectOf(d)] = reservation[EffectOf(d)]
      BY <1>0, <1>4, <2>3, <2>5, ReservationStep DEF Keeps, Books, Announces, Closes
    <3> QED BY <2>1, <2>2, <3>1 DEF Undisturbed, Covered, Paid
  <2> QED BY <2>4, <2>5
<1>5. ASSUME NEW c \in Call, Invokes(c) \/ Proceeds(c) PROVE Covered(c)'
  <2> SUFFICES ASSUME c \in called', Paid(c)' PROVE Covered(c)'
    BY DEF Covered
  <2>1. CASE c \notin called
    <3>1. /\ at[c] = "prepare" /\ at'[c] = "provider" /\ ask' = ask
          /\ reservation' = [reservation EXCEPT ![EffectOf(c)] = "dispatch_prepared"]
      <4>1. CASE ~Paid(c) /\ called' = called \cup {c}
        <5>1. Checked(c)
          BY <1>5, <2>1, <4>1
             DEF Invokes, InvokeUndeclared, InvokeExceeding, Invoke, Proceeds, Reserve, Prepare, Return,
                 Record, RecordRefused, Resolve, ResolveFails, CallInv, Placed, attemptVars, billing
        <5> QED BY <2>1, <4>1, <5>1 DEF Checked, Begins, Moves, Paid
      <4> QED BY <1>5, <2>1, <4>1, ReservationStep DEF Keeps, Books, Announces, Closes
    <3>2. EffectOf(c) \in Billed /\ EffectOf(c)' = EffectOf(c)
      BY <3>1, Effects DEF CallInv, Placed, EffectOf
    <3> QED BY <1>0, <3>1, <3>2 DEF Covered
  <2>2. CASE c \in called
    <3>1. Paid(c) /\ EffectOf(c)' = EffectOf(c) /\ Covered(c) /\ Placed(c)
      BY <1>0, <1>5, <2>2, CalledKeeps DEF Paid, EffectOf, BillingInv, CallInv
    <3>2. at[c] \in {"provider", "record", "resolve"}
      BY <1>5, <2>2, <3>1
         DEF Placed, Invokes, InvokeUndeclared, InvokeExceeding, Invoke, Calling, Proceeds, Checked, Reserve,
             Prepare, Return, Record, RecordRefused, Resolve, ResolveFails
    <3>3. CASE reservation' = reservation
      BY <2>2, <3>1, <3>2, <3>3 DEF Covered
    <3>4. CASE /\ at[c] = "resolve" /\ answer' = answer /\ written' = written /\ at'[c] = "done"
               /\ reservation' = [reservation EXCEPT ![EffectOf(c)] = ResolvesAs[answer[c]]]
      <4>1. answer[c] = "charge" => written[c] = 1
        BY <3>1, <3>4 DEF Placed, IsChargeBearing
      <4>2. reservation'[EffectOf(c)] = ResolvesAs[answer[c]]
        BY <1>0, <1>2, <2>2, <3>1, <3>4
      <4> QED BY <3>1, <3>4, <4>1, <4>2 DEF Covered
    <3> QED BY <1>5, <3>2, <3>3, <3>4, ReservationStep DEF Keeps, Books, Announces, Closes
  <2> QED BY <2>1, <2>2
<1> QED BY <1>1, <1>3, <1>4, <1>5, InvocationsSteps DEF BillingInv

-----------------------------------------------------------------------------
(* What an attempt knows of one call, and of two.                           *)
Known(c) ==
  /\ Effectful(c) => scope # "no_external_effects"
  /\ Effectful(c) /\ attempt[c] = ordinal => effects > 0
  /\ attempt[c] <= ordinal
  /\ ask[c] \in Ask => attempt[c] > 0
  /\ ask[c].by = "worker" /\ attempt[c] = ordinal => c \in invoked
  /\ ask[c].by = "worker" /\ attempt[c] < ordinal => c \in recorded[attempt[c]]

Apart == scope = "stage" =>
  \A c, d \in Call : Effectful(c) /\ Effectful(d) /\ attempt[c] = attempt[d] => c = d

(* A step that asks for nothing either keeps what was asked or takes it     *)
(* back.                                                                    *)
LEMMA ProceedsAsk ==
  ASSUME NEW c \in Call, Proceeds(c)
  PROVE  /\ UNCHANGED attemptVars
         /\ \/ ask' = ask /\ attempt' = attempt
            \/ ask' = [ask EXCEPT ![c] = NoAsk] /\ attempt' = [attempt EXCEPT ![c] = 0]
<1> USE DEF Moves, Done, Fails, Refused, Begins, attemptVars
<1>1. CASE Checked(c)
  BY <1>1 DEF Checked
<1>2. CASE Reserve(c)
  BY <1>2 DEF Reserve
<1>3. CASE Prepare(c)
  BY <1>3 DEF Prepare
<1>4. CASE (\E a \in Answer : Return(c, a)) \/ Record(c) \/ RecordRefused(c) \/ ResolveFails(c)
  <2>1. UNCHANGED attemptVars /\ ask' = ask /\ attempt' = attempt
    BY <1>4 DEF Return, Record, RecordRefused, ResolveFails
  <2> QED BY <2>1
<1>5. CASE Resolve(c)
  <2>1. UNCHANGED attemptVars /\ ask' = ask /\ attempt' = attempt
    BY <1>5 DEF Resolve
  <2> QED BY <2>1
<1> QED BY <1>1, <1>2, <1>3, <1>4, <1>5 DEF Proceeds

LEMMA AttemptStep ==
  InvocationsAssumption /\ InvocationsTypeOK /\ AttemptInv /\ [InvocationsNext]_invocationVars => AttemptInv'
<1> SUFFICES ASSUME InvocationsAssumption, StageType, AskType, AttemptInv, [InvocationsNext]_invocationVars
             PROVE  AttemptInv'
  BY DEF InvocationsTypeOK
<1>0. (\A c \in Call : Known(c)) /\ Apart /\ (~running => recorded[ordinal] = invoked)
  BY DEF AttemptInv, Known, Apart
<1>1. ASSUME (\A c \in Call : Known(c)'), Apart', ~running' => recorded'[ordinal'] = invoked' PROVE AttemptInv'
  BY <1>1 DEF AttemptInv, Known, Apart
<1>2. CASE UNCHANGED <<attemptVars, ask, attempt>>
  BY <1>2 DEF attemptVars, AttemptInv, Effectful
<1>3. CASE Settles
  <2>1. /\ running' = FALSE /\ recorded' = [recorded EXCEPT ![ordinal] = invoked]
        /\ UNCHANGED <<scope, ordinal, effects, invoked, ask, attempt>>
    BY <1>3 DEF Settles
  <2>2. recorded'[ordinal'] = invoked' /\ Apart'
    BY <1>0, <2>1 DEF StageType, Apart, Effectful
  <2>3. ASSUME NEW c \in Call PROVE Known(c)'
    <3>1. attempt[c] < ordinal => recorded'[attempt[c]] = recorded[attempt[c]]
      <4>1. CASE attempt[c] \in 1 .. Attempts
        BY <2>1, <4>1 DEF StageType
      <4>2. CASE attempt[c] = 0
        BY <2>1, <4>2 DEF StageType
      <4> QED BY <4>1, <4>2 DEF AskType
    <3> QED BY <1>0, <2>1, <3>1 DEF Known, Effectful
  <2> QED BY <1>1, <2>1, <2>2, <2>3
<1>4. CASE Retries
  <2>1. /\ ~running /\ running' = TRUE /\ ordinal' = ordinal + 1 /\ effects' = 0 /\ invoked' = {}
        /\ UNCHANGED <<scope, recorded, ask, attempt>>
    BY <1>4 DEF Retries
  <2>2. ASSUME NEW c \in Call PROVE Known(c)'
    <3>1. attempt[c] \in Nat /\ ordinal \in Nat /\ attempt[c] <= ordinal
      BY <1>0 DEF StageType, AskType, Known
    <3>2. ask[c].by = "worker" => c \in recorded[attempt[c]]
      BY <1>0, <2>1, <3>1 DEF Known
    <3> QED BY <1>0, <2>1, <3>1, <3>2 DEF Known, Effectful
  <2>3. Apart'
    BY <1>0, <2>1 DEF Apart, Effectful
  <2> QED BY <1>1, <2>1, <2>2, <2>3
<1>5. ASSUME NEW c \in Call, UNCHANGED <<scope, ordinal, running, recorded>>, effects' >= effects, effects' \in Nat,
             invoked \subseteq invoked', running \/ invoked' = invoked,
             ask' = [ask EXCEPT ![c] = NoAsk] /\ attempt' = [attempt EXCEPT ![c] = 0]
      PROVE  AttemptInv'
  <2>1. ask'[c] = NoAsk /\ attempt'[c] = 0 /\ \A d \in Call \ {c} : ask'[d] = ask[d] /\ attempt'[d] = attempt[d]
    BY <1>5 DEF AskType
  <2>2. NoAsk.effect # "deduplicated" /\ NoAsk.by # "worker" /\ NoAsk \notin Ask
    BY DEF NoAsk, Ask
  <2>3. Known(c)'
    BY <1>5, <2>1, <2>2 DEF Known, Effectful, StageType
  <2>4. ASSUME NEW d \in Call \ {c} PROVE Known(d)'
    BY <1>0, <1>5, <2>1, <2>4 DEF Known, Effectful, StageType
  <2>5. Apart'
    BY <1>0, <1>5, <2>1, <2>2 DEF Apart, Effectful
  <2> QED BY <1>0, <1>1, <1>5, <2>3, <2>4, <2>5
<1>6. ASSUME NEW c \in Call, Proceeds(c) PROVE AttemptInv'
  <2>1. UNCHANGED attemptVars
    BY <1>6, ProceedsAsk
  <2>2. effects \in Nat
    BY DEF StageType
  <2> QED BY <1>2, <1>5, <1>6, <2>1, <2>2, ProceedsAsk DEF attemptVars
<1>7. ASSUME NEW c \in Call, Invokes(c) PROVE AttemptInv'
  <2>1. CASE InvokeUndeclared(c)
    <3>1. effects' = effects /\ invoked' = invoked /\ UNCHANGED <<scope, ordinal, running, recorded>>
      BY <2>1 DEF InvokeUndeclared, attemptVars
    <3>2. ask' = [ask EXCEPT ![c] = NoAsk] /\ attempt' = [attempt EXCEPT ![c] = 0]
      BY <2>1 DEF InvokeUndeclared, Refused
    <3>3. effects' \in Nat /\ effects' >= effects /\ invoked \subseteq invoked'
      BY <3>1 DEF StageType
    <3> QED BY <1>5, <3>1, <3>2, <3>3
  <2>2. ASSUME NEW a \in Ask, Raise(a) PROVE effects' \in Nat /\ effects' >= effects
    BY <2>2 DEF Raise, StageType
  <2>3. ASSUME NEW a \in Ask, InvokeExceeding(c, a) PROVE AttemptInv'
    BY <1>5, <2>2, <2>3 DEF InvokeExceeding, Refused
  <2>4. ASSUME NEW a \in Ask, Invoke(c, a) PROVE AttemptInv'
    <3>1. /\ running /\ Raise(a) /\ UNCHANGED <<scope, ordinal, running, recorded>>
          /\ invoked' = IF a.by = "worker" THEN invoked \cup {c} ELSE invoked
          /\ a.effect = "deduplicated" => scope # "no_external_effects" /\ ~ScopeExceeded
      BY <2>4 DEF Invoke, Calling
    <3>2. effects' \in Nat /\ effects' >= effects /\ invoked \subseteq invoked'
      BY <2>2, <3>1
    <3>3. CASE Refused(c)
      BY <1>5, <3>1, <3>2, <3>3 DEF Refused
    <3>4. CASE ask' = [ask EXCEPT ![c] = a] /\ attempt' = [attempt EXCEPT ![c] = ordinal]
      <4>1. /\ ask'[c] = a /\ attempt'[c] = ordinal
            /\ \A d \in Call \ {c} : ask'[d] = ask[d] /\ attempt'[d] = attempt[d]
        BY <3>4 DEF AskType
      <4>2. a.effect = "deduplicated" => effects' > 0
        BY <3>1 DEF Raise, StageType
      <4>3. Known(c)'
        BY <3>1, <4>1, <4>2 DEF Known, Effectful, StageType
      <4>4. ASSUME NEW d \in Call \ {c} PROVE Known(d)'
        BY <1>0, <3>1, <3>2, <4>1, <4>4 DEF Known, Effectful, StageType
      <4>5. ASSUME scope = "stage", a.effect = "deduplicated", NEW d \in Call, Effectful(d)
            PROVE  attempt[d] # ordinal
        <5>1. effects = 0
          BY <3>1, <4>5 DEF ScopeExceeded, StageType
        <5> QED BY <1>0, <4>5, <5>1 DEF Known
      <4>6. Apart'
        <5> SUFFICES ASSUME scope' = "stage", NEW d \in Call, NEW e \in Call, Effectful(d)', Effectful(e)',
                            attempt'[d] = attempt'[e], d # e
                     PROVE  FALSE
          BY DEF Apart
        <5>1. CASE d # c /\ e # c
          BY <1>0, <3>1, <4>1, <5>1 DEF Apart, Effectful
        <5>2. CASE d = c
          BY <3>1, <4>1, <4>5, <5>2 DEF Effectful
        <5>3. CASE e = c
          BY <3>1, <4>1, <4>5, <5>3 DEF Effectful
        <5> QED BY <5>1, <5>2, <5>3
      <4> QED BY <1>1, <3>1, <4>3, <4>4, <4>6
    <3> QED BY <2>4, <3>3, <3>4 DEF Invoke
  <2> QED BY <1>7, <2>1, <2>3, <2>4 DEF Invokes
<1> QED BY <1>2, <1>3, <1>4, <1>6, <1>7, InvocationsSteps DEF invocationVars

-----------------------------------------------------------------------------
LEMMA InvocationsInductiveHolds == InvocationsAssumption /\ InvocationsSpec => []InvocationsInductive
<1> SUFFICES ASSUME InvocationsAssumption PROVE InvocationsSpec => []InvocationsInductive
  OBVIOUS
<1>1. InvocationsInit => InvocationsInductive
  <2> SUFFICES ASSUME InvocationsInit PROVE InvocationsInductive
    OBVIOUS
  <2> USE DEF InvocationsInit
  <2>1. StageType /\ AskType /\ reservation \in [Billed -> Held]
    BY DEF InvocationsAssumption, StageType, AskType, Place, Told, Held
  <2>2. CallInv
    BY DEF CallInv, Placed
  <2>3. BillingInv /\ BilledOnce
    BY DEF BillingInv, Covered, BilledOnce
  <2>4. NoAsk.effect # "deduplicated" /\ NoAsk.by # "worker" /\ NoAsk \notin Ask
    BY DEF NoAsk, Ask
  <2>5. AttemptInv
    BY <2>4 DEF AttemptInv, Effectful
  <2> QED BY <2>1, <2>2, <2>3, <2>5 DEF InvocationsInductive, InvocationsTypeOK
<1>2. InvocationsInductive /\ [InvocationsNext]_invocationVars => InvocationsInductive'
  BY InvocationsTypeStep, CallStep, BillingStep, AttemptStep DEF InvocationsInductive
<1> QED BY <1>1, <1>2, PTL DEF InvocationsSpec

(* "An unconfirmed charge may have landed, and re-running would spend       *)
(* again": no two calls, of whatever attempt, reach a provider for one      *)
(* billing key.                                                             *)
THEOREM BilledOnceHolds == InvocationsAssumption /\ InvocationsSpec => []BilledOnce
BY InvocationsInductiveHolds, PTL DEF InvocationsInductive

(* "Records are durable before authorization is released."                  *)
THEOREM ChargesKept == InvocationsAssumption /\ InvocationsSpec => []ChargesAreKept
<1>1. InvocationsInductive => ChargesAreKept
  <2> SUFFICES ASSUME InvocationsInductive, NEW c \in called, at[c] = "done"
               PROVE  IF Paid(c)
                      THEN /\ reservation[EffectOf(c)] = "settled" => MostCharged[answer[c]] = 1 /\ written[c] = 1
                           /\ reservation[EffectOf(c)] = "released" => MostCharged[answer[c]] = 0
                      ELSE IsChargeBearing[answer[c]] > 0 => told[c] = "failure"
    BY DEF ChargesAreKept
  <2>1. c \in Call /\ Placed(c) /\ Covered(c)
    BY DEF InvocationsInductive, InvocationsTypeOK, AskType, CallInv, BillingInv
  <2>2. \A a \in DOMAIN IsChargeBearing :
          /\ ResolvesAs[a] = "settled" => a = "charge"
          /\ ResolvesAs[a] = "released" => MostCharged[a] = 0
    BY DEF IsChargeBearing, ResolvesAs, MostCharged
  <2>3. MostCharged["charge"] = 1
    BY DEF MostCharged
  <2>4. answer[c] \in DOMAIN IsChargeBearing
    BY <2>1 DEF Placed
  <2>5. CASE Paid(c)
    BY <2>1, <2>2, <2>3, <2>4, <2>5 DEF Covered
  <2>6. CASE ~Paid(c)
    BY <2>1, <2>6 DEF Placed
  <2> QED BY <2>5, <2>6
<1> QED BY <1>1, InvocationsInductiveHolds, PTL

(* A call that has reached its provider is within its reservation, what its *)
(* stage declared, and the record of its attempt.                           *)
THEOREM CallsDeclared == InvocationsAssumption /\ InvocationsSpec => []CallsAreDeclared
<1>1. InvocationsInductive => CallsAreDeclared
  <2> SUFFICES ASSUME InvocationsInductive, NEW c \in called
               PROVE  /\ at[c] = "provider" /\ Paid(c) => reservation[EffectOf(c)] = "dispatch_prepared"
                      /\ Effectful(c) => scope # "no_external_effects"
                      /\ Effectful(c) /\ scope = "stage" =>
                           \A d \in called : attempt[d] = attempt[c] /\ Effectful(d) => d = c
                      /\ ask[c].by = "worker" /\ (attempt[c] = ordinal => ~running) => c \in recorded[attempt[c]]
    BY DEF CallsAreDeclared
  <2>1. called \subseteq Call /\ Covered(c) /\ AttemptInv
    BY DEF InvocationsInductive, InvocationsTypeOK, AskType, BillingInv
  <2>2. at[c] = "provider" /\ Paid(c) => reservation[EffectOf(c)] = "dispatch_prepared"
    BY <2>1 DEF Covered
  <2>3. Effectful(c) => scope # "no_external_effects"
    BY <2>1 DEF AttemptInv
  <2>4. Effectful(c) /\ scope = "stage" => \A d \in called : attempt[d] = attempt[c] /\ Effectful(d) => d = c
    BY <2>1 DEF AttemptInv
  <2>5. attempt[c] \in Nat /\ ordinal \in Nat /\ attempt[c] <= ordinal
    BY <2>1 DEF AttemptInv, InvocationsInductive, InvocationsTypeOK, StageType, AskType
  <2>6. ask[c].by = "worker" /\ (attempt[c] = ordinal => ~running) => c \in recorded[attempt[c]]
    BY <2>1, <2>5 DEF AttemptInv
  <2> QED BY <2>2, <2>3, <2>4, <2>6
<1> QED BY <1>1, InvocationsInductiveHolds, PTL
-----------------------------------------------------------------------------
(* A behaviour of the composition is one of the stage throughout, and one of *)
(* the spend service if it is of that part.                                  *)
LEMMA Composition ==
  MCSpec => /\ InvocationsSpec
            /\ part = "dispatch" => Spec
            /\ ~(part = "dispatch") => [](~(part = "dispatch"))
<1>1. MCInit => InvocationsInit /\ (part = "dispatch" => Init)
  BY DEF MCInit
<1>2. [MCNext]_mcVars => [InvocationsNext]_invocationVars /\ part' = part
  BY Zenon DEF MCNext, mcVars, IsOver
<1>3. part = "dispatch" /\ [MCNext]_mcVars => [Next]_vars
  BY Zenon DEF MCNext, mcVars
<1>4. part = "dispatch" /\ [MCNext]_mcVars => (part = "dispatch")'
  BY <1>2
<1>5. ~(part = "dispatch") /\ [MCNext]_mcVars => (~(part = "dispatch"))'
  BY <1>2
<1> QED BY <1>1, <1>2, <1>3, <1>4, <1>5, PTL DEF MCSpec, InvocationsSpec, Spec

(* No second provider call, under one reservation of the service or for one  *)
(* billing key of the stage.                                                 *)
THEOREM NoCallIsRepeated == InstantsDiffer /\ MCSpec => []NoSecondCall
<1> SUFFICES ASSUME InstantsDiffer PROVE MCSpec => []NoSecondCall
  OBVIOUS
<1>1. Spec => []DispatchedOnce
  BY OneCall
<1>2. InvocationsSpec => []BilledOnce
  BY BilledOnceHolds, StageAssumption
<1>3. BilledOnce /\ (DispatchedOnce \/ ~(part = "dispatch")) => NoSecondCall
  BY DEF NoSecondCall
<1> QED BY <1>1, <1>2, <1>3, Composition, PTL

(* Every provider charge is on record or still authorized, and the stage     *)
(* releases nothing it may owe.                                              *)
THEOREM EveryChargeIsKept == InstantsDiffer /\ ~Releasing /\ MCSpec => []NoChargeIsLost
<1> SUFFICES ASSUME InstantsDiffer, ~Releasing PROVE MCSpec => []NoChargeIsLost
  OBVIOUS
<1>1. Spec => []ChargeAccounted
  BY NoChargeLost
<1>2. InvocationsSpec => []ChargesAreKept
  BY ChargesKept, StageAssumption
<1>3. ChargesAreKept /\ (ChargeAccounted \/ ~(part = "dispatch")) => NoChargeIsLost
  BY DEF NoChargeIsLost
<1> QED BY <1>1, <1>2, <1>3, Composition, PTL

(* A provider call under way holds its authorization and is within what its  *)
(* stage declared.                                                           *)
THEOREM EveryCallIsCovered == InstantsDiffer /\ ~Releasing /\ MCSpec => []CallsAreCovered
<1> SUFFICES ASSUME InstantsDiffer, ~Releasing PROVE MCSpec => []CallsAreCovered
  OBVIOUS
<1>1. Spec => []LiveCallIsCovered
  BY LiveCall
<1>2. InvocationsSpec => []CallsAreDeclared
  BY CallsDeclared, StageAssumption
<1>3. CallsAreDeclared /\ (LiveCallIsCovered \/ ~(part = "dispatch")) => CallsAreCovered
  BY DEF CallsAreCovered
<1> QED BY <1>1, <1>2, <1>3, Composition, PTL

=============================================================================
