-------------------------- MODULE TtsLedger_proofs --------------------------
(***************************************************************************)
(* Proofs about TtsLedger, for any segments, plans, processes, outcomes and *)
(* numbers of approvals and takes.                                          *)
(***************************************************************************)
EXTENDS TtsLedger, FiniteSetTheorems, NaturalsInduction, WellFoundedInduction, SequenceTheorems, TLAPS

Billing == {"none", "reserved", "prepared", "settled", "released", "billing_unknown"}

Takes == [id : Nat, segment : Segment, scope : Scope \cup {None}, decision : Nat \cup {None}, attempt : Nat,
          supersedes : Nat \cup {NoTake}, unauthorized : BOOLEAN, verdict : Verdict \cup {"none"}]

(* What a process may hold at each place of its operation.                  *)
Jobs ==
  UNION {{Idle},
         [pc : {"reserving"}, segment : Segment, scope : Scope, decision : Nat],
         [pc : {"dispatching"}, segment : Segment, scope : Scope, decision : Nat, key : Key],
         [pc : {"settling"}, segment : Segment, scope : Scope, decision : Nat, key : Key \cup {None}],
         [pc : {"recording", "checking", "appending"}, scope : Scope, take : Takes],
         [pc : {"appending", "deciding"}, take : Takes]}

(* A process with a take that is not in the list yet.                       *)
Bringing(s) == session[s].pc \in {"recording", "checking", "appending"}

Typed ==
  /\ plans \in Seq(Scope) /\ approved \in Seq(Scope)
  /\ Len(approved) <= MaxDecisions /\ inForce \in DOMAIN approved \cup {None}
  /\ reservation \in [Key -> Billing] /\ calls \in [Decision \X Segment -> Nat]
  /\ \A c \in costs : c.take \in 1 .. minted /\ c.key \in Key
  /\ takes \in Seq(Takes) /\ minted \in 0 .. MaxTakes
  /\ session \in [Session -> Jobs]

LEMMA JobsAt ==
  ASSUME NEW job \in Jobs
  PROVE  /\ job.pc = "reserving" => job \in [pc : {"reserving"}, segment : Segment, scope : Scope, decision : Nat]
         /\ job.pc = "dispatching" =>
              job \in [pc : {"dispatching"}, segment : Segment, scope : Scope, decision : Nat, key : Key]
         /\ job.pc = "settling" =>
              job \in [pc : {"settling"}, segment : Segment, scope : Scope, decision : Nat, key : Key \cup {None}]
         /\ job.pc \in {"recording", "checking"} =>
              job \in [pc : {"recording", "checking", "appending"}, scope : Scope, take : Takes]
         /\ job.pc \in {"recording", "checking", "appending", "deciding"} => job.take \in Takes
         /\ job.pc \in {"idle", "reserving", "dispatching", "settling", "recording", "checking", "appending", "deciding"}
BY DEF Jobs, Idle

(* Each take has an id of its own, in the list or with the process that     *)
(* brings it; what a person decides about is in the list.                   *)
Kin(t, u) ==
  /\ t.id = u.id /\ t.segment = u.segment /\ t.scope = u.scope /\ t.decision = u.decision
  /\ t.supersedes = u.supersedes /\ t.unauthorized = u.unauthorized

Same(t, u) == Kin(t, u) /\ t.attempt = u.attempt

IdInv ==
  /\ \A i \in DOMAIN takes : takes[i].id \in 1 .. minted /\ takes[i].attempt \in 1 .. MaxTakes
  /\ \A i, j \in DOMAIN takes : takes[i].id = takes[j].id => i = j
  /\ \A s \in Session : Bringing(s) =>
       /\ session[s].take.id \in 1 .. minted
       /\ session[s].pc # "recording" => session[s].take.attempt \in 1 .. MaxTakes
       /\ \A i \in DOMAIN takes : takes[i].id # session[s].take.id
       /\ \A r \in Session \ {s} : Bringing(r) => session[r].take.id # session[s].take.id
  /\ \A s \in Session : session[s].pc = "deciding" => \E i \in DOMAIN takes : Same(takes[i], session[s].take)

-----------------------------------------------------------------------------
LEMMA UpTo ==
  ASSUME NEW n \in Nat
  PROVE  IsFiniteSet(1 .. n) /\ Cardinality(1 .. n) = n
<1>1. Cardinality(1 .. n) = IF 1 > n THEN 0 ELSE n - 1 + 1
  BY FS_Interval
<1> QED BY <1>1, FS_Interval

(* The takes of a segment, counted.                                         *)
Positions(segment) == {i \in DOMAIN takes : takes[i].segment = segment}

LEMMA Counted ==
  ASSUME Typed, IdInv, NEW segment
  PROVE  /\ IsFiniteSet(Positions(segment)) /\ Attempts(segment) \in Nat
         /\ Attempts(segment) <= Len(takes) /\ Len(takes) <= minted
         /\ \A s \in Session : Bringing(s) => Len(takes) + 1 <= minted
<1>1. Len(takes) \in Nat /\ DOMAIN takes = 1 .. Len(takes) /\ minted \in Nat
  BY DEF Typed
<1>2. IsFiniteSet(1 .. Len(takes)) /\ Cardinality(1 .. Len(takes)) = Len(takes)
  BY <1>1, UpTo
<1>3. Positions(segment) \in SUBSET (1 .. Len(takes))
  BY <1>1 DEF Positions
<1>4. IsFiniteSet(Positions(segment)) /\ Cardinality(Positions(segment)) <= Len(takes) /\ Cardinality(Positions(segment)) \in Nat
  BY <1>2, <1>3, FS_Subset, FS_CardinalityType
<1>5. Attempts(segment) = Cardinality(Positions(segment))
  BY DEF Attempts, Positions
<1>6. ASSUME NEW T, IsFiniteSet(T), \A i \in DOMAIN takes : takes[i].id \in T PROVE Len(takes) <= Cardinality(T)
  <2> DEFINE f == [i \in 1 .. Len(takes) |-> takes[i].id]
  <2>1. f \in Injection(1 .. Len(takes), T)
    BY <1>1, <1>6 DEF Injection, IsInjective, IdInv
  <2> QED BY <1>2, <1>6, <2>1, FS_Injection
<1>7. IsFiniteSet(1 .. minted) /\ Cardinality(1 .. minted) = minted
  BY <1>1, UpTo
<1>8. Len(takes) <= minted
  BY <1>6, <1>7 DEF IdInv
<1>9. ASSUME NEW s \in Session, Bringing(s) PROVE Len(takes) + 1 <= minted
  <2> DEFINE T == (1 .. minted) \ {session[s].take.id}
  <2>1. session[s].take.id \in 1 .. minted /\ \A i \in DOMAIN takes : takes[i].id \in T
    BY <1>9 DEF IdInv
  <2>2. IsFiniteSet(T) /\ Cardinality(T) = minted - 1
    BY <1>7, <2>1, FS_RemoveElement
  <2> HIDE DEF T
  <2>3. Len(takes) <= minted - 1
    BY <1>6, <2>1, <2>2
  <2> QED BY <1>1, <2>3
<1> QED BY <1>4, <1>5, <1>8, <1>9

LEMMA NextInRange ==
  ASSUME Typed, IdInv, NEW segment
  PROVE  /\ Attempts(segment) + 1 \in 1 .. MaxTakes + 1
         /\ minted < MaxTakes => NextAttempt(segment) \in 1 .. MaxTakes
         /\ \A s \in Session : Bringing(s) => NextAttempt(segment) \in 1 .. MaxTakes
<1>1. minted \in Nat /\ minted <= MaxTakes /\ MaxTakes \in Nat /\ Len(takes) \in Nat
  BY LedgerAssumption DEF Typed
<1> QED BY <1>1, Counted DEF NextAttempt

(* What a process holds while it pays.                                      *)
LEMMA GrantInForce ==
  ASSUME Typed, inForce # None PROVE inForce \in Decision /\ inForce \in Nat /\ inForce \in DOMAIN approved
BY LedgerAssumption DEF Typed, Decision

-----------------------------------------------------------------------------
(* One process moves at a time.                                             *)
LEMMA Went ==
  ASSUME Typed, NEW s \in Session, NEW job, Goto(s, job)
  PROVE  session'[s] = job /\ \A r \in Session \ {s} : session'[r] = session[r]
BY DEF Goto, Typed

LEMMA PermitStep ==
  ASSUME Typed, NEW s \in Session, NEW segment \in Segment, NEW scope \in Scope, Permit(s, segment, scope)
  PROVE  \E job \in Jobs : Goto(s, job) /\ job.pc = "reserving"
<1>1. inForce \in Nat
  BY GrantInForce DEF Permit, Permitted
<1> DEFINE job == [pc |-> "reserving", segment |-> segment, scope |-> scope, decision |-> inForce]
<1>2. job \in Jobs
  BY <1>1 DEF Jobs
<1> QED BY <1>2 DEF Permit

(* Who goes on to the provider has a reservation, whose key is within the   *)
(* takes there are.                                                         *)
LEMMA ReserveStep ==
  ASSUME Typed, IdInv, NEW s \in Session, Reserve(s)
  PROVE  \E job \in Jobs :
           /\ Goto(s, job)
           /\ \/ job.pc = "settling" /\ job.key = None /\ UNCHANGED reservation
              \/ job.pc = "idle" /\ UNCHANGED reservation
              \/ /\ job.pc = "dispatching" /\ job.key[3] = Attempts(job.key[2]) + 1
                 /\ \/ reservation[job.key] # "none" /\ UNCHANGED reservation
                    \/ reservation[job.key] = "none" /\ reservation' = [reservation EXCEPT ![job.key] = "reserved"]
<1> DEFINE c == session[s]
           own == <<inForce, c.segment, Attempts(c.segment) + 1>>
           holding(pc, key) ==
             [pc |-> pc, segment |-> c.segment, scope |-> c.scope, decision |-> c.decision, key |-> key]
<1>1. c \in [pc : {"reserving"}, segment : Segment, scope : Scope, decision : Nat]
  BY JobsAt DEF Reserve, Typed
<1>2. \/ Goto(s, holding("settling", None)) /\ UNCHANGED reservation
      \/ Goto(s, Idle) /\ UNCHANGED reservation
      \/ /\ inForce # None /\ Goto(s, holding("dispatching", own))
         /\ \/ reservation[own] # "none" /\ UNCHANGED reservation
            \/ reservation[own] = "none" /\ reservation' = [reservation EXCEPT ![own] = "reserved"]
  BY DEF Reserve
<1>3. inForce # None => own \in Key
  BY <1>1, NextInRange, GrantInForce DEF Key
<1>4. own[3] = Attempts(own[2]) + 1
  OBVIOUS
<1> HIDE DEF c, own
<1>5. holding("settling", None) \in Jobs /\ Idle \in Jobs /\ (own \in Key => holding("dispatching", own) \in Jobs)
  BY <1>1 DEF Jobs
<1> QED BY <1>2, <1>3, <1>4, <1>5 DEF Idle

LEMMA DispatchStep ==
  ASSUME Typed, NEW s \in Session, Dispatch(s)
  PROVE  /\ session[s].pc = "dispatching" /\ session[s].key \in Key
         /\ \E job \in Jobs :
              /\ Goto(s, job)
              /\ \/ job.pc = "idle" /\ UNCHANGED <<reservation, calls>>
                 \/ /\ job.pc = "settling" /\ job.key = session[s].key /\ reservation[job.key] = "reserved"
                    /\ reservation' = [reservation EXCEPT ![job.key] = "prepared"]
                    /\ calls' = [calls EXCEPT ![<<job.key[1], job.key[2]>>] = @ + 1]
<1> DEFINE c == session[s]
           job == [c EXCEPT !.pc = "settling"]
<1>1. c \in [pc : {"dispatching"}, segment : Segment, scope : Scope, decision : Nat, key : Key]
  BY JobsAt DEF Dispatch, Typed
<1>2. \/ Goto(s, Idle) /\ UNCHANGED <<reservation, calls>>
      \/ /\ Goto(s, job) /\ reservation[c.key] = "reserved"
         /\ reservation' = [reservation EXCEPT ![c.key] = "prepared"]
         /\ calls' = [calls EXCEPT ![<<c.key[1], c.key[2]>>] = @ + 1]
  BY DEF Dispatch
<1> HIDE DEF c
<1>3. job \in [pc : {"settling"}, segment : Segment, scope : Scope, decision : Nat, key : Key \cup {None}] /\ job.key = c.key
      /\ job.pc = "settling"
  BY <1>1
<1>4. job \in Jobs /\ Idle \in Jobs
  BY <1>3 DEF Jobs
<1> QED BY <1>1, <1>2, <1>3, <1>4 DEF Idle, c

(* The charge is on record before the take is, under the take's id.         *)
LEMMA SettleStep ==
  ASSUME Typed, NEW s \in Session, NEW outcome, Settle(s, outcome)
  PROVE  /\ session[s].pc = "settling" /\ session[s].key \in Key \cup {None}
         /\ minted' = minted + 1 /\ minted' \in 1 .. MaxTakes
         /\ \E job \in Jobs :
              /\ Goto(s, job) /\ job.pc = "recording" /\ job.take.scope = job.scope /\ job.take.id = minted'
              /\ job.take.supersedes = NoTake
         /\ \A c \in costs' \ costs : c.take = minted' /\ c.key \in Key
         /\ \/ UNCHANGED reservation
            \/ /\ session[s].key \in Key /\ session[s].key # None
               /\ \E status \in {"settled", "released", "billing_unknown"} :
                    reservation' = [reservation EXCEPT ![session[s].key] = status]
<1> DEFINE c == session[s]
           take == Draft(minted', c.segment, c.scope, c.decision, NoTake, outcome = "diverged")
           job == [pc |-> "recording", scope |-> c.scope, take |-> take]
           status == CASE outcome \in {"charged", "diverged"} -> "settled"
                     [] outcome = "free" -> "released"
                     [] OTHER -> "billing_unknown"
           record(st) == {[take |-> minted', decision |-> c.decision, key |-> c.key, status |-> st]}
           linked == IF c.key = None \/ outcome = "silent" THEN {}
                     ELSE record(CASE outcome = "free" -> "free"
                                   [] outcome = "unconfirmed" -> "unknown"
                                   [] OTHER -> "billed")
<1>1. c \in [pc : {"settling"}, segment : Segment, scope : Scope, decision : Nat, key : Key \cup {None}] /\ c.pc = "settling"
  BY JobsAt DEF Settle, Typed
<1>2. /\ minted' = minted + 1 /\ minted < MaxTakes /\ Goto(s, job)
      /\ reservation' = IF c.key = None THEN reservation ELSE [reservation EXCEPT ![c.key] = status]
      /\ costs' = costs \cup linked
  BY DEF Settle
<1>3. minted' \in Nat /\ minted' \in 1 .. MaxTakes
  BY <1>2, LedgerAssumption DEF Typed
<1>4. status \in {"settled", "released", "billing_unknown"}
  OBVIOUS
<1>7. \A cost \in linked : cost.take = minted' /\ (c.key # None /\ cost.key = c.key)
  <2>1. c.key = None \/ outcome = "silent" => linked = {}
    OBVIOUS
  <2>2. ~(c.key = None \/ outcome = "silent") => \E st : linked = record(st)
    OBVIOUS
  <2>3. \A st : \A cost \in record(st) : cost.take = minted' /\ cost.key = c.key
    OBVIOUS
  <2> HIDE DEF linked, record
  <2> QED BY <2>1, <2>2, <2>3
<1> HIDE DEF c, status, linked
<1>5. take \in Takes /\ take.scope = c.scope /\ take.id = minted' /\ take.supersedes = NoTake
  BY <1>1, <1>3 DEF Draft, Takes
<1> HIDE DEF take
<1>6. job \in Jobs
  BY <1>1, <1>5 DEF Jobs
<1> QED BY <1>1, <1>2, <1>3, <1>4, <1>5, <1>6, <1>7 DEF c

(* Before it is checked, a take is counted, and its plan id leads to a plan. *)
LEMMA RecordTakeStep ==
  ASSUME Typed, IdInv, NEW s \in Session, RecordTake(s)
  PROVE  /\ session[s].pc = "recording"
         /\ \E job \in Jobs :
              /\ Goto(s, job)
              /\ \/ job.pc = "idle"
                 \/ /\ job.pc \in {"checking", "appending"} /\ plans # <<>>
                    /\ Kin(job.take, session[s].take) /\ job.take.attempt \in 1 .. MaxTakes
                    /\ job.pc = "checking" => job.scope = session[s].scope
                    /\ job.pc = "appending" => job.take.decision = None \/ job.take.unauthorized
<1> DEFINE take == session[s].take
           place == IF take.decision = None \/ take.unauthorized THEN "appending" ELSE "checking"
           counted == [take EXCEPT !.attempt = NextAttempt(take.segment)]
           job == [pc |-> place, scope |-> session[s].scope, take |-> counted]
<1>1. /\ session[s].pc = "recording" /\ take \in Takes
      /\ session[s] \in [pc : {"recording", "checking", "appending"}, scope : Scope, take : Takes]
  BY JobsAt DEF RecordTake, Typed
<1>2. \/ Goto(s, Idle)
      \/ plans # <<>> /\ Goto(s, job)
  BY DEF RecordTake
<1>3. NextAttempt(take.segment) \in 1 .. MaxTakes /\ NextAttempt(take.segment) \in Nat
  BY <1>1, NextInRange DEF Bringing
<1>4. session[s].scope \in Scope
  BY <1>1
<1> HIDE DEF take
<1>5. counted \in Takes /\ Kin(counted, take) /\ counted.attempt \in 1 .. MaxTakes
  BY <1>1, <1>3 DEF Takes, Kin
<1>6. place \in {"checking", "appending"} /\ (place = "appending" => counted.decision = None \/ counted.unauthorized)
  BY <1>5 DEF Kin
<1> HIDE DEF counted, place
<1>7. job \in Jobs /\ Idle \in Jobs
  BY <1>4, <1>5, <1>6 DEF Jobs
<1> QED BY <1>1, <1>2, <1>5, <1>6, <1>7 DEF Idle, take

LEMMA SubmitStep ==
  ASSUME Typed, IdInv, NEW s \in Session, NEW segment \in Segment, NEW supersedes \in Nat \cup {NoTake},
         NEW unauthorized \in BOOLEAN, Submit(s, segment, supersedes, unauthorized)
  PROVE  /\ session[s] = Idle /\ minted' = minted + 1 /\ minted' \in 1 .. MaxTakes
         /\ \E job \in Jobs :
              /\ Goto(s, job) /\ job.pc = "appending"
              /\ job.take.id = minted' /\ job.take.attempt \in 1 .. MaxTakes /\ job.take.decision = None
              /\ job.take.supersedes = supersedes
<1> DEFINE take == Draft(minted', segment, None, None, supersedes, unauthorized)
           counted == [take EXCEPT !.attempt = NextAttempt(segment)]
           job == [pc |-> "appending", take |-> counted]
<1>1. /\ session[s] = Idle /\ minted < MaxTakes
      /\ minted' = minted + 1 /\ Goto(s, job)
  BY DEF Submit
<1>2. minted' \in Nat /\ minted' \in 1 .. MaxTakes
  BY <1>1, LedgerAssumption DEF Typed
<1>3. NextAttempt(segment) \in 1 .. MaxTakes /\ NextAttempt(segment) \in Nat
  BY <1>1, NextInRange
<1>4. take \in Takes /\ take.id = minted' /\ take.decision = None /\ take.supersedes = supersedes
  BY <1>2 DEF Draft, Takes
<1> HIDE DEF take
<1>5. /\ counted \in Takes /\ counted.id = minted' /\ counted.decision = None /\ counted.attempt \in 1 .. MaxTakes
      /\ counted.supersedes = supersedes
  BY <1>3, <1>4 DEF Takes
<1> HIDE DEF counted
<1>6. job \in Jobs
  BY <1>5 DEF Jobs
<1> QED BY <1>1, <1>2, <1>5, <1>6

(* A take that passes rests on the approval in force of its plan.           *)
LEMMA AssertStep ==
  ASSUME Typed, NEW s \in Session, AssertChargeAuthorized(s)
  PROVE  /\ session[s].pc = "checking"
         /\ \E job \in Jobs :
              /\ Goto(s, job)
              /\ \/ job.pc = "idle"
                 \/ /\ job.pc = "appending" /\ job.take = session[s].take
                    /\ job.take.scope = Head(plans) /\ inForce # None
                    /\ approved[inForce] = session[s].scope /\ inForce = job.take.decision
<1> DEFINE c == session[s]
           job == [c EXCEPT !.pc = "appending"]
<1>1. c \in [pc : {"recording", "checking", "appending"}, scope : Scope, take : Takes]
  BY JobsAt DEF AssertChargeAuthorized, Typed
<1>2. \/ Goto(s, Idle)
      \/ /\ Goto(s, job) /\ c.take.scope = Head(plans) /\ inForce # None
         /\ approved[inForce] = c.scope /\ inForce = c.take.decision
  BY DEF AssertChargeAuthorized, Permitted
<1> HIDE DEF c
<1>3. job \in [pc : {"appending"}, scope : Scope, take : Takes] /\ job.take = c.take
  BY <1>1
<1> HIDE DEF job
<1>4. job \in Jobs /\ Idle \in Jobs /\ job.pc = "appending"
  BY <1>3 DEF Jobs
<1> QED BY <1>2, <1>3, <1>4 DEF Idle, c, AssertChargeAuthorized

LEMMA DecideStep ==
  ASSUME Typed, NEW s \in Session, NEW i \in DOMAIN takes, NEW verdict \in Verdict, DecideTake(s, i, verdict)
  PROVE  \E job \in Jobs : Goto(s, job) /\ job.pc = "deciding" /\ Same(takes[i], job.take)
<1> DEFINE take == [takes[i] EXCEPT !.verdict = verdict]
           job == [pc |-> "deciding", take |-> take]
<1>1. takes[i] \in Takes
  BY DEF Typed
<1>2. take \in Takes /\ Same(takes[i], take)
  BY <1>1 DEF Takes, Same, Kin
<1> HIDE DEF take
<1>3. job \in Jobs
  BY <1>2 DEF Jobs
<1>4. Goto(s, [pc |-> "deciding", take |-> take])
  BY DEF DecideTake, take
<1> QED BY <1>2, <1>3, <1>4

-----------------------------------------------------------------------------
(* What holds the takes of a process to their ids, when it goes on to job   *)
(* and nothing is written to the list.                                      *)
LEMMA IdsKept ==
  ASSUME Typed, IdInv, NEW s \in Session, NEW job, Goto(s, job),
         UNCHANGED takes, minted' \in Nat, minted' >= minted,
         job.pc \in {"recording", "checking", "appending"} =>
           /\ job.pc # "recording" => job.take.attempt \in 1 .. MaxTakes
           /\ \/ Bringing(s) /\ job.take.id = session[s].take.id
              \/ job.take.id = minted' /\ minted' = minted + 1,
         job.pc = "deciding" => \E i \in DOMAIN takes : Same(takes[i], job.take)
  PROVE  IdInv'
<1>1. session'[s] = job /\ \A r \in Session \ {s} : session'[r] = session[r]
  BY Went
<1>2. minted \in Nat /\ \A n \in 1 .. minted : n \in 1 .. minted' /\ n # minted + 1
  BY DEF Typed
<1>3. minted' = minted + 1 => minted' \in 1 .. minted'
  BY <1>2
<1>4. \A i \in DOMAIN takes : takes[i].id \in 1 .. minted' /\ takes[i].attempt \in 1 .. MaxTakes
  BY <1>2 DEF IdInv
<1>5. ASSUME NEW r \in Session, Bringing(r)'
      PROVE  /\ session'[r].take.id \in 1 .. minted'
             /\ session'[r].pc # "recording" => session'[r].take.attempt \in 1 .. MaxTakes
             /\ \A i \in DOMAIN takes : takes[i].id # session'[r].take.id
  <2>1. CASE r # s
    BY <1>1, <1>2, <1>5, <2>1 DEF IdInv, Bringing
  <2>2. CASE r = s
    BY <1>1, <1>2, <1>3, <1>5, <2>2 DEF IdInv, Bringing
  <2> QED BY <2>1, <2>2
<1>6. ASSUME NEW r \in Session, Bringing(r)', NEW q \in Session \ {r}, Bringing(q)'
      PROVE  session'[q].take.id # session'[r].take.id
  <2>1. \A u \in Session \ {s} : Bringing(u)' => Bringing(u) /\ session'[u] = session[u] /\ session[u].take.id \in 1 .. minted
    BY <1>1 DEF IdInv, Bringing
  <2>2. \A u \in Session \ {s} : Bringing(u)' /\ Bringing(s)' => session'[u].take.id # session'[s].take.id
    BY <1>1, <1>2, <2>1 DEF IdInv, Bringing
  <2> QED BY <1>6, <2>1, <2>2 DEF IdInv
<1>7. \A r \in Session : session'[r].pc = "deciding" => \E i \in DOMAIN takes : Same(takes[i], session'[r].take)
  BY <1>1 DEF IdInv
<1> QED BY <1>4, <1>5, <1>6, <1>7 DEF IdInv

-----------------------------------------------------------------------------
(* The two writes of the list.                                              *)
LEMMA AppendStep ==
  ASSUME Typed, IdInv, NEW s \in Session, AppendTake(s)
  PROVE  /\ session[s].pc = "appending" /\ session[s].take \in Takes
         /\ Goto(s, Idle) /\ takes' = Append(takes, session[s].take)
         /\ takes' \in Seq(Takes) /\ DOMAIN takes' = DOMAIN takes \cup {Len(takes) + 1}
         /\ \A i \in DOMAIN takes : takes'[i] = takes[i]
         /\ takes'[Len(takes) + 1] = session[s].take
<1>1. session[s].pc = "appending" /\ Goto(s, Idle) /\ takes' = Append(takes, session[s].take)
  BY DEF AppendTake
<1>2. session[s].take \in Takes
  BY <1>1, JobsAt DEF Typed
<1>3. takes \in Seq(Takes)
  BY DEF Typed
<1> QED BY <1>1, <1>2, <1>3

LEMMA ReplaceStep ==
  ASSUME Typed, IdInv, NEW s \in Session, Replace(s)
  PROVE  /\ session[s].pc = "deciding" /\ Goto(s, Idle)
         /\ takes' \in Seq(Takes) /\ DOMAIN takes' = DOMAIN takes
         /\ \A i \in DOMAIN takes : Same(takes'[i], takes[i])
<1> DEFINE take == session[s].take
<1>1. session[s].pc = "deciding" /\ Goto(s, Idle)
      /\ takes' = [i \in DOMAIN takes |-> IF takes[i].id = take.id THEN take ELSE takes[i]]
  BY DEF Replace
<1>2. take \in Takes
  BY <1>1, JobsAt DEF Typed
<1>3. PICK j \in DOMAIN takes : Same(takes[j], take)
  BY <1>1 DEF IdInv
<1>4. Len(takes) \in Nat /\ DOMAIN takes = 1 .. Len(takes) /\ \A i \in DOMAIN takes : takes[i] \in Takes
  BY DEF Typed
<1> HIDE DEF take
<1>5. DOMAIN takes' = DOMAIN takes /\ \A i \in DOMAIN takes : takes'[i] \in Takes
  BY <1>1, <1>2, <1>4
<1>6. takes' \in [1 .. Len(takes) -> Takes]
  BY <1>1, <1>2, <1>4
<1>7. ASSUME NEW i \in DOMAIN takes PROVE Same(takes'[i], takes[i])
  <2>1. CASE takes[i].id = take.id
    <3>1. i = j
      BY <1>3, <2>1 DEF Same, Kin, IdInv
    <3> QED BY <1>1, <1>3, <2>1, <3>1 DEF Same, Kin
  <2>2. CASE takes[i].id # take.id
    BY <1>1, <2>2 DEF Same, Kin
  <2> QED BY <2>1, <2>2
<1> QED BY <1>1, <1>4, <1>5, <1>6, <1>7

LEMMA WritesKeepIds ==
  ASSUME Typed, IdInv, NEW s \in Session, AppendTake(s) \/ Replace(s)
  PROVE  IdInv'
<1>1. minted' = minted /\ Goto(s, Idle)
  BY DEF AppendTake, Replace, ledger
<1>2. session'[s].pc = "idle" /\ \A r \in Session \ {s} : session'[r] = session[r]
  BY <1>1, Went DEF Idle
<1>3. \A r \in Session : Bringing(r)' => r # s /\ Bringing(r) /\ session'[r] = session[r]
  BY <1>2 DEF Bringing
<1>4. \A r \in Session : session'[r].pc = "deciding" => r # s /\ session'[r] = session[r]
  BY <1>2
<1>5. ASSUME AppendTake(s) PROVE IdInv'
  <2>1. /\ Bringing(s) /\ DOMAIN takes' = DOMAIN takes \cup {Len(takes) + 1} /\ \A i \in DOMAIN takes : takes'[i] = takes[i]
        /\ takes'[Len(takes) + 1] = session[s].take /\ session[s].pc = "appending"
    BY <1>5, AppendStep DEF Bringing
  <2>2. session[s].take.attempt \in 1 .. MaxTakes /\ session[s].take.id \in 1 .. minted
    BY <2>1 DEF IdInv
  <2>3. \A i \in DOMAIN takes' : i \in DOMAIN takes \/ i = Len(takes) + 1
    BY <2>1
  <2>4. \A i \in DOMAIN takes' : takes'[i].id \in 1 .. minted /\ takes'[i].attempt \in 1 .. MaxTakes
    BY <2>1, <2>2, <2>3 DEF IdInv
  <2>5. \A i, j \in DOMAIN takes' : takes'[i].id = takes'[j].id => i = j
    BY <2>1, <2>3 DEF IdInv
  <2>6. ASSUME NEW r \in Session, Bringing(r)', NEW i \in DOMAIN takes' PROVE takes'[i].id # session'[r].take.id
    BY <1>3, <2>1, <2>3, <2>6 DEF IdInv
  <2> QED BY <1>1, <1>3, <1>4, <2>1, <2>4, <2>5, <2>6 DEF IdInv
<1>6. ASSUME Replace(s) PROVE IdInv'
  <2>1. DOMAIN takes' = DOMAIN takes /\ \A i \in DOMAIN takes : Same(takes'[i], takes[i])
    BY <1>6, ReplaceStep
  <2>2. \A i \in DOMAIN takes : takes'[i].id = takes[i].id /\ takes'[i].attempt = takes[i].attempt
    BY <2>1 DEF Same, Kin
  <2>3. \A t : \A i \in DOMAIN takes : Same(takes[i], t) => Same(takes'[i], t)
    BY <2>1 DEF Same, Kin
  <2> QED BY <1>1, <1>3, <1>4, <2>1, <2>2, <2>3 DEF IdInv
<1> QED BY <1>5, <1>6

-----------------------------------------------------------------------------
(* The steps of Next, by what they disturb.                                 *)
Proceeds(s) ==
  \/ \E segment \in Segment, scope \in Scope : Permit(s, segment, scope)
  \/ RecordTake(s) \/ AssertChargeAuthorized(s) \/ Crash(s)
  \/ \E i \in DOMAIN takes, verdict \in Verdict : DecideTake(s, i, verdict)

Ids == {takes[i].id : i \in DOMAIN takes}

Submits(s) ==
  \E segment \in Segment, supersedes \in Ids \cup {NoTake}, unauthorized \in BOOLEAN :
    Submit(s, segment, supersedes, unauthorized)

LEMMA StepsByKind ==
  ASSUME Typed, Next
  PROVE  \/ \E scope \in Scope : RecordPlan(scope) \/ Approve(scope)
         \/ Withdraw
         \/ \E s \in Session :
              \/ Proceeds(s) \/ Submits(s) \/ Reserve(s) \/ Dispatch(s)
              \/ \E outcome \in Reports : Settle(s, outcome)
              \/ AppendTake(s) \/ Replace(s)
<1>1. CASE \E scope \in Scope : RecordPlan(scope) \/ Approve(scope)
  BY <1>1
<1>2. CASE Withdraw
  BY <1>2
<1>3. CASE \E s \in Session :
             \/ \E segment \in Segment, scope \in Scope : Permit(s, segment, scope)
             \/ Reserve(s) \/ Dispatch(s) \/ (\E outcome \in Reports : Settle(s, outcome))
             \/ RecordTake(s) \/ AssertChargeAuthorized(s) \/ AppendTake(s)
             \/ \E i \in DOMAIN takes, verdict \in Verdict : DecideTake(s, i, verdict)
             \/ Replace(s) \/ Crash(s)
  BY <1>3 DEF Proceeds
<1>4. ASSUME NEW s \in Session, NEW segment \in Segment,
             \/ \E supersedes \in {takes[i].id : i \in DOMAIN takes} \cup {NoTake} :
                  Submit(s, segment, supersedes, FALSE)
             \/ Submit(s, segment, NoTake, TRUE)
      PROVE  Submits(s)
  BY <1>4 DEF Submits, Ids
<1> QED BY <1>1, <1>2, <1>3, <1>4 DEF Next

(* Whoever only proceeds, carries on with a job that holds to what it had.  *)
LEMMA ProceedsStep ==
  ASSUME Typed, IdInv, NEW s \in Session, Proceeds(s)
  PROVE  /\ UNCHANGED <<gate, books, ledger, calls>>
         /\ \E job \in Jobs :
              /\ Goto(s, job) /\ job.pc # "settling"
              /\ \/ job.pc \in {"idle", "reserving"}
                 \/ /\ job.pc \in {"checking", "appending"} /\ plans # <<>>
                    /\ session[s].pc = "recording"
                    /\ Kin(job.take, session[s].take) /\ job.take.attempt \in 1 .. MaxTakes
                    /\ job.pc = "checking" => job.scope = session[s].scope
                    /\ job.pc = "appending" => job.take.decision = None \/ job.take.unauthorized
                 \/ /\ job.pc = "appending" /\ job.take = session[s].take /\ session[s].pc = "checking"
                    /\ job.take.scope = Head(plans) /\ inForce # None
                    /\ approved[inForce] = session[s].scope /\ inForce = job.take.decision
                 \/ job.pc = "deciding" /\ \E i \in DOMAIN takes : Same(takes[i], job.take)
<1>1. UNCHANGED <<gate, books, ledger, calls>>
  BY DEF Proceeds, Permit, RecordTake, AssertChargeAuthorized, Crash, DecideTake
<1>2. CASE \E segment \in Segment, scope \in Scope : Permit(s, segment, scope)
  BY <1>1, <1>2, PermitStep
<1>3. CASE RecordTake(s)
  BY <1>1, <1>3, RecordTakeStep
<1>4. CASE AssertChargeAuthorized(s)
  BY <1>1, <1>4, AssertStep
<1>5. CASE Crash(s)
  <2>1. Idle \in Jobs /\ Idle.pc = "idle"
    BY DEF Jobs, Idle
  <2> QED BY <1>1, <1>5, <2>1 DEF Crash
<1>6. CASE \E i \in DOMAIN takes, verdict \in Verdict : DecideTake(s, i, verdict)
  BY <1>1, <1>6, DecideStep
<1> QED BY <1>2, <1>3, <1>4, <1>5, <1>6 DEF Proceeds

LEMMA SubmitsStep ==
  ASSUME Typed, IdInv, NEW s \in Session, Submits(s)
  PROVE  /\ UNCHANGED <<gate, books, takes, calls>>
         /\ session[s] = Idle /\ minted' = minted + 1 /\ minted' \in 1 .. MaxTakes
         /\ \E job \in Jobs :
              /\ Goto(s, job) /\ job.pc = "appending"
              /\ job.take.id = minted' /\ job.take.attempt \in 1 .. MaxTakes /\ job.take.decision = None
              /\ job.take.supersedes \in Ids \cup {NoTake}
<1>1. UNCHANGED <<gate, books, takes, calls>>
  BY DEF Submits, Submit
<1>2. Ids \subseteq Nat
  <2>1. \A i \in DOMAIN takes : takes[i] \in Takes
    BY DEF Typed
  <2>2. \A t \in Takes : t.id \in Nat
    BY DEF Takes
  <2> QED BY <2>1, <2>2 DEF Ids
<1>3. PICK segment \in Segment, supersedes \in Ids \cup {NoTake}, unauthorized \in BOOLEAN :
        Submit(s, segment, supersedes, unauthorized)
  BY DEF Submits
<1>4. supersedes \in Nat \cup {NoTake}
  BY <1>2
<1> QED BY <1>1, <1>3, <1>4, SubmitStep

-----------------------------------------------------------------------------
LEMMA InitTyped == Init => Typed /\ IdInv
<1> SUFFICES ASSUME Init PROVE Typed /\ IdInv
  OBVIOUS
<1>1. Idle \in Jobs /\ \A s \in Session : session[s].pc = "idle"
  BY DEF Jobs, Idle, Init
<1>2. MaxDecisions \in Nat /\ MaxTakes \in Nat
  BY LedgerAssumption
<1>3. Typed
  BY <1>1, <1>2 DEF Typed, Init, Billing
<1>4. IdInv
  BY <1>1 DEF IdInv, Init, Bringing
<1> QED BY <1>3, <1>4

LEMMA GateTyped ==
  ASSUME Typed, IdInv, (\E scope \in Scope : RecordPlan(scope) \/ Approve(scope)) \/ Withdraw
  PROVE  Typed' /\ IdInv' /\ UNCHANGED <<books, ledger, session, calls>>
<1>1. UNCHANGED <<books, ledger, session, calls>>
  BY DEF RecordPlan, Approve, Withdraw
<1>2. UNCHANGED <<reservation, costs, takes, minted, session, calls>>
  BY <1>1 DEF books, ledger
<1>3. plans' \in Seq(Scope) /\ approved' \in Seq(Scope)
      /\ Len(approved') <= MaxDecisions /\ inForce' \in DOMAIN approved' \cup {None}
  <2>1. CASE \E scope \in Scope : RecordPlan(scope)
    BY <2>1 DEF Typed, RecordPlan
  <2>2. CASE \E scope \in Scope : Approve(scope)
    BY <2>2, LedgerAssumption DEF Typed, Approve
  <2>3. CASE Withdraw
    BY <2>3 DEF Typed, Withdraw
  <2> QED BY <2>1, <2>2, <2>3
<1>4. Typed'
  BY <1>2, <1>3 DEF Typed
<1>5. IdInv'
  BY <1>2 DEF IdInv, Bringing
<1> QED BY <1>1, <1>4, <1>5

(* The part of Typed that no process at work disturbs but by its job, its   *)
(* reservation, its charge and its take.                                    *)
LEMMA WorkTyped ==
  ASSUME Typed, NEW s \in Session, NEW job \in Jobs, Goto(s, job), UNCHANGED gate,
         reservation' \in [Key -> Billing], calls' \in [Decision \X Segment -> Nat],
         takes' \in Seq(Takes), minted' \in 0 .. MaxTakes, minted' >= minted,
         \A c \in costs' \ costs : c.take = minted' /\ c.key \in Key, costs' = costs \/ minted' > minted
  PROVE  Typed'
<1>1. session' \in [Session -> Jobs]
  BY DEF Goto, Typed
<1>2. minted \in Nat /\ minted' \in Nat /\ \A n \in 1 .. minted : n \in 1 .. minted'
  BY DEF Typed
<1>3. minted' > minted => minted' \in 1 .. minted'
  BY <1>2
<1>4. \A c \in costs' : c.take \in 1 .. minted' /\ c.key \in Key
  BY <1>2, <1>3 DEF Typed
<1> QED BY <1>1, <1>4 DEF Typed, gate

LEMMA OneMore ==
  ASSUME NEW G, NEW f \in [G -> Nat], NEW g PROVE [f EXCEPT ![g] = @ + 1] \in [G -> Nat]
<1>1. CASE g \in G
  BY <1>1
<1>2. CASE g \notin G
  BY <1>2
<1> QED BY <1>1, <1>2

LEMMA NextTyped ==
  ASSUME Typed, IdInv, [Next]_vars
  PROVE  Typed' /\ IdInv'
<1>0. /\ minted \in Nat /\ minted <= MaxTakes /\ MaxTakes \in Nat /\ minted \in 0 .. MaxTakes
      /\ reservation \in [Key -> Billing] /\ calls \in [Decision \X Segment -> Nat] /\ takes \in Seq(Takes)
  BY LedgerAssumption DEF Typed
<1>1. CASE UNCHANGED vars
  BY <1>1 DEF Typed, IdInv, Bringing, vars
<1>2. CASE (\E scope \in Scope : RecordPlan(scope) \/ Approve(scope)) \/ Withdraw
  BY <1>2, GateTyped
<1>3. ASSUME NEW s \in Session, Proceeds(s) PROVE Typed' /\ IdInv'
  <2>1. UNCHANGED <<gate, reservation, costs, takes, minted, calls>>
    BY <1>3, ProceedsStep DEF books, ledger
  <2>2. PICK job \in Jobs :
              /\ Goto(s, job)
              /\ \/ job.pc \in {"idle", "reserving"}
                 \/ /\ job.pc \in {"checking", "appending"} /\ session[s].pc = "recording"
                    /\ Kin(job.take, session[s].take) /\ job.take.attempt \in 1 .. MaxTakes
                 \/ job.pc = "appending" /\ job.take = session[s].take /\ session[s].pc = "checking"
                 \/ job.pc = "deciding" /\ \E i \in DOMAIN takes : Same(takes[i], job.take)
    BY <1>3, ProceedsStep
  <2>3. Typed'
    BY <1>0, <2>1, <2>2, WorkTyped
  <2>4. job.pc \in {"recording", "checking", "appending"} =>
          Bringing(s) /\ job.take.id = session[s].take.id /\ job.take.attempt \in 1 .. MaxTakes
    BY <2>2 DEF Kin, Bringing, IdInv
  <2>5. IdInv'
    BY <1>0, <2>1, <2>2, <2>4, IdsKept
  <2> QED BY <2>3, <2>5
<1>4. ASSUME NEW s \in Session, Submits(s) PROVE Typed' /\ IdInv'
  <2>1. UNCHANGED <<gate, reservation, costs, takes, calls>> /\ minted' = minted + 1 /\ minted' \in 1 .. MaxTakes
    BY <1>4, SubmitsStep DEF books
  <2>2. PICK job \in Jobs :
              Goto(s, job) /\ job.pc = "appending" /\ job.take.id = minted' /\ job.take.attempt \in 1 .. MaxTakes
    BY <1>4, SubmitsStep
  <2>3. Typed'
    BY <1>0, <2>1, <2>2, WorkTyped
  <2>4. IdInv'
    BY <1>0, <2>1, <2>2, IdsKept
  <2> QED BY <2>3, <2>4
<1>5. ASSUME NEW s \in Session, Reserve(s) PROVE Typed' /\ IdInv'
  <2>1. UNCHANGED <<gate, costs, takes, minted, calls>>
    BY <1>5 DEF Reserve, ledger
  <2>2. PICK job \in Jobs :
           /\ Goto(s, job) /\ job.pc \in {"settling", "idle", "dispatching"}
           /\ reservation' = reservation \/ reservation' = [reservation EXCEPT ![job.key] = "reserved"]
    BY <1>5, ReserveStep
  <2>3. reservation' \in [Key -> Billing]
    BY <2>2 DEF Typed, Billing
  <2>4. calls' \in [Decision \X Segment -> Nat] /\ takes' \in Seq(Takes)
        /\ minted' \in 0 .. MaxTakes /\ minted' >= minted /\ costs' = costs
    BY <1>0, <2>1 DEF Typed
  <2>5. Typed'
    BY <1>0, <2>1, <2>2, <2>3, <2>4, WorkTyped
  <2>6. IdInv'
    BY <1>0, <2>1, <2>2, IdsKept
  <2> QED BY <2>5, <2>6
<1>6. ASSUME NEW s \in Session, Dispatch(s) PROVE Typed' /\ IdInv'
  <2>1. UNCHANGED <<gate, costs, takes, minted>>
    BY <1>6 DEF Dispatch, ledger
  <2>2. PICK job \in Jobs :
           /\ Goto(s, job) /\ job.pc \in {"settling", "idle"}
           /\ \/ UNCHANGED <<reservation, calls>>
              \/ /\ job.key = session[s].key
                 /\ reservation' = [reservation EXCEPT ![job.key] = "prepared"]
                 /\ calls' = [calls EXCEPT ![<<job.key[1], job.key[2]>>] = @ + 1]
    BY <1>6, DispatchStep
  <2>3. reservation' \in [Key -> Billing] /\ calls' \in [Decision \X Segment -> Nat]
    <3>1. \A g : [calls EXCEPT ![g] = @ + 1] \in [Decision \X Segment -> Nat]
      BY OneMore DEF Typed
    <3>2. \A k : [reservation EXCEPT ![k] = "prepared"] \in [Key -> Billing]
      BY DEF Typed, Billing
    <3>3. reservation \in [Key -> Billing] /\ calls \in [Decision \X Segment -> Nat]
      BY DEF Typed
    <3> QED BY <2>2, <3>1, <3>2, <3>3
  <2>4. Typed'
    BY <1>0, <2>1, <2>2, <2>3, WorkTyped
  <2>5. IdInv'
    BY <1>0, <2>1, <2>2, IdsKept
  <2> QED BY <2>4, <2>5
<1>7. ASSUME NEW s \in Session, NEW outcome, Settle(s, outcome) PROVE Typed' /\ IdInv'
  <2>1. UNCHANGED <<gate, takes, calls>>
    BY <1>7 DEF Settle
  <2>2. /\ minted' = minted + 1 /\ minted' \in 1 .. MaxTakes
        /\ \A c \in costs' \ costs : c.take = minted' /\ c.key \in Key
        /\ \/ UNCHANGED reservation
           \/ \E status \in {"settled", "released", "billing_unknown"} :
                reservation' = [reservation EXCEPT ![session[s].key] = status]
    BY <1>7, SettleStep
  <2>3. PICK job \in Jobs : Goto(s, job) /\ job.pc = "recording" /\ job.take.id = minted'
    BY <1>7, SettleStep
  <2>4. reservation' \in [Key -> Billing]
    BY <2>2 DEF Typed, Billing
  <2>5. Typed'
    BY <1>0, <2>1, <2>2, <2>3, <2>4, WorkTyped
  <2>6. IdInv'
    BY <1>0, <2>1, <2>2, <2>3, IdsKept
  <2> QED BY <2>5, <2>6
<1>8. ASSUME NEW s \in Session, AppendTake(s) \/ Replace(s) PROVE Typed' /\ IdInv'
  <2>1. UNCHANGED <<gate, reservation, costs, minted, calls>>
    BY <1>8 DEF AppendTake, Replace, books
  <2>2. Goto(s, Idle) /\ takes' \in Seq(Takes) /\ Idle \in Jobs
    BY <1>8, AppendStep, ReplaceStep DEF Jobs
  <2>3. Typed'
    BY <1>0, <2>1, <2>2, WorkTyped
  <2> QED BY <1>8, <2>3, WritesKeepIds
<1> QED BY <1>1, <1>2, <1>3, <1>4, <1>5, <1>6, <1>7, <1>8, StepsByKind

-----------------------------------------------------------------------------
(* The same after a step.                                                   *)
LEMMA AttemptsTyped ==
  ASSUME Typed', NEW segment
  PROVE  IsFiniteSet(Positions(segment)') /\ Attempts(segment)' \in Nat
<1>1. Len(takes') \in Nat /\ DOMAIN takes' = 1 .. Len(takes')
  BY DEF Typed
<1>2. IsFiniteSet(1 .. Len(takes'))
  BY <1>1, FS_Interval
<1>3. Positions(segment)' \in SUBSET (1 .. Len(takes'))
  BY <1>1 DEF Positions
<1>4. IsFiniteSet(Positions(segment)')
  BY <1>2, <1>3, FS_Subset
<1>5. Cardinality(Positions(segment)') \in Nat
  BY <1>4, FS_CardinalityType
<1> QED BY <1>4, <1>5 DEF Attempts, Positions

(* The list only grows, and a take in it stays of its segment.              *)
LEMMA AttemptsGrow ==
  ASSUME Typed, IdInv, Typed', IdInv', [Next]_vars, NEW segment
  PROVE  Attempts(segment)' >= Attempts(segment)
<1>1. DOMAIN takes \subseteq DOMAIN takes' /\ \A i \in DOMAIN takes : takes'[i].segment = takes[i].segment
  <2>1. CASE UNCHANGED takes
    BY <2>1
  <2>2. ASSUME NEW s \in Session, AppendTake(s) \/ Replace(s)
        PROVE  DOMAIN takes \subseteq DOMAIN takes' /\ \A i \in DOMAIN takes : takes'[i].segment = takes[i].segment
    BY <2>2, AppendStep, ReplaceStep DEF Same, Kin
  <2>3. UNCHANGED takes \/ \E s \in Session : AppendTake(s) \/ Replace(s)
    <3>1. CASE UNCHANGED vars
      BY <3>1 DEF vars
    <3>2. CASE (\E scope \in Scope : RecordPlan(scope) \/ Approve(scope)) \/ Withdraw
      BY <3>2, GateTyped DEF ledger
    <3>3. ASSUME NEW s \in Session, Proceeds(s) PROVE UNCHANGED takes
      BY <3>3, ProceedsStep DEF ledger
    <3>4. ASSUME NEW s \in Session, Submits(s) PROVE UNCHANGED takes
      BY <3>4, SubmitsStep
    <3>5. ASSUME NEW s \in Session, NEW outcome, Reserve(s) \/ Dispatch(s) \/ Settle(s, outcome) PROVE UNCHANGED takes
      BY <3>5 DEF Reserve, Dispatch, Settle, ledger
    <3> QED BY <3>1, <3>2, <3>3, <3>4, <3>5, StepsByKind
  <2> QED BY <2>1, <2>2, <2>3
<1>2. Positions(segment) \subseteq Positions(segment)'
  BY <1>1 DEF Positions
<1>3. IsFiniteSet(Positions(segment)')
  BY AttemptsTyped
<1>4. Cardinality(Positions(segment)) <= Cardinality(Positions(segment)')
  BY <1>2, <1>3, FS_Subset
<1> QED BY <1>4 DEF Attempts, Positions

-----------------------------------------------------------------------------
(* The paid calls of a grant for a segment are its effects that went past   *)
(* the reservation, and no effect is reserved for an attempt beyond the     *)
(* next.                                                                    *)
Past == {"prepared", "settled", "released", "billing_unknown"}
Paid(d, segment) == {n \in 1 .. MaxTakes + 1 : reservation[<<d, segment, n>>] \in Past}

CallsInv ==
  /\ \A d \in Decision, segment \in Segment : calls[<<d, segment>>] = Cardinality(Paid(d, segment))
  /\ \A k \in Key : reservation[k] # "none" => k[3] <= Attempts(k[2]) + 1
  /\ \A s \in Session : session[s].pc = "settling" /\ session[s].key # None => reservation[session[s].key] \in Past

LEMMA Parts ==
  ASSUME NEW k \in Key
  PROVE  /\ k[1] \in Decision /\ k[2] \in Segment /\ k[3] \in 1 .. MaxTakes + 1 /\ k[3] \in Nat
         /\ k = <<k[1], k[2], k[3]>>
BY LedgerAssumption DEF Key

LEMMA PaidFinite ==
  ASSUME NEW d, NEW segment
  PROVE  IsFiniteSet(Paid(d, segment)) /\ Cardinality(Paid(d, segment)) \in Nat
<1>1. IsFiniteSet(1 .. MaxTakes + 1)
  BY LedgerAssumption, FS_Interval
<1>2. Paid(d, segment) \in SUBSET (1 .. MaxTakes + 1)
  BY DEF Paid
<1> QED BY <1>1, <1>2, FS_Subset, FS_CardinalityType

LEMMA CallsBounded ==
  ASSUME Typed, IdInv, CallsInv
  PROVE  NotPaidAgain
<1>1. ASSUME NEW d \in Decision, NEW segment \in Segment PROVE calls[<<d, segment>>] <= Attempts(segment) + 1
  <2> DEFINE m == Attempts(segment) + 1
  <2>1. m \in Nat
    BY Counted
  <2>2. Paid(d, segment) \in SUBSET (1 .. m)
    <3>1. ASSUME NEW n \in Paid(d, segment) PROVE n \in 1 .. m
      <4>1. n \in 1 .. MaxTakes + 1 /\ n \in Nat /\ n >= 1 /\ reservation[<<d, segment, n>>] # "none"
        BY <3>1, LedgerAssumption DEF Paid, Past
      <4>2. <<d, segment, n>> \in Key
        BY <4>1 DEF Key
      <4>3. <<d, segment, n>>[3] <= Attempts(<<d, segment, n>>[2]) + 1
        BY <4>1, <4>2 DEF CallsInv
      <4> QED BY <2>1, <4>1, <4>3
    <3> QED BY <3>1
  <2>3. IsFiniteSet(1 .. m) /\ Cardinality(1 .. m) = m
    BY <2>1, UpTo
  <2>4. Cardinality(Paid(d, segment)) <= m
    <3> HIDE DEF m
    <3>1. Cardinality(Paid(d, segment)) <= Cardinality(1 .. m)
      BY <2>2, <2>3, FS_Subset
    <3> QED BY <2>3, <3>1
  <2> QED BY <2>4 DEF CallsInv
<1>2. DOMAIN calls = Decision \X Segment
  BY DEF Typed
<1>3. \A g \in Decision \X Segment : g[1] \in Decision /\ g[2] \in Segment /\ g = <<g[1], g[2]>>
  OBVIOUS
<1> QED BY <1>1, <1>2, <1>3 DEF NotPaidAgain

LEMMA InitCalls == Init => CallsInv
<1> SUFFICES ASSUME Init PROVE CallsInv
  OBVIOUS
<1>1. ASSUME NEW d \in Decision, NEW segment \in Segment PROVE calls[<<d, segment>>] = Cardinality(Paid(d, segment))
  <2>1. \A n \in 1 .. MaxTakes + 1 : <<d, segment, n>> \in Key
    BY DEF Key
  <2>2. Paid(d, segment) = {}
    BY <2>1 DEF Paid, Past, Init
  <2>3. calls[<<d, segment>>] = 0
    BY DEF Init
  <2> QED BY <2>2, <2>3, FS_EmptySet
<1>2. \A k \in Key : reservation[k] = "none"
  BY DEF Init
<1>3. \A s \in Session : session[s].pc = "idle"
  BY DEF Init, Idle
<1> QED BY <1>1, <1>2, <1>3 DEF CallsInv

LEMMA CallsKept ==
  ASSUME Typed, IdInv, Typed', CallsInv, UNCHANGED <<reservation, calls>>,
         \A segment : Attempts(segment) \in Nat /\ Attempts(segment)' \in Nat /\ Attempts(segment)' >= Attempts(segment),
         \A s \in Session : session'[s].pc = "settling" /\ session'[s].key # None => session'[s] = session[s]
  PROVE  CallsInv'
<1>1. \A d, segment : Paid(d, segment)' = Paid(d, segment)
  BY DEF Paid
<1>2. ASSUME NEW k \in Key, reservation[k] # "none" PROVE k[3] <= Attempts(k[2])' + 1
  <2>1. k[3] \in Nat /\ k[3] <= Attempts(k[2]) + 1
    BY <1>2, Parts DEF CallsInv
  <2> QED BY <2>1
<1> QED BY <1>1, <1>2 DEF CallsInv

LEMMA NextCalls ==
  ASSUME Typed, IdInv, Typed', IdInv', CallsInv, [Next]_vars,
         \A segment : Attempts(segment) \in Nat /\ Attempts(segment)' \in Nat
  PROVE  CallsInv'
<1>1. \A segment : Attempts(segment)' >= Attempts(segment)
  BY AttemptsGrow
<1>2. ASSUME UNCHANGED <<reservation, calls>>, NEW s \in Session, NEW job, Goto(s, job),
             job.pc = "settling" => job.key = None
      PROVE  CallsInv'
  <2>1. \A r \in Session : session'[r].pc = "settling" /\ session'[r].key # None => session'[r] = session[r]
    BY <1>2, Went
  <2> QED BY <1>1, <1>2, <2>1, CallsKept
<1>3. CASE UNCHANGED vars
  BY <1>1, <1>3, CallsKept DEF vars
<1>4. CASE (\E scope \in Scope : RecordPlan(scope) \/ Approve(scope)) \/ Withdraw
  BY <1>1, <1>4, GateTyped, CallsKept DEF books
<1>5. ASSUME NEW s \in Session, Proceeds(s) PROVE CallsInv'
  BY <1>2, <1>5, ProceedsStep DEF books
<1>6. ASSUME NEW s \in Session, Submits(s) PROVE CallsInv'
  BY <1>2, <1>6, SubmitsStep DEF books
<1>7. ASSUME NEW s \in Session, AppendTake(s) \/ Replace(s) PROVE CallsInv'
  <2>1. UNCHANGED <<reservation, calls>> /\ Goto(s, Idle) /\ Idle.pc = "idle"
    BY <1>7 DEF AppendTake, Replace, books, Idle
  <2> QED BY <1>2, <2>1
<1>8. ASSUME NEW s \in Session, Reserve(s) PROVE CallsInv'
  <2>1. UNCHANGED <<takes, calls>>
    BY <1>8 DEF Reserve, ledger
  <2>2. PICK job \in Jobs :
           /\ Goto(s, job) /\ (job.pc = "settling" => job.key = None)
           /\ \/ UNCHANGED reservation
              \/ /\ job.pc = "dispatching" /\ job.key[3] = Attempts(job.key[2]) + 1
                 /\ reservation[job.key] = "none" /\ reservation' = [reservation EXCEPT ![job.key] = "reserved"]
    BY <1>8, ReserveStep
  <2>3. CASE UNCHANGED reservation
    BY <1>2, <2>1, <2>2, <2>3
  <2>4. ASSUME job.pc = "dispatching", job.key[3] = Attempts(job.key[2]) + 1,
               reservation[job.key] = "none", reservation' = [reservation EXCEPT ![job.key] = "reserved"]
        PROVE  CallsInv'
    <3>1. job.key \in Key
      BY <2>4, JobsAt
    <3>2. \A k \in Key : k # job.key => reservation'[k] = reservation[k]
      BY <2>4 DEF Typed
    <3>3. reservation'[job.key] = "reserved"
      BY <2>4, <3>1 DEF Typed
    <3>4. \A k \in Key : reservation'[k] \in Past <=> reservation[k] \in Past
      BY <2>4, <3>2, <3>3 DEF Past
    <3>5. ASSUME NEW d \in Decision, NEW segment \in Segment PROVE Paid(d, segment)' = Paid(d, segment)
      <4>1. \A n \in 1 .. MaxTakes + 1 : <<d, segment, n>> \in Key
        BY DEF Key
      <4> QED BY <3>4, <4>1 DEF Paid
    <3>6. \A segment : Attempts(segment)' = Attempts(segment)
      BY <2>1 DEF Attempts
    <3>7. \A k \in Key : reservation'[k] # "none" => k[3] <= Attempts(k[2])' + 1
      <4>1. ASSUME NEW k \in Key, reservation'[k] # "none" PROVE k[3] <= Attempts(k[2]) + 1
        <5>1. CASE k = job.key
          <6>1. k[3] = Attempts(k[2]) + 1 /\ k[3] \in Nat
            BY <2>4, <5>1, Parts
          <6> QED BY <6>1
        <5>2. CASE k # job.key
          BY <3>2, <4>1, <5>2 DEF CallsInv
        <5> QED BY <5>1, <5>2
      <4> QED BY <3>6, <4>1
    <3>8. ASSUME NEW r \in Session, session'[r].pc = "settling", session'[r].key # None
          PROVE  reservation'[session'[r].key] \in Past
      <4>1. r # s /\ session'[r] = session[r]
        BY <2>2, <2>4, <3>8, Went
      <4>2. reservation[session[r].key] \in Past /\ session[r].key \in Key
        BY <3>8, <4>1, JobsAt DEF CallsInv, Typed
      <4> QED BY <3>4, <4>1, <4>2
    <3> QED BY <2>1, <3>5, <3>7, <3>8 DEF CallsInv
  <2> QED BY <2>2, <2>3, <2>4
<1>9. ASSUME NEW s \in Session, Dispatch(s) PROVE CallsInv'
  <2>1. UNCHANGED takes
    BY <1>9 DEF Dispatch, ledger
  <2>2. PICK job \in Jobs :
           /\ Goto(s, job)
           /\ \/ job.pc = "idle" /\ UNCHANGED <<reservation, calls>>
              \/ /\ job.pc = "settling" /\ job.key = session[s].key /\ reservation[job.key] = "reserved"
                 /\ reservation' = [reservation EXCEPT ![job.key] = "prepared"]
                 /\ calls' = [calls EXCEPT ![<<job.key[1], job.key[2]>>] = @ + 1]
    BY <1>9, DispatchStep
  <2>3. CASE job.pc = "idle" /\ UNCHANGED <<reservation, calls>>
    BY <1>2, <2>2, <2>3
  <2>4. ASSUME job.pc = "settling", job.key = session[s].key, reservation[job.key] = "reserved",
               reservation' = [reservation EXCEPT ![job.key] = "prepared"],
               calls' = [calls EXCEPT ![<<job.key[1], job.key[2]>>] = @ + 1]
        PROVE  CallsInv'
    <3> DEFINE k0 == job.key
    <3>1. k0 \in Key
      BY <1>9, <2>4, DispatchStep
    <3>2. \A k \in Key : k # k0 => reservation'[k] = reservation[k]
      BY <2>4 DEF Typed
    <3>3. reservation'[k0] = "prepared" /\ reservation[k0] = "reserved"
      BY <2>4, <3>1 DEF Typed
    <3>4. \A segment : Attempts(segment)' = Attempts(segment)
      BY <2>1 DEF Attempts
    <3>5. calls' = [calls EXCEPT ![<<k0[1], k0[2]>>] = @ + 1]
      BY <2>4
    <3> HIDE DEF k0
    <3>6. k0[1] \in Decision /\ k0[2] \in Segment /\ k0[3] \in 1 .. MaxTakes + 1 /\ k0 = <<k0[1], k0[2], k0[3]>>
      BY <3>1, Parts
    <3>7. \A k \in Key : reservation'[k] \in Past <=> reservation[k] \in Past \/ k = k0
      BY <3>2, <3>3 DEF Past
    <3>8. ASSUME NEW d \in Decision, NEW segment \in Segment
          PROVE  calls'[<<d, segment>>] = Cardinality(Paid(d, segment)')
      <4>1. \A n \in 1 .. MaxTakes + 1 : <<d, segment, n>> \in Key /\ (<<d, segment, n>> = k0 => n = k0[3])
        BY <3>6 DEF Key
      <4>2. calls \in [Decision \X Segment -> Nat] /\ calls[<<d, segment>>] = Cardinality(Paid(d, segment))
        BY DEF Typed, CallsInv
      <4>3. CASE d = k0[1] /\ segment = k0[2]
        <5>1. k0[3] \notin Paid(d, segment)
          BY <3>3, <3>6, <4>3 DEF Paid, Past
        <5>2. Paid(d, segment)' = Paid(d, segment) \cup {k0[3]}
          BY <3>6, <3>7, <4>1, <4>3 DEF Paid
        <5>3. Cardinality(Paid(d, segment)') = Cardinality(Paid(d, segment)) + 1
          BY <5>1, <5>2, PaidFinite, FS_AddElement
        <5>4. calls'[<<d, segment>>] = calls[<<d, segment>>] + 1
          BY <3>5, <4>2, <4>3
        <5> QED BY <4>2, <5>3, <5>4
      <4>4. CASE ~(d = k0[1] /\ segment = k0[2])
        <5>1. \A n \in 1 .. MaxTakes + 1 : <<d, segment, n>> # k0
          BY <3>6, <4>4
        <5>2. Paid(d, segment)' = Paid(d, segment)
          BY <3>7, <4>1, <5>1 DEF Paid
        <5>3. calls'[<<d, segment>>] = calls[<<d, segment>>]
          BY <3>5, <4>2, <4>4
        <5> QED BY <4>2, <5>2, <5>3
      <4> QED BY <4>3, <4>4
    <3>9. \A k \in Key : reservation'[k] # "none" => k[3] <= Attempts(k[2])' + 1
      BY <3>2, <3>3, <3>4 DEF CallsInv
    <3>10. ASSUME NEW r \in Session, session'[r].pc = "settling", session'[r].key # None
           PROVE  reservation'[session'[r].key] \in Past
      <4>1. CASE r = s
        BY <2>2, <3>3, <4>1, Went DEF k0, Past
      <4>2. CASE r # s
        <5>1. session'[r] = session[r]
          BY <2>2, <4>2, Went
        <5>2. reservation[session[r].key] \in Past /\ session[r].key \in Key
          BY <3>10, <5>1, JobsAt DEF CallsInv, Typed
        <5> QED BY <3>7, <5>1, <5>2
      <4> QED BY <4>1, <4>2
    <3> QED BY <3>8, <3>9, <3>10 DEF CallsInv
  <2> QED BY <2>2, <2>3, <2>4
<1>10. ASSUME NEW s \in Session, NEW outcome, Settle(s, outcome) PROVE CallsInv'
  <2>1. UNCHANGED <<takes, calls>>
    BY <1>10 DEF Settle
  <2>2. PICK job \in Jobs : Goto(s, job) /\ job.pc = "recording"
    BY <1>10, SettleStep
  <2>3. session[s].pc = "settling"
    BY <1>10, SettleStep
  <2>4. CASE UNCHANGED reservation
    BY <1>2, <2>1, <2>2, <2>4
  <2>5. ASSUME session[s].key \in Key, session[s].key # None, NEW status \in {"settled", "released", "billing_unknown"},
               reservation' = [reservation EXCEPT ![session[s].key] = status]
        PROVE  CallsInv'
    <3> DEFINE k0 == session[s].key
    <3>1. k0 \in Key /\ reservation[k0] \in Past
      BY <2>3, <2>5 DEF CallsInv
    <3>2. \A k \in Key : k # k0 => reservation'[k] = reservation[k]
      BY <2>5 DEF Typed
    <3>3. reservation'[k0] = status
      BY <2>5 DEF Typed
    <3> HIDE DEF k0
    <3>4. \A k \in Key : /\ reservation'[k] \in Past <=> reservation[k] \in Past
                         /\ reservation'[k] # "none" => reservation[k] # "none"
      BY <3>1, <3>2, <3>3 DEF Past
    <3>5. ASSUME NEW d \in Decision, NEW segment \in Segment PROVE Paid(d, segment)' = Paid(d, segment)
      <4>1. \A n \in 1 .. MaxTakes + 1 : <<d, segment, n>> \in Key
        BY DEF Key
      <4> QED BY <3>4, <4>1 DEF Paid
    <3>6. \A segment : Attempts(segment)' = Attempts(segment)
      BY <2>1 DEF Attempts
    <3>7. ASSUME NEW r \in Session, session'[r].pc = "settling", session'[r].key # None
          PROVE  reservation'[session'[r].key] \in Past
      <4>1. r # s /\ session'[r] = session[r]
        BY <2>2, <3>7, Went
      <4>2. reservation[session[r].key] \in Past /\ session[r].key \in Key
        BY <3>7, <4>1, JobsAt DEF CallsInv, Typed
      <4> QED BY <3>4, <4>1, <4>2
    <3> QED BY <2>1, <3>4, <3>5, <3>6, <3>7 DEF CallsInv
  <2> QED BY <1>10, <2>4, <2>5, SettleStep
<1> QED BY <1>3, <1>4, <1>5, <1>6, <1>7, <1>8, <1>9, <1>10, StepsByKind

-----------------------------------------------------------------------------
(* A take rests on its plan from the check on, before it is in the list;    *)
(* what is not checked cites no decision or is admitted to be unauthorized. *)
Rests(t) ==
  t.decision # None /\ ~t.unauthorized =>
    /\ t.decision \in DOMAIN approved /\ approved[t.decision] = t.scope
    /\ plans # <<>> /\ t.scope = Head(plans)

PlanInv ==
  /\ \A s \in Session :
       /\ session[s].pc \in {"recording", "checking"} => session[s].scope = session[s].take.scope
       /\ session[s].pc = "checking" => plans # <<>>
       /\ session[s].pc = "appending" => Rests(session[s].take)
  /\ \A i \in DOMAIN takes : Rests(takes[i])

LEMMA InitPlan == Init => PlanInv
BY DEF Init, Idle, PlanInv

LEMMA PlanKept ==
  ASSUME Typed, PlanInv, NEW s \in Session, NEW job, Goto(s, job), UNCHANGED <<plans, approved>>,
         job.pc \in {"recording", "checking"} => job.scope = job.take.scope,
         job.pc = "checking" => plans # <<>>,
         job.pc = "appending" => Rests(job.take),
         \A i \in DOMAIN takes' : Rests(takes'[i])
  PROVE  PlanInv'
<1>1. session'[s] = job /\ \A r \in Session \ {s} : session'[r] = session[r]
  BY Went
<1>3. \A i \in DOMAIN takes' : Rests(takes[i])'
  BY DEF Rests
<1>4. ASSUME NEW r \in Session
      PROVE  /\ session'[r].pc \in {"recording", "checking"} => session'[r].scope = session'[r].take.scope
             /\ session'[r].pc = "checking" => plans' # <<>>
             /\ session'[r].pc = "appending" => Rests(session[r].take)'
  <2>1. CASE r = s
    BY <1>1, <2>1 DEF Rests
  <2>2. CASE r # s
    BY <1>1, <2>2 DEF PlanInv, Rests
  <2> QED BY <2>1, <2>2
<1> QED BY <1>3, <1>4 DEF PlanInv

LEMMA NextPlan ==
  ASSUME Typed, IdInv, PlanInv, [Next]_vars
  PROVE  PlanInv'
<1>1. \A i \in DOMAIN takes : Rests(takes[i])
  BY DEF PlanInv
<1>2. CASE UNCHANGED vars
  BY <1>2 DEF vars, PlanInv, Rests
<1>3. CASE (\E scope \in Scope : RecordPlan(scope) \/ Approve(scope)) \/ Withdraw
  <2>1. UNCHANGED <<takes, session>>
    BY <1>3, GateTyped DEF ledger
  <2>2. /\ plans # <<>> => plans' # <<>> /\ Head(plans') = Head(plans)
        /\ \A d \in DOMAIN approved : d \in DOMAIN approved' /\ approved'[d] = approved[d]
    <3>1. CASE \E scope \in Scope : RecordPlan(scope)
      <4>1. PICK scope \in Scope : plans' = Append(plans, scope) /\ approved' = approved
        BY <3>1 DEF RecordPlan
      <4>2. ASSUME plans # <<>> PROVE plans' # <<>> /\ Head(plans') = Head(plans)
        <5>1. plans \in Seq(Scope) /\ Len(plans) \in Nat /\ Len(plans) > 0
          BY <4>2 DEF Typed
        <5>2. Append(plans, scope) \in Seq(Scope) /\ Len(Append(plans, scope)) = Len(plans) + 1
              /\ Append(plans, scope)[1] = plans[1]
          BY <5>1
        <5>3. \A q \in Seq(Scope) : Len(q) > 0 => q # <<>> /\ Head(q) = q[1]
          OBVIOUS
        <5> QED BY <4>1, <5>1, <5>2, <5>3
      <4> QED BY <4>1, <4>2
    <3>2. CASE \E scope \in Scope : Approve(scope)
      <4>1. PICK scope \in Scope : approved' = Append(approved, scope) /\ plans' = plans
        BY <3>2 DEF Approve
      <4>2. \A d \in DOMAIN approved : d \in DOMAIN approved' /\ approved'[d] = approved[d]
        BY <4>1 DEF Typed
      <4> QED BY <4>1, <4>2
    <3>3. CASE Withdraw
      BY <3>3 DEF Withdraw
    <3> QED BY <1>3, <3>1, <3>2, <3>3
  <2> QED BY <2>1, <2>2 DEF PlanInv, Rests
<1>4. ASSUME NEW s \in Session, Proceeds(s) PROVE PlanInv'
  <2>1. UNCHANGED <<plans, approved, takes>>
    BY <1>4, ProceedsStep DEF gate, ledger
  <2>2. PICK job \in Jobs :
              /\ Goto(s, job)
              /\ \/ job.pc \in {"idle", "reserving"}
                 \/ /\ job.pc \in {"checking", "appending"} /\ plans # <<>>
                    /\ session[s].pc = "recording" /\ Kin(job.take, session[s].take)
                    /\ job.pc = "checking" => job.scope = session[s].scope
                    /\ job.pc = "appending" => job.take.decision = None \/ job.take.unauthorized
                 \/ /\ job.pc = "appending" /\ job.take = session[s].take /\ session[s].pc = "checking"
                    /\ job.take.scope = Head(plans) /\ inForce # None
                    /\ approved[inForce] = session[s].scope /\ inForce = job.take.decision
                 \/ job.pc = "deciding"
    BY <1>4, ProceedsStep
  <2>3. /\ job.pc \in {"recording", "checking"} => job.scope = job.take.scope
        /\ job.pc = "checking" => plans # <<>>
    BY <2>2 DEF PlanInv, Kin
  <2>4. job.pc = "appending" => Rests(job.take)
    BY <2>2, GrantInForce DEF PlanInv, Rests
  <2> QED BY <1>1, <2>1, <2>2, <2>3, <2>4, PlanKept
<1>5. ASSUME NEW s \in Session, Submits(s) PROVE PlanInv'
  <2>1. UNCHANGED <<plans, approved, takes>>
    BY <1>5, SubmitsStep DEF gate
  <2>2. PICK job \in Jobs : Goto(s, job) /\ job.pc = "appending" /\ job.take.decision = None
    BY <1>5, SubmitsStep
  <2>3. Rests(job.take)
    BY <2>2 DEF Rests
  <2> QED BY <1>1, <2>1, <2>2, <2>3, PlanKept
<1>6. ASSUME NEW s \in Session, Reserve(s) \/ Dispatch(s) PROVE PlanInv'
  <2>1. UNCHANGED <<plans, approved, takes>>
    BY <1>6 DEF Reserve, Dispatch, gate, ledger
  <2>2. \E job \in Jobs : Goto(s, job) /\ job.pc \in {"idle", "dispatching", "settling"}
    BY <1>6, ReserveStep, DispatchStep
  <2> QED BY <1>1, <2>1, <2>2, PlanKept
<1>7. ASSUME NEW s \in Session, NEW outcome, Settle(s, outcome) PROVE PlanInv'
  <2>1. UNCHANGED <<plans, approved, takes>>
    BY <1>7 DEF Settle, gate
  <2>2. \E job \in Jobs : Goto(s, job) /\ job.pc = "recording" /\ job.take.scope = job.scope
    BY <1>7, SettleStep
  <2> QED BY <1>1, <2>1, <2>2, PlanKept
<1>8. ASSUME NEW s \in Session, AppendTake(s) PROVE PlanInv'
  <2>1. UNCHANGED <<plans, approved>>
    BY <1>8 DEF AppendTake, gate
  <2>2. \A i \in DOMAIN takes' : Rests(takes'[i])
    BY <1>1, <1>8, AppendStep DEF PlanInv
  <2>3. Goto(s, Idle) /\ Idle.pc = "idle"
    BY <1>8 DEF AppendTake, Idle
  <2> QED BY <2>1, <2>2, <2>3, PlanKept
<1>9. ASSUME NEW s \in Session, Replace(s) PROVE PlanInv'
  <2>1. UNCHANGED <<plans, approved>>
    BY <1>9 DEF Replace, gate
  <2>2. DOMAIN takes' = DOMAIN takes /\ \A i \in DOMAIN takes : Same(takes'[i], takes[i])
    BY <1>9, ReplaceStep
  <2>3. \A i \in DOMAIN takes' : Rests(takes'[i])
    BY <1>1, <2>2 DEF Rests, Same, Kin
  <2>4. Goto(s, Idle) /\ Idle.pc = "idle"
    BY <1>9 DEF Replace, Idle
  <2> QED BY <2>1, <2>3, <2>4, PlanKept
<1> QED BY <1>2, <1>3, <1>4, <1>5, <1>6, <1>7, <1>8, <1>9, StepsByKind

-----------------------------------------------------------------------------
(* What a take supersedes was in the list before it.                        *)
Follows(t, n) == t.supersedes = NoTake \/ \E j \in DOMAIN takes : j <= n /\ takes[j].id = t.supersedes

LinkInv ==
  /\ \A i \in DOMAIN takes : Follows(takes[i], i - 1)
  /\ \A s \in Session : Bringing(s) => Follows(session[s].take, Len(takes))

LEMMA InitLinks == Init => LinkInv
BY DEF Init, Idle, LinkInv, Bringing

LEMMA LinksKept ==
  ASSUME Typed, LinkInv, NEW s \in Session, NEW job, Goto(s, job), UNCHANGED takes,
         job.pc \in {"recording", "checking", "appending"} => Follows(job.take, Len(takes))
  PROVE  LinkInv'
<1>1. session'[s] = job /\ \A r \in Session \ {s} : session'[r] = session[r]
  BY Went
<1>2. \A i \in DOMAIN takes' : Follows(takes[i], i - 1)'
  BY DEF LinkInv, Follows
<1>3. ASSUME NEW r \in Session, Bringing(r)' PROVE Follows(session[r].take, Len(takes))'
  <2>1. CASE r = s
    BY <1>1, <1>3, <2>1 DEF Bringing, Follows
  <2>2. CASE r # s
    BY <1>1, <1>3, <2>2 DEF LinkInv, Bringing, Follows
  <2> QED BY <2>1, <2>2
<1> QED BY <1>2, <1>3 DEF LinkInv

(* The list is written: what is in it stays in its place, and what is added *)
(* follows it all.                                                          *)
LEMMA LinksGrow ==
  ASSUME Typed, LinkInv, NEW s \in Session, Goto(s, Idle), takes' \in Seq(Takes), Len(takes') >= Len(takes),
         \A i \in DOMAIN takes : takes'[i].id = takes[i].id /\ takes'[i].supersedes = takes[i].supersedes,
         \A i \in DOMAIN takes' \ DOMAIN takes : i = Len(takes) + 1 /\ Follows(takes'[i], Len(takes))
  PROVE  LinkInv'
<1>1. session'[s].pc = "idle" /\ \A r \in Session \ {s} : session'[r] = session[r]
  BY Went DEF Idle
<1>2. takes \in Seq(Takes) /\ Len(takes) \in Nat /\ Len(takes') \in Nat
      /\ DOMAIN takes = 1 .. Len(takes) /\ DOMAIN takes' = 1 .. Len(takes')
  BY DEF Typed
<1>3. \A i \in DOMAIN takes : i \in DOMAIN takes'
  BY <1>2
<1>4. ASSUME NEW t, NEW n, Follows(t, n), NEW m, \A j \in DOMAIN takes : j <= n => j <= m
      PROVE  t.supersedes = NoTake \/ \E j \in DOMAIN takes' : j <= m /\ takes'[j].id = t.supersedes
  BY <1>3, <1>4 DEF Follows
<1>5. \A i \in DOMAIN takes' : Follows(takes[i], i - 1)'
  <2> SUFFICES ASSUME NEW i \in DOMAIN takes'
               PROVE  takes'[i].supersedes = NoTake
                      \/ \E j \in DOMAIN takes' : j <= i - 1 /\ takes'[j].id = takes'[i].supersedes
    BY DEF Follows
  <2>1. CASE i \in DOMAIN takes
    <3>1. Follows(takes[i], i - 1)
      BY <2>1 DEF LinkInv
    <3>2. takes[i].supersedes = NoTake
          \/ \E j \in DOMAIN takes' : j <= i - 1 /\ takes'[j].id = takes[i].supersedes
      BY <1>4, <3>1
    <3> QED BY <2>1, <3>2
  <2>2. CASE i \notin DOMAIN takes
    <3>1. i - 1 = Len(takes) /\ Follows(takes'[i], Len(takes))
      BY <1>2, <2>2
    <3>2. \A j \in DOMAIN takes : j <= Len(takes) => j <= i - 1
      BY <3>1
    <3> QED BY <1>4, <3>1, <3>2
  <2> QED BY <2>1, <2>2
<1>6. ASSUME NEW r \in Session, Bringing(r)' PROVE Follows(session[r].take, Len(takes))'
  <2>1. r # s /\ Bringing(r) /\ session'[r] = session[r]
    BY <1>1, <1>6 DEF Bringing
  <2>2. Follows(session[r].take, Len(takes))
    BY <2>1 DEF LinkInv
  <2>3. \A j \in DOMAIN takes : j <= Len(takes) => j <= Len(takes')
    BY <1>2
  <2>4. session[r].take.supersedes = NoTake
        \/ \E j \in DOMAIN takes' : j <= Len(takes') /\ takes'[j].id = session[r].take.supersedes
    BY <1>4, <2>2, <2>3
  <2> QED BY <2>1, <2>4 DEF Follows
<1> QED BY <1>5, <1>6 DEF LinkInv

LEMMA NextLinks ==
  ASSUME Typed, IdInv, LinkInv, [Next]_vars
  PROVE  LinkInv'
<1>1. CASE UNCHANGED vars
  BY <1>1 DEF vars, LinkInv, Follows, Bringing
<1>2. CASE (\E scope \in Scope : RecordPlan(scope) \/ Approve(scope)) \/ Withdraw
  <2>1. UNCHANGED <<takes, session>>
    BY <1>2, GateTyped DEF ledger
  <2> QED BY <2>1 DEF LinkInv, Follows, Bringing
<1>3. ASSUME NEW s \in Session, Proceeds(s) PROVE LinkInv'
  <2>1. UNCHANGED takes
    BY <1>3, ProceedsStep DEF ledger
  <2>2. PICK job \in Jobs :
          /\ Goto(s, job)
          /\ \/ job.pc \in {"idle", "reserving", "deciding"}
             \/ session[s].pc = "recording" /\ Kin(job.take, session[s].take)
             \/ session[s].pc = "checking" /\ job.take = session[s].take
    BY <1>3, ProceedsStep
  <2>3. Bringing(s) => Follows(session[s].take, Len(takes))
    BY DEF LinkInv
  <2>4. job.pc \in {"recording", "checking", "appending"} => Follows(job.take, Len(takes))
    BY <2>2, <2>3 DEF Bringing, Kin, Follows
  <2> QED BY <2>1, <2>2, <2>4, LinksKept
<1>4. ASSUME NEW s \in Session, Submits(s) PROVE LinkInv'
  <2>1. UNCHANGED takes
    BY <1>4, SubmitsStep
  <2>2. PICK job \in Jobs : Goto(s, job) /\ job.take.supersedes \in Ids \cup {NoTake}
    BY <1>4, SubmitsStep
  <2>3. \A i \in DOMAIN takes : i <= Len(takes)
    BY DEF Typed
  <2>4. Follows(job.take, Len(takes))
    BY <2>2, <2>3 DEF Follows, Ids
  <2> QED BY <2>1, <2>2, <2>4, LinksKept
<1>5. ASSUME NEW s \in Session, Reserve(s) \/ Dispatch(s) PROVE LinkInv'
  <2>1. UNCHANGED takes
    BY <1>5 DEF Reserve, Dispatch, ledger
  <2>2. \E job \in Jobs : Goto(s, job) /\ job.pc \in {"idle", "dispatching", "settling"}
    BY <1>5, ReserveStep, DispatchStep
  <2> QED BY <2>1, <2>2, LinksKept
<1>6. ASSUME NEW s \in Session, NEW outcome, Settle(s, outcome) PROVE LinkInv'
  <2>1. UNCHANGED takes
    BY <1>6 DEF Settle
  <2>2. PICK job \in Jobs : Goto(s, job) /\ job.take.supersedes = NoTake
    BY <1>6, SettleStep
  <2>3. Follows(job.take, Len(takes))
    BY <2>2 DEF Follows
  <2> QED BY <2>1, <2>2, <2>3, LinksKept
<1>7. ASSUME NEW s \in Session, AppendTake(s) PROVE LinkInv'
  <2>1. /\ Bringing(s) /\ Goto(s, Idle) /\ takes' \in Seq(Takes) /\ DOMAIN takes' = DOMAIN takes \cup {Len(takes) + 1}
        /\ takes' = Append(takes, session[s].take)
        /\ \A i \in DOMAIN takes : takes'[i] = takes[i]
        /\ takes'[Len(takes) + 1] = session[s].take
    BY <1>7, AppendStep DEF Bringing
  <2>2. takes \in Seq(Takes) /\ session[s].take \in Takes
    BY <1>7, AppendStep DEF Typed
  <2>3. Len(takes') = Len(takes) + 1 /\ Len(takes) \in Nat
    BY <2>1, <2>2
  <2>4. Follows(session[s].take, Len(takes))
    BY <2>1 DEF LinkInv
  <2> QED BY <2>1, <2>3, <2>4, LinksGrow
<1>8. ASSUME NEW s \in Session, Replace(s) PROVE LinkInv'
  <2>1. Goto(s, Idle) /\ takes' \in Seq(Takes) /\ DOMAIN takes' = DOMAIN takes
        /\ \A i \in DOMAIN takes : Same(takes'[i], takes[i])
    BY <1>8, ReplaceStep
  <2>2. Len(takes') = Len(takes) /\ Len(takes) \in Nat
    BY <2>1 DEF Typed
  <2>3. \A i \in DOMAIN takes : takes'[i].id = takes[i].id /\ takes'[i].supersedes = takes[i].supersedes
    BY <2>1 DEF Same, Kin
  <2> QED BY <2>1, <2>2, <2>3, LinksGrow
<1> QED BY <1>1, <1>2, <1>3, <1>4, <1>5, <1>6, <1>7, <1>8, StepsByKind

-----------------------------------------------------------------------------
LedgerInv == Typed /\ IdInv /\ CallsInv /\ PlanInv /\ LinkInv

LEMMA LedgerInductive == Spec => []LedgerInv
<1>1. Init => LedgerInv
  BY InitTyped, InitCalls, InitPlan, InitLinks DEF LedgerInv
<1>2. LedgerInv /\ [Next]_vars => LedgerInv'
  <2> SUFFICES ASSUME LedgerInv, [Next]_vars PROVE LedgerInv'
    OBVIOUS
  <2>1. Typed' /\ IdInv'
    BY NextTyped DEF LedgerInv
  <2>2. \A segment : Attempts(segment) \in Nat
    BY Counted DEF LedgerInv
  <2>3. \A segment : Attempts(segment)' \in Nat
    BY <2>1, AttemptsTyped
  <2>4. CallsInv'
    BY <2>1, <2>2, <2>3, NextCalls DEF LedgerInv
  <2> QED BY <2>1, <2>4, NextPlan, NextLinks DEF LedgerInv
<1> QED BY <1>1, <1>2, PTL DEF Spec

(* What the ledger, the grants and the books hold is of its type, and a     *)
(* take's number is one of those that there are.                            *)
THEOREM TypeCorrect == Spec => []TypeOK
<1>1. LedgerInv => TypeOK
  BY DEF LedgerInv, Typed, IdInv, TypeOK, Billing
<1> QED BY <1>1, LedgerInductive, PTL

(* Under one grant a segment is never paid for again before the ledger has  *)
(* a take more of it, whoever crashes and however the gateways interleave.  *)
THEOREM PaidOncePerTake == Spec => []NotPaidAgain
<1>1. LedgerInv => NotPaidAgain
  BY CallsBounded DEF LedgerInv
<1> QED BY <1>1, LedgerInductive, PTL

(* A take in the list that rests on an authorization was made of the plan   *)
(* its decision bound, and its plan id leads to that plan.                  *)
THEOREM PlansAreKept == Spec => []TakesRestOnTheirPlan
<1>1. LedgerInv => TakesRestOnTheirPlan
  BY DEF LedgerInv, PlanInv, Rests, TakesRestOnTheirPlan
<1> QED BY <1>1, LedgerInductive, PTL

-----------------------------------------------------------------------------
(* Induction, in the form the provers can use.                              *)
LEMMA Least ==
  ASSUME NEW S \in SUBSET Nat, S # {}
  PROVE  \E n \in S : \A m \in S : n <= m
<1>1. IsWellFoundedOn(OpToRel(<, Nat), Nat)
  BY NatLessThanWellFounded
<1>2. \E x \in S : \A y \in S : <<y, x>> \notin OpToRel(<, Nat)
  BY <1>1, WFMin
<1>3. \A x, y \in Nat : <<y, x>> \in OpToRel(<, Nat) <=> y < x
  BY DEF OpToRel
<1>4. \E x \in S : \A y \in S : ~ (y < x)
  BY <1>2, <1>3, Zenon
<1> QED BY <1>4

LEMMA Induction ==
  ASSUME NEW S, 0 \in S, \A n \in Nat : n \in S => n + 1 \in S
  PROVE  Nat \subseteq S
<1> SUFFICES ASSUME Nat \ S # {} PROVE FALSE
  OBVIOUS
<1>1. PICK n \in Nat \ S : \A m \in Nat \ S : n <= m
  BY Least
<1>2. n # 0 /\ n - 1 \in Nat /\ n - 1 \notin Nat \ S
  BY <1>1
<1> QED BY <1>1, <1>2

(* f is what step makes of start, time after time, up to N times. *)
Iterates(f, N, start, step) ==
  f = [n \in 0 .. N |-> IF n = 0 THEN start ELSE step[n][f[n - 1]]]

LEMMA IterationExists ==
  ASSUME NEW N \in Nat, NEW T, NEW start \in T, NEW step \in [1 .. N -> [T -> T]]
  PROVE  \E f \in [0 .. N -> T] : Iterates(f, N, start, step)
<1> DEFINE S == {m \in Nat : m <= N => \E f \in [0 .. m -> T] : Iterates(f, m, start, step)}
<1>1. 0 \in S
  <2>1. [n \in 0 .. 0 |-> start] \in [0 .. 0 -> T]
    OBVIOUS
  <2>2. Iterates([n \in 0 .. 0 |-> start], 0, start, step)
    BY DEF Iterates
  <2> QED BY <2>1, <2>2
<1>2. ASSUME NEW m \in Nat, m \in S PROVE m + 1 \in S
  <2> SUFFICES ASSUME m + 1 <= N PROVE \E f \in [0 .. m + 1 -> T] : Iterates(f, m + 1, start, step)
    OBVIOUS
  <2>1. PICK f \in [0 .. m -> T] : Iterates(f, m, start, step)
    BY <1>2
  <2>2. f[m] \in T /\ step[m + 1][f[m]] \in T
    BY <2>1
  <2> DEFINE h == [n \in 0 .. m + 1 |-> IF n = m + 1 THEN step[m + 1][f[m]] ELSE f[n]]
  <2>3. h \in [0 .. m + 1 -> T]
    BY <2>2
  <2>4. ASSUME NEW n \in 0 .. m + 1
        PROVE  h[n] = IF n = 0 THEN start ELSE step[n][h[n - 1]]
    <3>1. CASE n = m + 1
      BY <3>1
    <3>2. CASE n # m + 1
      <4>1. n \in 0 .. m /\ h[n] = f[n] /\ (n # 0 => h[n - 1] = f[n - 1])
        BY <3>2
      <4> QED BY <2>1, <4>1 DEF Iterates
    <3> QED BY <3>1, <3>2
  <2>5. Iterates(h, m + 1, start, step)
    BY <2>4 DEF Iterates
  <2> QED BY <2>3, <2>5
<1>3. Nat \subseteq S
  <2> HIDE DEF S
  <2> QED BY <1>1, <1>2, Induction
<1> QED BY <1>3

-----------------------------------------------------------------------------
(* A list as it grows: each take has an id of its own, and what it           *)
(* supersedes is before it.                                                  *)
Backwards(ts) ==
  \A i, j \in DOMAIN ts :
    /\ ts[i].id = ts[j].id => i = j
    /\ ts[j].id = ts[i].supersedes => j < i

LEMMA BeforeIs ==
  ASSUME NEW ts \in Seq(Takes), Backwards(ts), NEW P \in SUBSET DOMAIN ts, NEW i \in P
  PROVE  /\ Before(ts, P, i) \in {0} \cup P
         /\ Before(ts, P, i) \in P => Before(ts, P, i) < i
         /\ \A j \in P : ts[j].id = ts[i].supersedes => Before(ts, P, i) = j
<1> DEFINE held == {j \in P : ts[j].id = ts[i].supersedes}
<1>1. Before(ts, P, i) = IF held = {} THEN 0 ELSE CHOOSE j \in held : TRUE
  BY DEF Before
<1>2. \A j, k \in held : j = k /\ j < i
  BY DEF Backwards
<1>3. DOMAIN ts \subseteq Nat \ {0}
  OBVIOUS
<1>4. CASE held = {}
  <2>1. Before(ts, P, i) = 0
    BY <1>1, <1>4
  <2>2. 0 \notin P
    BY <1>3
  <2> QED BY <1>4, <2>1, <2>2
<1>5. CASE held # {}
  <2>1. Before(ts, P, i) \in held
    BY <1>1, <1>5
  <2> QED BY <1>2, <2>1
<1> QED BY <1>4, <1>5

(* A chain goes down from where it starts, and has ended when there are no   *)
(* more takes.                                                               *)
LEMMA ChainIs ==
  ASSUME NEW ts \in Seq(Takes), Backwards(ts), NEW P \in SUBSET DOMAIN ts, NEW i \in P
  PROVE  /\ Chain(ts, P, i) \in [0 .. Len(ts) -> {0} \cup P]
         /\ Chain(ts, P, i)[0] = i /\ Chain(ts, P, i)[Len(ts)] = 0
         /\ \A n \in 1 .. Len(ts) : Chain(ts, P, i)[n] =
              IF Chain(ts, P, i)[n - 1] = 0 THEN 0 ELSE Before(ts, P, Chain(ts, P, i)[n - 1])
<1> DEFINE N == Len(ts)
           T == {0} \cup P
           Back(j) == IF j = 0 THEN 0 ELSE Before(ts, P, j)
           step == [n \in 1 .. N |-> [j \in T |-> Back(j)]]
           IsOne(f) == f = [n \in 0 .. N |->
                              IF n = 0 THEN i ELSE IF f[n - 1] = 0 THEN 0 ELSE Before(ts, P, f[n - 1])]
<1>1. N \in Nat /\ DOMAIN ts = 1 .. N /\ P \subseteq 1 .. N
  OBVIOUS
<1>2. i \in T /\ \A j \in T : Back(j) \in T
  BY BeforeIs
<1> HIDE DEF N, Back, T
<1>3. step \in [1 .. N -> [T -> T]] /\ \A n \in 1 .. N : \A j \in T : step[n][j] = Back(j)
  BY <1>2
<1> HIDE DEF step
<1>4. PICK f \in [0 .. N -> T] : Iterates(f, N, i, step)
  BY <1>1, <1>2, <1>3, IterationExists
<1>5. IsOne(f)
  <2>1. ASSUME NEW n \in 0 .. N
        PROVE  (IF n = 0 THEN i ELSE step[n][f[n - 1]])
               = IF n = 0 THEN i ELSE IF f[n - 1] = 0 THEN 0 ELSE Before(ts, P, f[n - 1])
    <3>1. CASE n = 0
      BY <3>1
    <3>2. CASE n # 0
      <4>1. n \in 1 .. N /\ n - 1 \in 0 .. N
        BY <1>1, <3>2
      <4>2. step[n][f[n - 1]] = Back(f[n - 1])
        BY <1>3, <1>4, <4>1
      <4> QED BY <3>2, <4>2 DEF Back
    <3> QED BY <3>1, <3>2
  <2>2. [n \in 0 .. N |-> IF n = 0 THEN i ELSE step[n][f[n - 1]]]
        = [n \in 0 .. N |-> IF n = 0 THEN i ELSE IF f[n - 1] = 0 THEN 0 ELSE Before(ts, P, f[n - 1])]
    BY <2>1
  <2> QED BY <1>4, <2>2 DEF Iterates
<1> DEFINE g == CHOOSE h : IsOne(h)
<1>6. IsOne(g)
  <2> HIDE DEF IsOne
  <2> QED BY <1>5
<1>7. Chain(ts, P, i) = g
  BY Zenon DEF Chain, N
<1> HIDE DEF g
<1>8. /\ DOMAIN g = 0 .. N /\ g[0] = i
      /\ \A n \in 1 .. N : g[n] = IF g[n - 1] = 0 THEN 0 ELSE Before(ts, P, g[n - 1])
  <2>1. 0 \in 0 .. N /\ \A n \in 1 .. N : n \in 0 .. N /\ n # 0
    BY <1>1
  <2> QED BY <1>6, <2>1
<1>9. \A n \in 1 .. N : g[n] = Back(g[n - 1])
  BY <1>8 DEF Back
<1>14. g = [n \in 0 .. N |-> g[n]]
  <2> DEFINE e == [n \in 0 .. N |-> IF n = 0 THEN i ELSE IF g[n - 1] = 0 THEN 0 ELSE Before(ts, P, g[n - 1])]
  <2>1. g = e
    BY <1>6
  <2>2. e = [n \in 0 .. N |-> e[n]]
    OBVIOUS
  <2> HIDE DEF e
  <2> QED BY <2>1, <2>2
<1> HIDE DEF IsOne
<1>10. \A n \in 0 .. N : g[n] \in T /\ (g[n] # 0 => g[n] + n <= i)
  <2> DEFINE On(n) == g[n] \in T /\ (g[n] # 0 => g[n] + n <= i)
             S == {n \in Nat : n <= N => On(n)}
  <2>1. 0 \in S
    <3>1. i + 0 <= i
      BY <1>1
    <3> QED BY <1>2, <1>8, <3>1
  <2>2. ASSUME NEW n \in Nat, On(n), n + 1 <= N PROVE On(n + 1)
    <3> DEFINE j == g[n]
               k == g[n + 1]
    <3>1. n + 1 \in 1 .. N /\ (n + 1) - 1 = n
      BY <1>1, <2>2
    <3>2. k = Back(j) /\ j \in T /\ (j # 0 => j + n <= i)
      BY <1>9, <2>2, <3>1
    <3>3. k \in T
      BY <1>2, <3>2
    <3>4. ASSUME k # 0 PROVE k + (n + 1) <= i
      <4>1. j # 0
        BY <3>2, <3>4 DEF Back
      <4>2. j \in P /\ k = Before(ts, P, j) /\ k \in P
        BY <3>2, <3>3, <3>4, <4>1 DEF T, Back
      <4>3. k < j
        BY <4>2, BeforeIs
      <4>4. j \in Nat /\ k \in Nat /\ i \in Nat
        BY <1>1, <4>2
      <4> HIDE DEF j, k
      <4> QED BY <3>2, <4>1, <4>3, <4>4
    <3> QED BY <3>3, <3>4
  <2>3. \A n \in Nat : n \in S => n + 1 \in S
    <3> HIDE DEF On
    <3> QED BY <1>1, <2>2
  <2>4. Nat \subseteq S
    <3> HIDE DEF S
    <3> QED BY <2>1, <2>3, Induction
  <2> QED BY <1>1, <2>4
<1>11. g \in [0 .. N -> T]
  BY <1>10, <1>14
<1>12. g[N] = 0
  <2>1. N \in 0 .. N
    BY <1>1
  <2>2. g[N] \in T /\ (g[N] # 0 => g[N] + N <= i)
    BY <1>10, <2>1
  <2>3. i \in Nat /\ i <= N /\ \A j \in T : j # 0 => j \in Nat /\ j > 0
    BY <1>1 DEF T
  <2> QED BY <1>1, <2>2, <2>3
<1> QED BY <1>7, <1>8, <1>11, <1>12 DEF N, T

-----------------------------------------------------------------------------
(* An order in the making: of the takes in P, each once and after what it    *)
(* superseded.                                                               *)
GoodOrder(ts, P, o) ==
  /\ o \in Seq(P)
  /\ \A m, n \in DOMAIN o : o[m] = o[n] => m = n
  /\ \A n \in DOMAIN o : \A j \in P : ts[j].id = ts[o[n]].supersedes => \E m \in DOMAIN o : m < n /\ o[m] = j

(* i may come next.                                                          *)
Ready(ts, P, o, i) ==
  i # 0 => i \in P /\ \A j \in P : ts[j].id = ts[i].supersedes => j \in ToSet(o)

LEMMA PlacedIs ==
  ASSUME NEW ts \in Seq(Takes), NEW P \in SUBSET DOMAIN ts, NEW o, NEW i, GoodOrder(ts, P, o), Ready(ts, P, o, i)
  PROVE  /\ GoodOrder(ts, P, Placed(o, i))
         /\ ToSet(Placed(o, i)) = ToSet(o) \cup ({i} \ {0})
<1> DEFINE p == Placed(o, i)
<1>1. CASE i = 0 \/ i \in ToSet(o)
  BY <1>1 DEF Placed
<1>2. CASE i # 0 /\ i \notin ToSet(o)
  <2>1. p = Append(o, i) /\ i \in P
    BY <1>2 DEF Placed, Ready
  <2>2. o \in Seq(P) /\ Len(o) \in Nat /\ DOMAIN o = 1 .. Len(o)
    BY DEF GoodOrder
  <2>3. /\ p \in Seq(P) /\ DOMAIN p = 1 .. Len(o) + 1 /\ p[Len(o) + 1] = i
        /\ \A n \in DOMAIN o : p[n] = o[n]
    BY <2>1, <2>2
  <2> HIDE DEF p
  <2>4. /\ \A n \in DOMAIN p : n \in DOMAIN o \/ n = Len(o) + 1
        /\ \A n \in DOMAIN o : n \in DOMAIN p /\ n < Len(o) + 1
        /\ Len(o) + 1 \in DOMAIN p
    BY <2>2, <2>3
  <2>5. \A n \in DOMAIN o : o[n] # i
    BY <1>2 DEF ToSet
  <2>6. \A m, n \in DOMAIN p : p[m] = p[n] => m = n
    BY <2>3, <2>4, <2>5 DEF GoodOrder
  <2>7. ASSUME NEW n \in DOMAIN p, NEW j \in P, ts[j].id = ts[p[n]].supersedes
        PROVE  \E m \in DOMAIN p : m < n /\ p[m] = j
    <3>1. CASE n \in DOMAIN o
      <4>1. ts[j].id = ts[o[n]].supersedes
        BY <2>3, <2>7, <3>1
      <4>2. PICK m \in DOMAIN o : m < n /\ o[m] = j
        BY <3>1, <4>1 DEF GoodOrder
      <4> QED BY <2>3, <2>4, <4>2
    <3>2. CASE n = Len(o) + 1
      <4>1. j \in ToSet(o)
        BY <1>2, <2>3, <2>7, <3>2 DEF Ready
      <4>2. PICK m \in DOMAIN o : o[m] = j
        BY <4>1 DEF ToSet
      <4> QED BY <2>3, <2>4, <3>2, <4>2
    <3> QED BY <2>4, <3>1, <3>2
  <2>8. ToSet(p) = ToSet(o) \cup {i}
    BY <2>3, <2>4 DEF ToSet
  <2>9. GoodOrder(ts, P, p)
    BY <2>3, <2>6, <2>7 DEF GoodOrder
  <2> QED BY <1>2, <2>8, <2>9 DEF p
<1> QED BY <1>1, <1>2

LEMMA PlaceIs ==
  ASSUME NEW ts \in Seq(Takes), Backwards(ts), NEW P \in SUBSET DOMAIN ts, NEW o, GoodOrder(ts, P, o), NEW i \in P
  PROVE  /\ GoodOrder(ts, P, Place(ts, P, o, i))
         /\ ToSet(o) \cup {i} \subseteq ToSet(Place(ts, P, o, i))
<1> DEFINE N == Len(ts)
           chain == Chain(ts, P, i)
           T == {q \in Seq(P) : TRUE}
           step == [n \in 1 .. N |-> [q \in T |-> Placed(q, chain[N - n])]]
           IsOne(f) == f = [n \in 0 .. N |-> IF n = 0 THEN o ELSE Placed(f[n - 1], chain[N - n])]
<1>1. N \in Nat /\ N # 0 /\ DOMAIN ts = 1 .. N /\ P \subseteq 1 .. N
  <2>1. N \in Nat /\ DOMAIN ts = 1 .. N
    OBVIOUS
  <2>2. i \in 1 .. N
    BY <2>1
  <2> QED BY <2>1, <2>2
<1>2. /\ chain \in [0 .. N -> {0} \cup P] /\ chain[0] = i /\ chain[N] = 0
      /\ \A n \in 1 .. N : chain[n] = IF chain[n - 1] = 0 THEN 0 ELSE Before(ts, P, chain[n - 1])
  BY ChainIs
<1> HIDE DEF N, chain
<1>3. o \in T
  BY DEF GoodOrder
<1>4. \A n \in 1 .. N : chain[N - n] \in {0} \cup P
  <2> TAKE n \in 1 .. N
  <2>1. N - n \in 0 .. N
    BY <1>1
  <2> QED BY <1>2, <2>1
<1>5. \A n \in 1 .. N : \A q \in T : Placed(q, chain[N - n]) \in T
  <2> SUFFICES ASSUME NEW n \in 1 .. N, NEW q \in Seq(P) PROVE Placed(q, chain[N - n]) \in Seq(P)
    OBVIOUS
  <2>1. chain[N - n] # 0 => chain[N - n] \in P
    BY <1>4
  <2> QED BY <2>1 DEF Placed
<1> HIDE DEF T
<1>6. step \in [1 .. N -> [T -> T]] /\ \A n \in 1 .. N : \A q \in T : step[n][q] = Placed(q, chain[N - n])
  BY <1>5
<1> HIDE DEF step
<1>7. PICK f \in [0 .. N -> T] : Iterates(f, N, o, step)
  BY <1>1, <1>3, <1>6, IterationExists
<1>8. IsOne(f)
  <2>1. ASSUME NEW n \in 0 .. N
        PROVE  (IF n = 0 THEN o ELSE step[n][f[n - 1]]) = IF n = 0 THEN o ELSE Placed(f[n - 1], chain[N - n])
    <3>1. CASE n = 0
      BY <3>1
    <3>2. CASE n # 0
      <4>1. n \in 1 .. N /\ n - 1 \in 0 .. N
        BY <1>1, <3>2
      <4> QED BY <1>6, <1>7, <3>2, <4>1
    <3> QED BY <3>1, <3>2
  <2>2. [n \in 0 .. N |-> IF n = 0 THEN o ELSE step[n][f[n - 1]]]
        = [n \in 0 .. N |-> IF n = 0 THEN o ELSE Placed(f[n - 1], chain[N - n])]
    BY <2>1
  <2> QED BY <1>7, <2>2 DEF Iterates
<1> DEFINE g == CHOOSE h : IsOne(h)
<1>9. IsOne(g)
  <2> HIDE DEF IsOne
  <2> QED BY <1>8
<1>10. Place(ts, P, o, i) = g[N]
  BY Zenon DEF Place, N, chain
<1> HIDE DEF g
<1>11. g[0] = o /\ \A n \in 1 .. N : g[n] = Placed(g[n - 1], chain[N - n])
  <2>1. 0 \in 0 .. N /\ \A n \in 1 .. N : n \in 0 .. N /\ n # 0
    BY <1>1
  <2> QED BY <1>9, <2>1
<1> HIDE DEF IsOne
<1>12. \A n \in 0 .. N :
         /\ GoodOrder(ts, P, g[n]) /\ ToSet(o) \subseteq ToSet(g[n])
         /\ chain[N - n] \in ToSet(g[n]) \cup {0}
  <2> DEFINE On(n) == /\ GoodOrder(ts, P, g[n]) /\ ToSet(o) \subseteq ToSet(g[n])
                      /\ chain[N - n] \in ToSet(g[n]) \cup {0}
             S == {n \in Nat : n <= N => On(n)}
  <2>1. 0 \in S
    <3>1. N - 0 = N
      BY <1>1
    <3> QED BY <1>2, <1>11, <3>1
  <2>2. ASSUME NEW n \in Nat, On(n), n + 1 <= N PROVE On(n + 1)
    <3> DEFINE q == g[n]
               j == chain[N - (n + 1)]
               k == chain[N - n]
    <3>1. n + 1 \in 1 .. N /\ (n + 1) - 1 = n /\ N - n \in 1 .. N /\ (N - n) - 1 = N - (n + 1)
      BY <1>1, <2>2
    <3>2. g[n + 1] = Placed(q, j)
      BY <1>11, <3>1
    <3>3. j \in {0} \cup P /\ k = IF j = 0 THEN 0 ELSE Before(ts, P, j)
      BY <1>2, <1>4, <3>1
    <3>4. GoodOrder(ts, P, q) /\ ToSet(o) \subseteq ToSet(q) /\ k \in ToSet(q) \cup {0}
      BY <2>2
    <3> HIDE DEF On, S, q, j, k
    <3>5. ASSUME NEW c \in P, j # 0, ts[c].id = ts[j].supersedes PROVE c \in ToSet(q)
      <4>1. k = c
        BY <3>3, <3>5, BeforeIs
      <4>2. c # 0
        BY <1>1
      <4> QED BY <3>4, <4>1, <4>2
    <3>6. GoodOrder(ts, P, Placed(q, j)) /\ ToSet(Placed(q, j)) = ToSet(q) \cup ({j} \ {0})
      <4>1. Ready(ts, P, q, j)
        BY <3>3, <3>5 DEF Ready
      <4> QED BY <3>4, <4>1, PlacedIs
    <3>7. /\ GoodOrder(ts, P, g[n + 1]) /\ ToSet(o) \subseteq ToSet(g[n + 1])
          /\ j \in ToSet(g[n + 1]) \cup {0}
      BY <3>2, <3>4, <3>6
    <3> QED BY <3>7 DEF On, j
  <2>3. \A n \in Nat : n \in S => n + 1 \in S
    <3> HIDE DEF On
    <3> QED BY <1>1, <2>2
  <2>4. Nat \subseteq S
    <3> HIDE DEF S
    <3> QED BY <2>1, <2>3, Induction
  <2> QED BY <1>1, <2>4
<1>13. GoodOrder(ts, P, g[N]) /\ ToSet(o) \subseteq ToSet(g[N]) /\ chain[0] \in ToSet(g[N]) \cup {0}
  <2>1. N \in 0 .. N /\ N - N = 0
    BY <1>1
  <2> QED BY <1>12, <2>1
<1>14. i # 0
  BY <1>1
<1> QED BY <1>2, <1>10, <1>13, <1>14

LEMMA NextStartIs ==
  ASSUME NEW ts \in Seq(Takes), NEW P \in SUBSET DOMAIN ts, NEW o, ~ (P \subseteq ToSet(o))
  PROVE  NextStart(ts, P, o) \in P \ ToSet(o)
<1> DEFINE left == P \ ToSet(o)
           heads == left \cap Heads(ts, P)
<1>1. left # {} /\ left \subseteq Nat /\ \A j \in left : ts[j].attempt \in Nat
  <2>1. left # {} /\ left \subseteq DOMAIN ts
    OBVIOUS
  <2>2. DOMAIN ts \subseteq Nat /\ \A j \in DOMAIN ts : ts[j] \in Takes
    OBVIOUS
  <2>3. \A t \in Takes : t.attempt \in Nat
    BY DEF Takes
  <2> HIDE DEF left
  <2> QED BY <2>1, <2>2, <2>3
<1>2. NextStart(ts, P, o) = IF heads # {} THEN CHOOSE j \in heads : \A k \in heads : j <= k
                            ELSE CHOOSE j \in left : \A k \in left :
                                   \/ ts[j].attempt < ts[k].attempt
                                   \/ ts[j].attempt = ts[k].attempt /\ j <= k
  BY DEF NextStart
<1>3. heads \subseteq left
  OBVIOUS
<1> HIDE DEF left, heads
<1>4. CASE heads # {}
  <2>1. \E j \in heads : \A k \in heads : j <= k
    BY <1>1, <1>3, <1>4, Least
  <2>2. (CHOOSE j \in heads : \A k \in heads : j <= k) \in heads
    BY <2>1
  <2> QED BY <1>2, <1>3, <1>4, <2>2 DEF left
<1>5. CASE heads = {}
  <2>1. \E j \in left : \A k \in left :
          ts[j].attempt < ts[k].attempt \/ (ts[j].attempt = ts[k].attempt /\ j <= k)
    <3> DEFINE A == {ts[j].attempt : j \in left}
    <3>1. A \in SUBSET Nat /\ A # {}
      BY <1>1
    <3>2. PICK a \in A : \A b \in A : a <= b
      <4> HIDE DEF A
      <4> QED BY <3>1, Least
    <3> DEFINE B == {j \in left : ts[j].attempt = a}
    <3>3. B \in SUBSET Nat /\ B # {}
      BY <1>1, <3>2
    <3>4. PICK j \in B : \A k \in B : j <= k
      <4> HIDE DEF B
      <4> QED BY <3>3, Least
    <3>5. ASSUME NEW k \in left PROVE a < ts[k].attempt \/ (a = ts[k].attempt /\ j <= k)
      <4>1. ts[k].attempt \in Nat /\ a \in Nat /\ a <= ts[k].attempt
        BY <1>1, <3>1, <3>2
      <4>2. a = ts[k].attempt => j <= k
        BY <3>4
      <4> QED BY <4>1, <4>2
    <3> QED BY <3>4, <3>5
  <2>2. (CHOOSE j \in left : \A k \in left :
           ts[j].attempt < ts[k].attempt \/ (ts[j].attempt = ts[k].attempt /\ j <= k)) \in left
    BY <2>1
  <2> QED BY <1>2, <1>5, <2>2 DEF left
<1> QED BY <1>4, <1>5

-----------------------------------------------------------------------------
(* Each walk places the take it starts from, so there are no more walks than *)
(* takes.                                                                    *)
LEMMA OrderChainIs ==
  ASSUME NEW ts \in Seq(Takes), Backwards(ts), NEW P \in SUBSET DOMAIN ts
  PROVE  GoodOrder(ts, P, OrderChain(ts, P)) /\ ToSet(OrderChain(ts, P)) = P
<1> DEFINE N == Len(ts)
           T == {o \in Seq(P) : GoodOrder(ts, P, o)}
           Walked(o) == IF P \subseteq ToSet(o) THEN o ELSE Place(ts, P, o, NextStart(ts, P, o))
           step == [n \in 1 .. N |-> [o \in T |-> Walked(o)]]
           IsOne(f) == f = [n \in 0 .. N |->
                              IF n = 0 THEN <<>>
                              ELSE IF P \subseteq ToSet(f[n - 1]) THEN f[n - 1]
                              ELSE Place(ts, P, f[n - 1], NextStart(ts, P, f[n - 1]))]
<1>1. N \in Nat /\ DOMAIN ts = 1 .. N /\ P \subseteq 1 .. N
  OBVIOUS
<1>2. IsFiniteSet(P) /\ Cardinality(P) \in Nat /\ Cardinality(P) <= N
  <2>1. IsFiniteSet(1 .. N) /\ Cardinality(1 .. N) = N
    BY <1>1, UpTo
  <2>2. IsFiniteSet(P) /\ Cardinality(P) <= Cardinality(1 .. N)
    BY <1>1, <2>1, FS_Subset
  <2> QED BY <2>1, <2>2, FS_CardinalityType
<1>3. <<>> \in T
  BY DEF GoodOrder
<1>4. \A o \in T : GoodOrder(ts, P, o) /\ ToSet(o) \subseteq P
  BY DEF ToSet
<1>5. ASSUME NEW o \in T
      PROVE  /\ Walked(o) \in T
             /\ P \subseteq ToSet(o) => Walked(o) = o
             /\ ~ (P \subseteq ToSet(o)) => ToSet(o) \subseteq ToSet(Walked(o)) /\ ToSet(o) # ToSet(Walked(o))
  <2>1. CASE P \subseteq ToSet(o)
    BY <2>1
  <2>2. CASE ~ (P \subseteq ToSet(o))
    <3> DEFINE i == NextStart(ts, P, o)
               q == Place(ts, P, o, i)
    <3>1. i \in P /\ i \notin ToSet(o)
      BY <2>2, NextStartIs
    <3>2. Walked(o) = q
      BY <2>2
    <3>3. GoodOrder(ts, P, o)
      BY <1>4
    <3> HIDE DEF i
    <3>4. GoodOrder(ts, P, q) /\ ToSet(o) \cup {i} \subseteq ToSet(q)
      BY <3>1, <3>3, PlaceIs
    <3> HIDE DEF q
    <3>5. q \in T
      BY <3>4 DEF GoodOrder
    <3> HIDE DEF T, Walked
    <3> QED BY <2>2, <3>1, <3>2, <3>4, <3>5
  <2> QED BY <2>1, <2>2
<1> HIDE DEF N, T
<1>6. step \in [1 .. N -> [T -> T]] /\ \A n \in 1 .. N : \A o \in T : step[n][o] = Walked(o)
  <2> HIDE DEF Walked
  <2> QED BY <1>5
<1> HIDE DEF step
<1>7. PICK f \in [0 .. N -> T] : Iterates(f, N, <<>>, step)
  BY <1>1, <1>3, <1>6, IterationExists
<1>8. IsOne(f)
  <2>1. ASSUME NEW n \in 0 .. N
        PROVE  (IF n = 0 THEN <<>> ELSE step[n][f[n - 1]])
               = IF n = 0 THEN <<>>
                 ELSE IF P \subseteq ToSet(f[n - 1]) THEN f[n - 1]
                 ELSE Place(ts, P, f[n - 1], NextStart(ts, P, f[n - 1]))
    <3>1. CASE n = 0
      BY <3>1
    <3>2. CASE n # 0
      <4>1. n \in 1 .. N /\ n - 1 \in 0 .. N
        BY <1>1, <3>2
      <4>2. step[n][f[n - 1]] = Walked(f[n - 1])
        BY <1>6, <1>7, <4>1
      <4> QED BY <3>2, <4>2
    <3> QED BY <3>1, <3>2
  <2>2. [n \in 0 .. N |-> IF n = 0 THEN <<>> ELSE step[n][f[n - 1]]]
        = [n \in 0 .. N |-> IF n = 0 THEN <<>>
                            ELSE IF P \subseteq ToSet(f[n - 1]) THEN f[n - 1]
                            ELSE Place(ts, P, f[n - 1], NextStart(ts, P, f[n - 1]))]
    BY <2>1
  <2> QED BY <1>7, <2>2 DEF Iterates
<1> DEFINE g == CHOOSE h : IsOne(h)
<1>9. IsOne(g)
  <2> HIDE DEF IsOne
  <2> QED BY <1>8
<1>10. OrderChain(ts, P) = g[N]
  BY Zenon DEF OrderChain, N
<1> HIDE DEF g
<1>11. g[0] = <<>> /\ \A n \in 1 .. N : g[n] = Walked(g[n - 1])
  <2>1. 0 \in 0 .. N /\ \A n \in 1 .. N : n \in 0 .. N /\ n # 0
    BY <1>1
  <2> QED BY <1>9, <2>1
<1> HIDE DEF IsOne, Walked
<1>12. \A o \in T : IsFiniteSet(ToSet(o)) /\ Cardinality(ToSet(o)) \in Nat
  BY <1>2, <1>4, FS_Subset, FS_CardinalityType
<1>13. \A n \in 0 .. N : g[n] \in T /\ (P \subseteq ToSet(g[n]) \/ Cardinality(ToSet(g[n])) >= n)
  <2> DEFINE On(n) == g[n] \in T /\ (P \subseteq ToSet(g[n]) \/ Cardinality(ToSet(g[n])) >= n)
             S == {n \in Nat : n <= N => On(n)}
  <2>1. 0 \in S
    <3>1. g[0] \in T
      BY <1>3, <1>11
    <3>2. Cardinality(ToSet(g[0])) \in Nat
      BY <1>12, <3>1
    <3> QED BY <3>1, <3>2
  <2>2. ASSUME NEW n \in Nat, On(n), n + 1 <= N PROVE On(n + 1)
    <3> DEFINE o == g[n]
               q == g[n + 1]
    <3>1. n + 1 \in 1 .. N /\ (n + 1) - 1 = n
      BY <1>1, <2>2
    <3>2. q = Walked(o) /\ o \in T /\ (P \subseteq ToSet(o) \/ Cardinality(ToSet(o)) >= n)
      BY <1>11, <2>2, <3>1
    <3> HIDE DEF o, q
    <3>3. q \in T /\ (P \subseteq ToSet(o) => q = o)
          /\ (~ (P \subseteq ToSet(o)) => ToSet(o) \subseteq ToSet(q) /\ ToSet(o) # ToSet(q))
      BY <1>5, <3>2
    <3>4. CASE P \subseteq ToSet(o)
      BY <3>3, <3>4 DEF q
    <3>5. CASE ~ (P \subseteq ToSet(o))
      <4>1. Cardinality(ToSet(o)) <= Cardinality(ToSet(q)) /\ Cardinality(ToSet(o)) # Cardinality(ToSet(q))
        BY <1>12, <3>2, <3>3, <3>5, FS_Subset
      <4>2. Cardinality(ToSet(o)) \in Nat /\ Cardinality(ToSet(q)) \in Nat
        BY <1>12, <3>2, <3>3
      <4>3. Cardinality(ToSet(q)) >= n + 1
        BY <3>2, <3>5, <4>1, <4>2
      <4> QED BY <3>3, <4>3 DEF q
    <3> QED BY <3>4, <3>5
  <2>3. \A n \in Nat : n \in S => n + 1 \in S
    <3> HIDE DEF On
    <3> QED BY <1>1, <2>2
  <2>4. Nat \subseteq S
    <3> HIDE DEF S
    <3> QED BY <2>1, <2>3, Induction
  <2> QED BY <1>1, <2>4
<1> DEFINE o == g[N]
<1>14. o \in T /\ (P \subseteq ToSet(o) \/ Cardinality(ToSet(o)) >= N)
  <2>1. N \in 0 .. N
    BY <1>1
  <2> QED BY <1>13, <2>1
<1>15. OrderChain(ts, P) = o
  BY <1>10
<1> HIDE DEF o
<1>16. ToSet(o) = P
  <2>1. ToSet(o) \subseteq P
    BY <1>4, <1>14
  <2>2. CASE Cardinality(ToSet(o)) >= N
    <3>1. Cardinality(ToSet(o)) <= Cardinality(P) /\ (Cardinality(ToSet(o)) = Cardinality(P) => ToSet(o) = P)
      BY <1>2, <2>1, FS_Subset
    <3>2. Cardinality(ToSet(o)) \in Nat
      BY <1>12, <1>14
    <3> QED BY <1>1, <1>2, <2>2, <3>1, <3>2
  <2> QED BY <1>14, <2>1, <2>2
<1> QED BY <1>4, <1>14, <1>15, <1>16

(* A segment's lineage holds each of its takes once, after what it           *)
(* superseded, and never loops (lineage.ts, buildLineage and orderChain):    *)
(* for any number of takes, forks among them, however gateways and people    *)
(* record them and whatever their attempt numbers are.                       *)
THEOREM LineagesTotal == Spec => []LineageIsTotal
<1>1. LedgerInv => LineageIsTotal
  <2> SUFFICES ASSUME LedgerInv, NEW segment \in Segment,
                      NEW P, P = OfSegment(takes, segment), NEW o, o = OrderChain(takes, P)
               PROVE  /\ ~Loops(takes, P)
                      /\ ToSet(o) = P
                      /\ \A m, n \in DOMAIN o :
                           /\ o[m] = o[n] => m = n
                           /\ takes[o[n]].supersedes = takes[o[m]].id => m < n
                      /\ AwaitsAcceptance(takes, segment) <=> \A m \in DOMAIN o : ~IsAccepted(takes[o[m]])
    BY DEF LineageIsTotal
  <2>1. takes \in Seq(Takes) /\ P \in SUBSET DOMAIN takes /\ minted \in 0 .. MaxTakes
    BY DEF LedgerInv, Typed, OfSegment
  <2>2. Backwards(takes)
    <3> SUFFICES ASSUME NEW i \in DOMAIN takes, NEW j \in DOMAIN takes
                 PROVE  /\ takes[i].id = takes[j].id => i = j
                        /\ takes[j].id = takes[i].supersedes => j < i
      BY DEF Backwards
    <3>1. \A k \in DOMAIN takes : takes[k].id = takes[j].id => k = j
      BY DEF LedgerInv, IdInv
    <3>2. Follows(takes[i], i - 1)
      BY DEF LedgerInv, LinkInv
    <3>3. takes[j].id # NoTake
      <4>1. takes[j].id \in 1 .. minted
        BY DEF LedgerInv, IdInv
      <4>2. takes[j].id \in 1 .. MaxTakes
        BY <2>1, <4>1, LedgerAssumption
      <4> QED BY <4>2, LedgerAssumption
    <3>4. i \in Nat /\ j \in Nat
      BY <2>1
    <3>5. ASSUME takes[j].id = takes[i].supersedes PROVE j < i
      <4>1. PICK k \in DOMAIN takes : k <= i - 1 /\ takes[k].id = takes[i].supersedes
        BY <3>2, <3>3, <3>5 DEF Follows
      <4>2. k = j
        BY <3>1, <3>5, <4>1
      <4> QED BY <3>4, <4>1, <4>2
    <3> QED BY <3>1, <3>5
  <2>3. ~Loops(takes, P)
    <3>1. ASSUME NEW i \in P PROVE Chain(takes, P, i)[Len(takes)] = 0
      BY <2>1, <2>2, ChainIs
    <3> QED BY <3>1, Zenon DEF Loops
  <2>4. GoodOrder(takes, P, o) /\ ToSet(o) = P
    BY <2>1, <2>2, OrderChainIs
  <2>5. o \in Seq(P) /\ \A m \in DOMAIN o : o[m] \in P
    BY <2>4 DEF GoodOrder
  <2>6. ASSUME NEW m \in DOMAIN o, NEW n \in DOMAIN o
        PROVE  /\ o[m] = o[n] => m = n
               /\ takes[o[n]].supersedes = takes[o[m]].id => m < n
    <3>1. \A l, k \in DOMAIN o : o[l] = o[k] => l = k
      BY <2>4 DEF GoodOrder
    <3>2. ASSUME takes[o[n]].supersedes = takes[o[m]].id PROVE m < n
      <4>1. PICK l \in DOMAIN o : l < n /\ o[l] = o[m]
        BY <2>4, <2>5, <3>2 DEF GoodOrder
      <4>2. l = m
        BY <3>1, <4>1
      <4> QED BY <4>1, <4>2
    <3> QED BY <3>1, <3>2
  <2>7. AwaitsAcceptance(takes, segment) <=> \A m \in DOMAIN o : ~IsAccepted(takes[o[m]])
    <3>1. \A i : i \in P <=> \E m \in DOMAIN o : o[m] = i
      BY <2>4 DEF ToSet
    <3>2. AwaitsAcceptance(takes, segment) <=> \A i \in P : ~IsAccepted(takes[i])
      BY DEF AwaitsAcceptance, OfSegment
    <3> QED BY <3>1, <3>2
  <2> QED BY <2>3, <2>4, <2>6, <2>7
<1> QED BY <1>1, LedgerInductive, PTL
=============================================================================
