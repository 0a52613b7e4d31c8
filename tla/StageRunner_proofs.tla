------------------------- MODULE StageRunner_proofs -------------------------
(***************************************************************************)
(* Proofs about StageRunner, for any stages, policies, commands and deaths. *)
(* Types are proved for any number of sessions; that the cache follows the  *)
(* log, that no number is given twice and that no attempt starts unasked    *)
(* for one session at work at a time (OneSession): two may find a stage     *)
(* claimable and both begin it.                                             *)
(***************************************************************************)
EXTENDS StageRunner, NaturalsInduction, WellFoundedInduction, SequenceTheorems, TLAPS

Attempt == [call : Nat, try : Nat, ordinal : Nat, status : StageStatus]

StageState == [lastEventSequence : Nat,
               stages : [Stage -> [status : StageStatus \cup {Unrecorded}, attempts : Seq(Attempt)]]]

Event == [stage : Stage, call : Nat, try : Nat, ordinal : Nat, status : StageStatus,
          error : Errors, degraded : BOOLEAN, sequence : Nat]

(* An event that is no lifecycle event.                                     *)
Other == [stage : {NoStage}, sequence : Nat]

-----------------------------------------------------------------------------
(* Induction, in the form the provers can use.                              *)
LEMMA Least ==
  ASSUME NEW S \in SUBSET Nat, S # {}
  PROVE  \E n \in S : \A m \in S : n <= m
<1>1. IsWellFoundedOn(OpToRel(<, Nat), Nat)
  BY NatLessThanWellFounded
<1>2. \E x \in S : \A y \in S : <<y, x>> \notin OpToRel(<, Nat)
  BY <1>1, WFMin
<1>3. \A x, y \in Nat : <<y, x>> \in OpToRel(<, Nat) <=> y < x
  BY DEF OpToRel
<1>4. \E x \in S : \A y \in S : ~ (y < x)
  BY <1>2, <1>3, Zenon
<1> QED BY <1>4

LEMMA Induction ==
  ASSUME NEW S, 0 \in S, \A n \in Nat : n \in S => n + 1 \in S
  PROVE  Nat \subseteq S
<1> SUFFICES ASSUME Nat \ S # {} PROVE FALSE
  OBVIOUS
<1>1. PICK n \in Nat \ S : \A m \in Nat \ S : n <= m
  BY Least
<1>2. n # 0 /\ n - 1 \in Nat /\ n - 1 \notin Nat \ S
  BY <1>1
<1> QED BY <1>1, <1>2

(* f is what step makes of start, time after time, up to N times. *)
Iterates(f, N, start, step) ==
  f = [n \in 0 .. N |-> IF n = 0 THEN start ELSE step[n][f[n - 1]]]

LEMMA IterationExists ==
  ASSUME NEW N \in Nat, NEW T, NEW start \in T, NEW step \in [1 .. N -> [T -> T]]
  PROVE  \E f \in [0 .. N -> T] : Iterates(f, N, start, step)
<1> DEFINE S == {m \in Nat : m <= N => \E f \in [0 .. m -> T] : Iterates(f, m, start, step)}
<1>1. 0 \in S
  <2>1. [n \in 0 .. 0 |-> start] \in [0 .. 0 -> T]
    OBVIOUS
  <2>2. Iterates([n \in 0 .. 0 |-> start], 0, start, step)
    BY DEF Iterates
  <2> QED BY <2>1, <2>2
<1>2. ASSUME NEW m \in Nat, m \in S PROVE m + 1 \in S
  <2> SUFFICES ASSUME m + 1 <= N PROVE \E f \in [0 .. m + 1 -> T] : Iterates(f, m + 1, start, step)
    OBVIOUS
  <2>1. PICK f \in [0 .. m -> T] : Iterates(f, m, start, step)
    BY <1>2
  <2>2. f[m] \in T /\ step[m + 1][f[m]] \in T
    BY <2>1
  <2> DEFINE h == [n \in 0 .. m + 1 |-> IF n = m + 1 THEN step[m + 1][f[m]] ELSE f[n]]
  <2>3. h \in [0 .. m + 1 -> T]
    BY <2>2
  <2>4. ASSUME NEW n \in 0 .. m + 1
        PROVE  h[n] = IF n = 0 THEN start ELSE step[n][h[n - 1]]
    <3>1. CASE n = m + 1
      BY <3>1
    <3>2. CASE n # m + 1
      <4>1. n \in 0 .. m /\ h[n] = f[n] /\ (n # 0 => h[n - 1] = f[n - 1])
        BY <3>2
      <4> QED BY <2>1, <4>1 DEF Iterates
    <3> QED BY <3>1, <3>2
  <2>5. Iterates(h, m + 1, start, step)
    BY <2>4 DEF Iterates
  <2> QED BY <2>3, <2>5
<1>3. Nat \subseteq S
  <2> HIDE DEF S
  <2> QED BY <1>1, <1>2, Induction
<1> QED BY <1>3

LEMMA IteratesAt ==
  ASSUME NEW N \in Nat, NEW start, NEW step, NEW f, Iterates(f, N, start, step)
  PROVE  f[0] = start /\ \A n \in 1 .. N : f[n] = step[n][f[n - 1]]
BY DEF Iterates


-----------------------------------------------------------------------------
(* The operators of FiniteSetsExt, where the sets are known.                *)
LEMMA MinIs ==
  ASSUME NEW S \in SUBSET Nat, S # {}
  PROVE  Min(S) \in S /\ \A n \in S : Min(S) <= n
<1>1. \E x \in S : \A y \in S : x =< y
  BY Least
<1> QED BY <1>1 DEF Min

LEMMA MaxIs ==
  ASSUME NEW S \in SUBSET Int, NEW m \in S, \A n \in S : n <= m
  PROVE  Max(S) = m
<1>1. Max(S) \in S /\ \A y \in S : Max(S) >= y
  BY DEF Max
<1>2. Max(S) \in Int /\ m \in Int /\ Max(S) >= m /\ Max(S) <= m
  BY <1>1
<1> QED BY <1>2

LEMMA MaxOfTwo ==
  ASSUME NEW a \in Nat, NEW b \in Nat
  PROVE  Max({a, b}) = IF a <= b THEN b ELSE a
<1>1. CASE a <= b
  BY <1>1, MaxIs
<1>2. CASE ~ (a <= b)
  BY <1>2, MaxIs
<1> QED BY <1>1, <1>2

(* One number of a set of naturals that a number bounds is the greatest.    *)
LEMMA MaxOfBounded ==
  ASSUME NEW S \in SUBSET Nat, S # {}, NEW b \in Nat, \A n \in S : n <= b
  PROVE  Max(S) \in S /\ \A n \in S : n <= Max(S)
<1> DEFINE U == {u \in Nat : \A n \in S : n <= u}
<1>1. PICK u \in U : \A v \in U : u <= v
  BY Least
<1>2. u \in S
  <2> SUFFICES ASSUME u \notin S PROVE FALSE
    OBVIOUS
  <2>1. \A n \in S : n <= u - 1
    BY <1>1
  <2>2. u # 0
    <3>1. PICK n \in S : TRUE
      OBVIOUS
    <3> QED BY <2>1, <3>1
  <2>3. u - 1 \in U
    BY <1>1, <2>1, <2>2
  <2> QED BY <1>1, <2>3
<1>3. Max(S) = u
  BY <1>1, <1>2, MaxIs
<1> QED BY <1>1, <1>2, <1>3

(* The numbers a sequence holds are bounded.                                *)
LEMMA Bounded ==
  ASSUME NEW N \in Nat, NEW f \in [1 .. N -> Nat]
  PROVE  \E b \in Nat : \A i \in 1 .. N : f[i] <= b
<1> DEFINE S == {m \in Nat : m <= N => \E b \in Nat : \A i \in 1 .. m : f[i] <= b}
<1>1. 0 \in S
  OBVIOUS
<1>2. ASSUME NEW m \in Nat, m \in S PROVE m + 1 \in S
  <2> SUFFICES ASSUME m + 1 <= N PROVE \E b \in Nat : \A i \in 1 .. m + 1 : f[i] <= b
    OBVIOUS
  <2>1. PICK b \in Nat : \A i \in 1 .. m : f[i] <= b
    BY <1>2
  <2>2. f[m + 1] \in Nat
    OBVIOUS
  <2>3. b + f[m + 1] \in Nat /\ \A i \in 1 .. m + 1 : f[i] <= b + f[m + 1]
    BY <2>1, <2>2
  <2> QED BY <2>3
<1>3. Nat \subseteq S
  <2> HIDE DEF S
  <2> QED BY <1>1, <1>2, Induction
<1>4. N \in S
  BY <1>3
<1> QED BY <1>4

-----------------------------------------------------------------------------
(* What one event does to the stage state.                                  *)
Holds(new, old, e) ==
  /\ \A a \in DOMAIN new : new[a] = Snapshot(e) \/ \E b \in DOMAIN old : new[a] = old[b]
  /\ \E a \in DOMAIN new : new[a] = Snapshot(e)
  /\ \A b \in DOMAIN old : SameAttempt(old[b], e) \/ \E a \in DOMAIN new : new[a] = old[b]

Takes(after, before, e) ==
  \E new \in Seq(Attempt) :
    /\ after = [lastEventSequence |->
                  IF before.lastEventSequence <= e.sequence THEN e.sequence ELSE before.lastEventSequence,
                stages |-> [before.stages EXCEPT ![e.stage] = [status |-> e.status, attempts |-> new]]]
    /\ Holds(new, before.stages[e.stage].attempts, e)

LEMMA Applied ==
  ASSUME NEW state \in StageState, NEW e \in Event
  PROVE  Takes(ApplyLifecycleEvent(state, e), state, e)
<1> DEFINE old == state.stages[e.stage].attempts
           seen == {i \in DOMAIN old : SameAttempt(old[i], e)}
           new == IF seen = {} THEN Append(old, Snapshot(e))
                  ELSE [i \in DOMAIN old |-> IF i = Min(seen) THEN Snapshot(e) ELSE old[i]]
<1>1. old \in Seq(Attempt) /\ Snapshot(e) \in Attempt /\ IsLifecycle(e) /\ DOMAIN old = 1 .. Len(old) /\ Len(old) \in Nat
  <2>1. state.stages \in [Stage -> [status : StageStatus \cup {Unrecorded}, attempts : Seq(Attempt)]] /\ e.stage \in Stage
    BY DEF StageState, Event
  <2>2. old \in Seq(Attempt)
    BY <2>1
  <2>3. Snapshot(e) \in Attempt
    BY DEF Snapshot, Event, Attempt
  <2> HIDE DEF old
  <2> QED BY <2>1, <2>2, <2>3 DEF IsLifecycle
<1>2. state.lastEventSequence \in Nat /\ e.sequence \in Nat
  BY DEF StageState, Event
<1> HIDE DEF old
<1>3. ASSUME seen = {} PROVE new \in Seq(Attempt) /\ Holds(new, old, e)
  <2>1. new = Append(old, Snapshot(e))
    BY <1>3
  <2> HIDE DEF new
  <2>2. new \in Seq(Attempt) /\ DOMAIN new = 1 .. Len(old) + 1 /\ new[Len(old) + 1] = Snapshot(e)
    BY <1>1, <2>1
  <2>3. \A b \in DOMAIN old : b \in DOMAIN new /\ new[b] = old[b]
    BY <1>1, <2>1
  <2>4. \A a \in DOMAIN new : a = Len(old) + 1 \/ a \in DOMAIN old
    BY <1>1, <2>2
  <2> QED BY <1>1, <2>2, <2>3, <2>4 DEF Holds
<1>4. ASSUME seen # {} PROVE new \in Seq(Attempt) /\ Holds(new, old, e)
  <2>1. Min(seen) \in seen
    <3>1. seen \in SUBSET Nat
      BY <1>1
    <3> HIDE DEF seen
    <3> QED BY <1>4, <3>1, MinIs
  <2>2. new = [i \in 1 .. Len(old) |-> IF i = Min(seen) THEN Snapshot(e) ELSE old[i]]
    BY <1>1, <1>4
  <2>3. \A i \in 1 .. Len(old) : old[i] \in Attempt
    BY <1>1
  <2> HIDE DEF new
  <2>4. new \in [1 .. Len(old) -> Attempt]
    BY <1>1, <2>2, <2>3
  <2>5. new \in Seq(Attempt)
    BY <1>1, <2>4
  <2>6. \A a \in DOMAIN new : new[a] = Snapshot(e) \/ new[a] = old[a]
    BY <1>1, <2>2
  <2>7. DOMAIN new = DOMAIN old /\ new[Min(seen)] = Snapshot(e) /\ \A b \in DOMAIN old : b # Min(seen) => new[b] = old[b]
    BY <1>1, <2>1, <2>2
  <2>8. SameAttempt(old[Min(seen)], e)
    BY <2>1
  <2> QED BY <2>1, <2>5, <2>6, <2>7, <2>8 DEF Holds
<1>5. new \in Seq(Attempt) /\ Holds(new, old, e)
  <2>1. CASE seen = {}
    BY <1>3, <2>1
  <2>2. CASE seen # {}
    BY <1>4, <2>2
  <2> QED BY <2>1, <2>2
<1>6. ApplyLifecycleEvent(state, e) =
        [lastEventSequence |-> Max({state.lastEventSequence, e.sequence}),
         stages |-> [state.stages EXCEPT ![e.stage] = [status |-> e.status, attempts |-> new]]]
  BY <1>1 DEF ApplyLifecycleEvent, old
<1> HIDE DEF new
<1> QED BY <1>2, <1>5, <1>6, MaxOfTwo DEF Takes, old

LEMMA Ignored ==
  ASSUME NEW state, NEW e, ~IsLifecycle(e) PROVE ApplyLifecycleEvent(state, e) = state
BY DEF ApplyLifecycleEvent

LEMMA OtherIs ==
  ASSUME NEW e \in Other PROVE ~IsLifecycle(e)
BY StageRunnerAssumption DEF Other, IsLifecycle

LEMMA EventIs ==
  ASSUME NEW e \in Event PROVE IsLifecycle(e)
BY DEF Event, IsLifecycle

LEMMA ApplyTyped ==
  ASSUME NEW state \in StageState, NEW e \in Event \cup Other
  PROVE  ApplyLifecycleEvent(state, e) \in StageState
<1>1. CASE e \in Other
  BY <1>1, OtherIs, Ignored
<1>2. CASE e \in Event
  <2>1. PICK new \in Seq(Attempt) :
          ApplyLifecycleEvent(state, e) =
            [lastEventSequence |->
               IF state.lastEventSequence <= e.sequence THEN e.sequence ELSE state.lastEventSequence,
             stages |-> [state.stages EXCEPT ![e.stage] = [status |-> e.status, attempts |-> new]]]
    BY <1>2, Applied DEF Takes
  <2>2. [status |-> e.status, attempts |-> new] \in [status : StageStatus \cup {Unrecorded}, attempts : Seq(Attempt)]
    BY <1>2 DEF Event
  <2>3. e.sequence \in Nat /\ state.lastEventSequence \in Nat
    BY <1>2 DEF Event, StageState
  <2>4. state.stages \in [Stage -> [status : StageStatus \cup {Unrecorded}, attempts : Seq(Attempt)]]
    BY DEF StageState
  <2> DEFINE entry == [status |-> e.status, attempts |-> new]
  <2>5. [state.stages EXCEPT ![e.stage] = entry] \in [Stage -> [status : StageStatus \cup {Unrecorded}, attempts : Seq(Attempt)]]
    <3> HIDE DEF entry
    <3> QED BY <2>2, <2>4 DEF entry
  <2> QED BY <2>1, <2>3, <2>5 DEF StageState
<1> QED BY <1>1, <1>2

LEMMA EmptyTyped == EmptyStageState \in StageState
BY DEF EmptyStageState, StageState

-----------------------------------------------------------------------------
(* Replay, and the states the log leads through.                            *)
Line == Event \cup Other

Folded(f, events, wanted, state) ==
  f = [i \in 0 .. Len(events) |->
         IF i = 0 THEN state
         ELSE IF i \in wanted THEN ApplyLifecycleEvent(f[i - 1], events[i])
         ELSE f[i - 1]]

LEMMA FoldExists ==
  ASSUME NEW events \in Seq(Line), NEW wanted, NEW state \in StageState
  PROVE  \E f \in [0 .. Len(events) -> StageState] : Folded(f, events, wanted, state)
<1> DEFINE N == Len(events)
           step == [i \in 1 .. N |->
                      [x \in StageState |-> IF i \in wanted THEN ApplyLifecycleEvent(x, events[i]) ELSE x]]
<1>1. N \in Nat /\ \A i \in 1 .. N : events[i] \in Line
  OBVIOUS
<1>2. step \in [1 .. N -> [StageState -> StageState]]
  <2>1. ASSUME NEW i \in 1 .. N, NEW x \in StageState
        PROVE  (IF i \in wanted THEN ApplyLifecycleEvent(x, events[i]) ELSE x) \in StageState
    BY <1>1, ApplyTyped DEF Line
  <2> QED BY <2>1
<1>3. PICK f \in [0 .. N -> StageState] : Iterates(f, N, state, step)
  <2> HIDE DEF N, step
  <2> QED BY <1>1, <1>2, IterationExists
<1>4. f[0] = state /\ \A n \in 1 .. N : f[n] = step[n][f[n - 1]]
  <2> HIDE DEF N, step
  <2> QED BY <1>1, <1>3, IteratesAt
<1>5. ASSUME NEW n \in 0 .. N
      PROVE  f[n] = IF n = 0 THEN state
                    ELSE IF n \in wanted THEN ApplyLifecycleEvent(f[n - 1], events[n]) ELSE f[n - 1]
  <2>1. CASE n = 0
    BY <1>4, <2>1
  <2>2. CASE n # 0
    <3>1. n \in 1 .. N /\ n - 1 \in 0 .. N
      BY <1>1, <2>2
    <3>2. f[n - 1] \in StageState
      BY <3>1
    <3> QED BY <1>4, <2>2, <3>1, <3>2
  <2> QED BY <2>1, <2>2
<1>6. f = [n \in 0 .. N |-> f[n]]
  OBVIOUS
<1>7. Folded(f, events, wanted, state)
  BY <1>5, <1>6 DEF Folded
<1> QED BY <1>7

LEMMA FoldedAt ==
  ASSUME NEW events \in Seq(Line), NEW wanted, NEW state, NEW f, Folded(f, events, wanted, state)
  PROVE  /\ f[0] = state
         /\ \A i \in 1 .. Len(events) :
              f[i] = IF i \in wanted THEN ApplyLifecycleEvent(f[i - 1], events[i]) ELSE f[i - 1]
BY DEF Folded

LEMMA FoldUnique ==
  ASSUME NEW events \in Seq(Line), NEW wanted, NEW state, NEW f, NEW g,
         Folded(f, events, wanted, state), Folded(g, events, wanted, state)
  PROVE  f[Len(events)] = g[Len(events)]
<1> DEFINE S == {m \in Nat : m <= Len(events) => f[m] = g[m]}
<1>1. 0 \in S
  BY FoldedAt
<1>2. ASSUME NEW m \in Nat, m \in S PROVE m + 1 \in S
  <2> SUFFICES ASSUME m + 1 <= Len(events) PROVE f[m + 1] = g[m + 1]
    OBVIOUS
  <2>1. f[m] = g[m] /\ m + 1 \in 1 .. Len(events) /\ (m + 1) - 1 = m
    BY <1>2
  <2>2. f[m + 1] = IF m + 1 \in wanted THEN ApplyLifecycleEvent(f[m], events[m + 1]) ELSE f[m]
    BY <2>1, FoldedAt
  <2>3. g[m + 1] = IF m + 1 \in wanted THEN ApplyLifecycleEvent(g[m], events[m + 1]) ELSE g[m]
    BY <2>1, FoldedAt
  <2> QED BY <2>1, <2>2, <2>3
<1>3. Nat \subseteq S
  <2> HIDE DEF S
  <2> QED BY <1>1, <1>2, Induction
<1>4. Len(events) \in S
  BY <1>3
<1> QED BY <1>4

LEMMA ReplayIs ==
  ASSUME NEW events \in Seq(Line), NEW wanted, NEW state \in StageState,
         NEW f, Folded(f, events, wanted, state)
  PROVE  Replay(events, wanted, state) = f[Len(events)]
<1> DEFINE Rec(h) == Folded(h, events, wanted, state)
           g == CHOOSE h : Rec(h)
<1>1. Replay(events, wanted, state) = g[Len(events)]
  BY DEF Replay, Folded
<1>2. Rec(g)
  <2>1. \E h : Rec(h)
    BY FoldExists
  <2> HIDE DEF Rec
  <2> QED BY <2>1
<1> HIDE DEF g
<1> QED BY <1>1, <1>2, FoldUnique

-----------------------------------------------------------------------------
(* After(events)[n] is the state the first n events lead to.                *)
After(events) ==
  CHOOSE f : f \in [0 .. Len(events) -> StageState] /\ Folded(f, events, DOMAIN events, EmptyStageState)

LEMMA AfterFolds ==
  ASSUME NEW events \in Seq(Line)
  PROVE  After(events) \in [0 .. Len(events) -> StageState] /\ Folded(After(events), events, DOMAIN events, EmptyStageState)
<1>1. \E f : f \in [0 .. Len(events) -> StageState] /\ Folded(f, events, DOMAIN events, EmptyStageState)
  BY FoldExists, EmptyTyped
<1> QED BY <1>1 DEF After

LEMMA AfterIs ==
  ASSUME NEW events \in Seq(Line)
  PROVE  /\ After(events)[0] = EmptyStageState
         /\ \A n \in 0 .. Len(events) : After(events)[n] \in StageState
         /\ \A n \in 1 .. Len(events) : After(events)[n] = ApplyLifecycleEvent(After(events)[n - 1], events[n])
BY AfterFolds, FoldedAt

(* Logs that begin alike lead through the same states.                      *)
LEMMA AfterSame ==
  ASSUME NEW events \in Seq(Line), NEW others \in Seq(Line), NEW N \in Nat,
         N <= Len(events), N <= Len(others), \A i \in 1 .. N : events[i] = others[i]
  PROVE  \A n \in 0 .. N : After(events)[n] = After(others)[n]
<1> DEFINE S == {m \in Nat : m <= N => After(events)[m] = After(others)[m]}
<1>1. 0 \in S
  BY AfterIs
<1>2. ASSUME NEW m \in Nat, m \in S PROVE m + 1 \in S
  <2> SUFFICES ASSUME m + 1 <= N PROVE After(events)[m + 1] = After(others)[m + 1]
    OBVIOUS
  <2>1. /\ After(events)[m] = After(others)[m] /\ events[m + 1] = others[m + 1] /\ (m + 1) - 1 = m
        /\ m + 1 \in 1 .. Len(events) /\ m + 1 \in 1 .. Len(others)
    BY <1>2
  <2> QED BY <2>1, AfterIs
<1>3. Nat \subseteq S
  <2> HIDE DEF S
  <2> QED BY <1>1, <1>2, Induction
<1> QED BY <1>3

(* What is not wanted is no lifecycle event: replay makes up for what the   *)
(* state it starts from has not seen.                                       *)
LEMMA ReplayFrom ==
  ASSUME NEW events \in Seq(Line), NEW k \in 0 .. Len(events), NEW wanted,
         \A i \in 1 .. k : i \notin wanted,
         \A i \in k + 1 .. Len(events) : i \in wanted \/ ~IsLifecycle(events[i])
  PROVE  Replay(events, wanted, After(events)[k]) = After(events)[Len(events)]
<1> DEFINE N == Len(events)
           f == [i \in 0 .. N |-> IF i <= k THEN After(events)[k] ELSE After(events)[i]]
<1>1. ASSUME NEW i \in 0 .. N
      PROVE  f[i] = IF i = 0 THEN After(events)[k]
                    ELSE IF i \in wanted THEN ApplyLifecycleEvent(f[i - 1], events[i]) ELSE f[i - 1]
  <2>1. CASE i <= k
    BY <2>1
  <2>2. CASE ~ (i <= k)
    <3>1. i \in k + 1 .. Len(events) /\ i \in 1 .. Len(events) /\ i # 0 /\ i - 1 \in 0 .. N
      BY <2>2
    <3>2. f[i] = After(events)[i] /\ f[i - 1] = After(events)[i - 1]
      BY <2>2, <3>1
    <3>3. After(events)[i] = ApplyLifecycleEvent(After(events)[i - 1], events[i])
      BY <3>1, AfterIs
    <3>4. i \notin wanted => ApplyLifecycleEvent(After(events)[i - 1], events[i]) = After(events)[i - 1]
      BY <3>1, Ignored
    <3> HIDE DEF f
    <3> QED BY <3>1, <3>2, <3>3, <3>4
  <2> QED BY <2>1, <2>2
<1>2. Folded(f, events, wanted, After(events)[k])
  <2>1. f = [i \in 0 .. N |-> f[i]]
    OBVIOUS
  <2> HIDE DEF f
  <2> QED BY <1>1, <2>1 DEF Folded
<1>3. After(events)[k] \in StageState /\ f[Len(events)] = After(events)[Len(events)]
  BY AfterIs
<1> HIDE DEF f
<1> QED BY <1>2, <1>3, ReplayIs

LEMMA ReplayTo ==
  ASSUME NEW events \in Seq(Line), NEW k \in 0 .. Len(events), NEW wanted,
         \A i \in 1 .. k : i \in wanted \/ ~IsLifecycle(events[i]),
         \A i \in k + 1 .. Len(events) : i \notin wanted
  PROVE  Replay(events, wanted, EmptyStageState) = After(events)[k]
<1> DEFINE N == Len(events)
           f == [i \in 0 .. N |-> IF i <= k THEN After(events)[i] ELSE After(events)[k]]
<1>1. ASSUME NEW i \in 0 .. N
      PROVE  f[i] = IF i = 0 THEN EmptyStageState
                    ELSE IF i \in wanted THEN ApplyLifecycleEvent(f[i - 1], events[i]) ELSE f[i - 1]
  <2>0. CASE i = 0
    BY <2>0, AfterIs
  <2>1. CASE i # 0 /\ i <= k
    <3>1. i \in 1 .. k /\ i \in 1 .. Len(events) /\ i - 1 \in 0 .. N
      BY <2>1
    <3>2. f[i] = After(events)[i] /\ f[i - 1] = After(events)[i - 1]
      BY <2>1, <3>1
    <3>3. After(events)[i] = ApplyLifecycleEvent(After(events)[i - 1], events[i])
      BY <3>1, AfterIs
    <3>4. i \notin wanted => ApplyLifecycleEvent(After(events)[i - 1], events[i]) = After(events)[i - 1]
      BY <3>1, Ignored
    <3> HIDE DEF f
    <3> QED BY <2>1, <3>2, <3>3, <3>4
  <2>2. CASE ~ (i <= k)
    <3>1. i \in k + 1 .. Len(events) /\ i # 0 /\ i - 1 \in 0 .. N /\ (i - 1 <= k => i - 1 = k)
      BY <2>2
    <3> QED BY <2>2, <3>1
  <2> QED BY <2>0, <2>1, <2>2
<1>2. Folded(f, events, wanted, EmptyStageState)
  <2>1. f = [i \in 0 .. N |-> f[i]]
    OBVIOUS
  <2> HIDE DEF f
  <2> QED BY <1>1, <2>1 DEF Folded
<1>3. f[Len(events)] = After(events)[k]
  OBVIOUS
<1> HIDE DEF f
<1> QED BY <1>2, <1>3, EmptyTyped, ReplayIs

-----------------------------------------------------------------------------
(* The log: the events there were before, then those of the stages, each    *)
(* with its place as its sequence.                                          *)
Logged(events) ==
  /\ events \in Seq(Line)
  /\ PriorEvents <= Len(events)
  /\ \A i \in 1 .. PriorEvents : events[i] \in Other
  /\ \A i \in PriorEvents + 1 .. Len(events) : events[i] \in Event
  /\ \A i \in 1 .. Len(events) : events[i].sequence = i - 1

LEMMA Watermark ==
  ASSUME NEW events, Logged(events)
  PROVE  \A n \in 0 .. Len(events) :
           /\ n <= PriorEvents => After(events)[n] = EmptyStageState
           /\ After(events)[n].lastEventSequence = IF n > PriorEvents THEN n - 1 ELSE 0
<1> DEFINE A == After(events)
           S == {m \in Nat : m <= Len(events) =>
                   /\ m <= PriorEvents => A[m] = EmptyStageState
                   /\ A[m].lastEventSequence = IF m > PriorEvents THEN m - 1 ELSE 0}
<1>0. PriorEvents \in Nat /\ events \in Seq(Line) /\ Len(events) \in Nat
  BY StageRunnerAssumption DEF Logged
<1>1. 0 \in S
  BY <1>0, AfterIs DEF EmptyStageState
<1>2. ASSUME NEW m \in Nat, m \in S PROVE m + 1 \in S
  <2> SUFFICES ASSUME m + 1 <= Len(events)
               PROVE  /\ m + 1 <= PriorEvents => A[m + 1] = EmptyStageState
                      /\ A[m + 1].lastEventSequence = IF m + 1 > PriorEvents THEN (m + 1) - 1 ELSE 0
    OBVIOUS
  <2>1. /\ m + 1 \in 1 .. Len(events) /\ (m + 1) - 1 = m /\ m \in 0 .. Len(events)
        /\ m <= PriorEvents => A[m] = EmptyStageState
        /\ A[m].lastEventSequence = IF m > PriorEvents THEN m - 1 ELSE 0
    BY <1>0, <1>2
  <2>2. A[m + 1] = ApplyLifecycleEvent(A[m], events[m + 1]) /\ A[m] \in StageState
    BY <1>0, <2>1, AfterIs
  <2>3. CASE m + 1 <= PriorEvents
    <3>1. events[m + 1] \in Other
      BY <1>0, <2>1, <2>3 DEF Logged
    <3>2. A[m + 1] = A[m]
      BY <2>2, <3>1, OtherIs, Ignored
    <3> HIDE DEF A
    <3> QED BY <1>0, <2>1, <2>3, <3>2
  <2>4. CASE m + 1 > PriorEvents
    <3>1. events[m + 1] \in Event /\ events[m + 1].sequence = m
      BY <1>0, <2>1, <2>4 DEF Logged
    <3>2. Takes(A[m + 1], A[m], events[m + 1])
      BY <2>2, <3>1, Applied
    <3> HIDE DEF A
    <3>3. A[m + 1].lastEventSequence = IF A[m].lastEventSequence <= m THEN m ELSE A[m].lastEventSequence
      BY <3>1, <3>2 DEF Takes
    <3> QED BY <1>0, <2>1, <2>4, <3>3
  <2> QED BY <1>0, <2>3, <2>4
<1>3. Nat \subseteq S
  <2> HIDE DEF S
  <2> QED BY <1>1, <1>2, Induction
<1> QED BY <1>3

-----------------------------------------------------------------------------
LEMMA LoggedAt ==
  ASSUME NEW events, Logged(events)
  PROVE  /\ events \in Seq(Line) /\ PriorEvents \in Nat /\ Len(events) \in Nat /\ DOMAIN events = 1 .. Len(events)
         /\ \A i \in 1 .. Len(events) :
              /\ events[i] \in Line /\ events[i].sequence = i - 1
              /\ i <= PriorEvents => events[i] \in Other /\ ~IsLifecycle(events[i]) /\ events[i].stage = NoStage
              /\ i > PriorEvents => events[i] \in Event /\ IsLifecycle(events[i])
<1>1. events \in Seq(Line) /\ PriorEvents \in Nat /\ Len(events) \in Nat /\ DOMAIN events = 1 .. Len(events)
  BY StageRunnerAssumption DEF Logged
<1>2. ASSUME NEW i \in 1 .. Len(events)
      PROVE  /\ events[i] \in Line /\ events[i].sequence = i - 1
             /\ i <= PriorEvents => events[i] \in Other /\ ~IsLifecycle(events[i]) /\ events[i].stage = NoStage
             /\ i > PriorEvents => events[i] \in Event /\ IsLifecycle(events[i])
  <2>1. i <= PriorEvents => events[i] \in Other
    BY <1>1 DEF Logged
  <2>2. i > PriorEvents => events[i] \in Event
    BY <1>1 DEF Logged
  <2>3. events[i] \in Line /\ events[i].sequence = i - 1
    BY <1>1 DEF Logged
  <2>4. events[i] \in Other => events[i].stage = NoStage
    BY DEF Other
  <2> QED BY <2>1, <2>2, <2>3, <2>4, OtherIs, EventIs
<1> QED BY <1>1, <1>2

LEMMA NextSequence ==
  ASSUME NEW events, Logged(events)
  PROVE  NextSequenceOf(events) = Len(events)
<1> DEFINE S == {-1} \cup {e.sequence : e \in Range(events)}
<1>1. S \in SUBSET Int /\ Len(events) - 1 \in S /\ \A n \in S : n <= Len(events) - 1
  <2>1. \A i \in 1 .. Len(events) : events[i] \in Range(events)
    BY LoggedAt DEF Range
  <2>2. \A e \in Range(events) : \E i \in 1 .. Len(events) : e = events[i] /\ e.sequence = i - 1
    BY LoggedAt DEF Range
  <2>3. CASE Len(events) = 0
    <3>1. S = {-1}
      BY <2>2, <2>3
    <3> HIDE DEF S
    <3> QED BY <2>3, <3>1
  <2>4. CASE Len(events) # 0
    <3>1. Len(events) \in 1 .. Len(events) /\ Len(events) \in Nat
      BY <2>4, LoggedAt
    <3>2. events[Len(events)].sequence = Len(events) - 1
      BY <3>1, LoggedAt
    <3>3. Len(events) - 1 \in S
      BY <2>1, <3>1, <3>2
    <3>4. \A n \in S : n = -1 \/ \E i \in 1 .. Len(events) : n = i - 1
      BY <2>2
    <3> HIDE DEF S
    <3> QED BY <3>1, <3>3, <3>4
  <2> QED BY <2>3, <2>4
<1>2. Max(S) = Len(events) - 1
  <2> HIDE DEF S
  <2> QED BY <1>1, MaxIs
<1> QED BY <1>2, LoggedAt DEF NextSequenceOf

(* A cache that holds a prefix of the log is brought up to date by replay,  *)
(* and says by its watermark which prefix it holds.                         *)
LEMMA PendingIs ==
  ASSUME NEW events, Logged(events), PriorEvents > 0, NEW k \in PriorEvents .. Len(events)
  PROVE  Pending(events, After(events)[k]) = k + 1 .. Len(events)
<1>1. PriorEvents \in Nat /\ Len(events) \in Nat /\ k \in 0 .. Len(events)
  BY LoggedAt
<1>2. After(events)[k].lastEventSequence = IF k > PriorEvents THEN k - 1 ELSE 0
  BY <1>1, Watermark
<1>3. ASSUME NEW i \in 1 .. Len(events)
      PROVE  (IsLifecycle(events[i]) /\ events[i].sequence > After(events)[k].lastEventSequence) <=> i \in k + 1 .. Len(events)
  <2>1. events[i].sequence = i - 1 /\ (i <= PriorEvents => ~IsLifecycle(events[i])) /\ (i > PriorEvents => IsLifecycle(events[i]))
    BY LoggedAt
  <2> QED BY <1>1, <1>2, <2>1
<1>4. DOMAIN events = 1 .. Len(events)
  BY LoggedAt
<1>5. \A i \in k + 1 .. Len(events) : i \in 1 .. Len(events)
  BY <1>1
<1> QED BY <1>3, <1>4, <1>5 DEF Pending

LEMMA Reconciled ==
  ASSUME NEW events, Logged(events), PriorEvents > 0, NEW k \in PriorEvents .. Len(events)
  PROVE  /\ ReconcileStageState(events, After(events)[k]) = After(events)[Len(events)]
         /\ Pending(events, After(events)[k]) = {} => k = Len(events)
<1>1. PriorEvents \in Nat /\ Len(events) \in Nat /\ k \in 0 .. Len(events) /\ events \in Seq(Line)
  BY LoggedAt
<1>2. Pending(events, After(events)[k]) = k + 1 .. Len(events)
  BY PendingIs
<1>3. Replay(events, k + 1 .. Len(events), After(events)[k]) = After(events)[Len(events)]
  <2>1. (\A i \in 1 .. k : i \notin k + 1 .. Len(events)) /\ \A i \in k + 1 .. Len(events) : i \in k + 1 .. Len(events)
    BY <1>1
  <2> QED BY <1>1, <2>1, ReplayFrom
<1>4. k + 1 .. Len(events) = {} => k = Len(events)
  <2> SUFFICES ASSUME k # Len(events) PROVE k + 1 \in k + 1 .. Len(events)
    BY <1>1
  <2> QED BY <1>1
<1> QED BY <1>2, <1>3, <1>4 DEF ReconcileStageState

LEMMA PrefixHeld ==
  ASSUME NEW events, Logged(events), PriorEvents > 0, NEW k \in PriorEvents .. Len(events)
  PROVE  After(events)[k] =
           Replay(events, {i \in DOMAIN events : events[i].sequence <= After(events)[k].lastEventSequence},
                  EmptyStageState)
<1> DEFINE wanted == {i \in DOMAIN events : events[i].sequence <= After(events)[k].lastEventSequence}
<1>1. PriorEvents \in Nat /\ Len(events) \in Nat /\ k \in 0 .. Len(events) /\ events \in Seq(Line)
  BY LoggedAt
<1>2. After(events)[k].lastEventSequence = IF k > PriorEvents THEN k - 1 ELSE 0
  BY <1>1, Watermark
<1>3. ASSUME NEW i \in 1 .. k PROVE i \in wanted \/ ~IsLifecycle(events[i])
  <2>1. i \in 1 .. Len(events)
    BY <1>1
  <2>2. events[i].sequence = i - 1 /\ (i <= PriorEvents => ~IsLifecycle(events[i])) /\ i \in DOMAIN events
    BY <2>1, LoggedAt
  <2> QED BY <1>1, <1>2, <2>2
<1>4. ASSUME NEW i \in k + 1 .. Len(events) PROVE i \notin wanted
  <2>1. i \in 1 .. Len(events)
    BY <1>1
  <2>2. events[i].sequence = i - 1
    BY <2>1, LoggedAt
  <2> QED BY <1>1, <1>2, <2>2
<1> HIDE DEF wanted
<1>5. Replay(events, wanted, EmptyStageState) = After(events)[k]
  BY <1>1, <1>3, <1>4, ReplayTo
<1> QED BY <1>5 DEF wanted

-----------------------------------------------------------------------------
(* What a state says of a stage.                                            *)

(* The i-th of the first n events is the last of stage s.                   *)
LastOf(events, n, i, s) == events[i].stage = s /\ \A k \in i + 1 .. n : events[k].stage # s

LEMMA OneEvent ==
  ASSUME NEW events, Logged(events), NEW n \in 1 .. Len(events)
  PROVE  LET A == After(events) IN
         /\ A[n - 1] \in StageState /\ A[n] \in StageState
         /\ n <= PriorEvents => A[n] = A[n - 1]
         /\ n > PriorEvents => events[n] \in Event /\ Takes(A[n], A[n - 1], events[n])
<1>1. events[n] \in Line /\ After(events)[n] = ApplyLifecycleEvent(After(events)[n - 1], events[n])
  BY LoggedAt, AfterIs
<1>2. After(events)[n] \in StageState /\ After(events)[n - 1] \in StageState
  <2>1. n \in 0 .. Len(events) /\ n - 1 \in 0 .. Len(events)
    BY LoggedAt
  <2> QED BY <2>1, AfterIs, LoggedAt
<1> QED BY <1>1, <1>2, LoggedAt, Ignored, Applied

(* What an event does to the entries of the stages.                         *)
LEMMA TakesAt ==
  ASSUME NEW after, NEW before \in StageState, NEW e \in Event, Takes(after, before, e)
  PROVE  /\ after.stages[e.stage].status = e.status
         /\ Holds(after.stages[e.stage].attempts, before.stages[e.stage].attempts, e)
         /\ \A s \in Stage \ {e.stage} : after.stages[s] = before.stages[s]
<1>1. PICK new \in Seq(Attempt) :
        /\ after = [lastEventSequence |->
                  IF before.lastEventSequence <= e.sequence THEN e.sequence ELSE before.lastEventSequence,
                stages |-> [before.stages EXCEPT ![e.stage] = [status |-> e.status, attempts |-> new]]]
        /\ Holds(new, before.stages[e.stage].attempts, e)
  BY DEF Takes
<1>2. e.stage \in Stage /\ DOMAIN before.stages = Stage
  BY DEF Event, StageState
<1> DEFINE entry == [status |-> e.status, attempts |-> new]
<1>3. after.stages = [before.stages EXCEPT ![e.stage] = entry]
  BY <1>1
<1>4. entry.status = e.status /\ entry.attempts = new
  OBVIOUS
<1> HIDE DEF entry
<1>5. after.stages[e.stage] = entry /\ \A s \in Stage \ {e.stage} : after.stages[s] = before.stages[s]
  BY <1>2, <1>3
<1> QED BY <1>1, <1>4, <1>5

LEMMA StatusAt ==
  ASSUME NEW events, Logged(events), NEW s \in Stage
  PROVE  \A n \in 0 .. Len(events) : \A i \in 1 .. n :
           LastOf(events, n, i, s) => After(events)[n].stages[s].status = events[i].status
<1> DEFINE A == After(events)
           S == {m \in Nat : m <= Len(events) =>
                   \A i \in 1 .. m : LastOf(events, m, i, s) => A[m].stages[s].status = events[i].status}
<1>1. 0 \in S
  OBVIOUS
<1>2. ASSUME NEW m \in Nat, m \in S PROVE m + 1 \in S
  <2> SUFFICES ASSUME m + 1 <= Len(events), NEW i \in 1 .. m + 1, LastOf(events, m + 1, i, s)
               PROVE  A[m + 1].stages[s].status = events[i].status
    OBVIOUS
  <2>1. m + 1 \in 1 .. Len(events) /\ (m + 1) - 1 = m /\ Len(events) \in Nat /\ m + 1 \in 1 .. m + 1
    BY LoggedAt
  <2>2. i \in 1 .. m => A[m].stages[s].status = events[i].status
    <3> SUFFICES ASSUME i \in 1 .. m PROVE LastOf(events, m, i, s)
      BY <1>2, <2>1
    <3>1. \A k \in i + 1 .. m : k \in i + 1 .. m + 1
      OBVIOUS
    <3> QED BY <3>1 DEF LastOf
  <2>3. CASE m + 1 <= PriorEvents
    <3>1. i \in 1 .. Len(events) /\ i <= PriorEvents
      BY <2>1, <2>3, LoggedAt
    <3>2. events[i].stage = NoStage
      BY <3>1, LoggedAt
    <3> QED BY <3>2, StageRunnerAssumption DEF LastOf
  <2>4. CASE m + 1 > PriorEvents
    <3>1. events[m + 1] \in Event /\ Takes(A[m + 1], A[m], events[m + 1]) /\ A[m] \in StageState
      BY <2>1, <2>4, OneEvent
    <3> HIDE DEF A
    <3>2. CASE i = m + 1
      <4>1. events[m + 1].stage = s
        BY <3>2 DEF LastOf
      <4> QED BY <3>1, <3>2, <4>1, TakesAt
    <3>3. CASE i # m + 1
      <4>1. i \in 1 .. m /\ m + 1 \in i + 1 .. m + 1
        BY <3>3
      <4>2. events[m + 1].stage # s
        BY <4>1 DEF LastOf
      <4>3. A[m + 1].stages[s] = A[m].stages[s]
        BY <3>1, <4>2, TakesAt
      <4> QED BY <2>2, <4>1, <4>3
    <3> QED BY <3>2, <3>3
  <2>5. PriorEvents \in Nat
    BY LoggedAt
  <2> QED BY <2>3, <2>4, <2>5
<1>3. Nat \subseteq S
  <2> HIDE DEF S
  <2> QED BY <1>1, <1>2, Induction
<1> QED BY <1>3

(* The events of an attempt carry one number.                               *)
Consistent(events) ==
  \A i, j \in PriorEvents + 1 .. Len(events) :
    events[i].stage = events[j].stage /\ SameAttempt(events[i], events[j]) => events[i].ordinal = events[j].ordinal

(* Every attempt is one of an event, and every number one of an attempt.    *)
Stems(state, events, n) ==
  \A s \in Stage : \A a \in DOMAIN state.stages[s].attempts :
    \E i \in PriorEvents + 1 .. n : events[i].stage = s /\ state.stages[s].attempts[a] = Snapshot(events[i])

Numbers(state, events, n) ==
  \A i \in PriorEvents + 1 .. n :
    \E a \in DOMAIN state.stages[events[i].stage].attempts :
      state.stages[events[i].stage].attempts[a].ordinal = events[i].ordinal

LEMMA StemsOn ==
  ASSUME NEW events, Logged(events), NEW m \in Nat, PriorEvents <= m, m + 1 <= Len(events),
         NEW after, NEW before \in StageState, Takes(after, before, events[m + 1]), Stems(before, events, m)
  PROVE  Stems(after, events, m + 1)
<1> DEFINE e == events[m + 1]
<1>1. m + 1 \in PriorEvents + 1 .. m + 1 /\ e \in Event /\ e.stage \in Stage
  BY LoggedAt DEF Event
<1>2. \A i \in PriorEvents + 1 .. m : i \in PriorEvents + 1 .. m + 1
  BY LoggedAt
<1> HIDE DEF e
<1>3. /\ Holds(after.stages[e.stage].attempts, before.stages[e.stage].attempts, e)
      /\ \A s \in Stage \ {e.stage} : after.stages[s] = before.stages[s]
  BY <1>1, TakesAt DEF e
<1> SUFFICES ASSUME NEW s \in Stage, NEW a \in DOMAIN after.stages[s].attempts
             PROVE  \E i \in PriorEvents + 1 .. m + 1 :
                      events[i].stage = s /\ after.stages[s].attempts[a] = Snapshot(events[i])
  BY DEF Stems
<1>4. CASE \E b \in DOMAIN before.stages[s].attempts : after.stages[s].attempts[a] = before.stages[s].attempts[b]
  BY <1>2, <1>4 DEF Stems
<1>5. CASE s = e.stage /\ after.stages[s].attempts[a] = Snapshot(e)
  BY <1>1, <1>5 DEF e
<1> QED BY <1>3, <1>4, <1>5 DEF Holds

LEMMA NumbersOn ==
  ASSUME NEW events, Logged(events), Consistent(events), NEW m \in Nat, PriorEvents <= m, m + 1 <= Len(events),
         NEW after, NEW before \in StageState, Takes(after, before, events[m + 1]),
         Stems(before, events, m), Numbers(before, events, m)
  PROVE  Numbers(after, events, m + 1)
<1> DEFINE e == events[m + 1]
<1>1. m + 1 \in PriorEvents + 1 .. Len(events) /\ e \in Event /\ e.stage \in Stage
  BY LoggedAt DEF Event
<1>2. \A i \in PriorEvents + 1 .. m : i \in PriorEvents + 1 .. Len(events) /\ events[i] \in Event /\ events[i].stage \in Stage
  BY LoggedAt DEF Event
<1>3. Snapshot(e).ordinal = e.ordinal /\ \A x : Snapshot(x).call = x.call /\ Snapshot(x).try = x.try /\ Snapshot(x).ordinal = x.ordinal
  BY DEF Snapshot
<1> HIDE DEF e
<1>4. /\ Holds(after.stages[e.stage].attempts, before.stages[e.stage].attempts, e)
      /\ \A s \in Stage \ {e.stage} : after.stages[s] = before.stages[s]
  BY <1>1, TakesAt DEF e
<1> SUFFICES ASSUME NEW i \in PriorEvents + 1 .. m + 1
             PROVE  \E a \in DOMAIN after.stages[events[i].stage].attempts :
                      after.stages[events[i].stage].attempts[a].ordinal = events[i].ordinal
  BY DEF Numbers
<1>5. CASE i = m + 1
  BY <1>3, <1>4, <1>5 DEF e, Holds
<1>6. CASE i # m + 1
  <2>1. i \in PriorEvents + 1 .. m
    BY <1>6, LoggedAt
  <2>2. PICK b \in DOMAIN before.stages[events[i].stage].attempts :
          before.stages[events[i].stage].attempts[b].ordinal = events[i].ordinal
    BY <2>1 DEF Numbers
  <2>3. CASE events[i].stage # e.stage
    BY <1>2, <1>4, <2>1, <2>2, <2>3
  <2>4. CASE events[i].stage = e.stage
    <3>1. CASE SameAttempt(before.stages[e.stage].attempts[b], e)
      <4>1. PICK j \in PriorEvents + 1 .. m :
              events[j].stage = e.stage /\ before.stages[e.stage].attempts[b] = Snapshot(events[j])
        BY <1>1, <2>2, <2>4 DEF Stems
      <4>2. SameAttempt(events[j], e)
        BY <1>3, <3>1, <4>1 DEF SameAttempt
      <4>3. events[j].ordinal = e.ordinal
        BY <1>1, <1>2, <4>1, <4>2 DEF Consistent, e
      <4>4. e.ordinal = events[i].ordinal
        BY <1>3, <2>2, <2>4, <4>1, <4>3
      <4> QED BY <1>3, <1>4, <2>4, <4>4 DEF Holds
    <3>2. CASE ~SameAttempt(before.stages[e.stage].attempts[b], e)
      BY <1>4, <2>2, <2>4, <3>2 DEF Holds
    <3> QED BY <3>1, <3>2
  <2> QED BY <2>3, <2>4
<1> QED BY <1>5, <1>6

LEMMA NumbersAt ==
  ASSUME NEW events, Logged(events), Consistent(events)
  PROVE  Numbers(After(events)[Len(events)], events, Len(events))
<1> DEFINE A == After(events)
           S == {m \in Nat : m <= Len(events) => Stems(A[m], events, m) /\ Numbers(A[m], events, m)}
<1>1. \A m \in 0 .. Len(events) : m <= PriorEvents => Stems(A[m], events, m) /\ Numbers(A[m], events, m)
  <2> SUFFICES ASSUME NEW m \in 0 .. Len(events), m <= PriorEvents
               PROVE  Stems(A[m], events, m) /\ Numbers(A[m], events, m)
    OBVIOUS
  <2>1. A[m] = EmptyStageState
    BY Watermark
  <2> HIDE DEF A
  <2>2. \A s \in Stage : A[m].stages[s].attempts = <<>>
    BY <2>1 DEF EmptyStageState
  <2>3. \A i \in PriorEvents + 1 .. m : FALSE
    BY LoggedAt
  <2> QED BY <2>2, <2>3 DEF Stems, Numbers
<1>2. 0 \in S
  <2>1. 0 \in 0 .. Len(events) /\ 0 <= PriorEvents
    BY LoggedAt
  <2> HIDE DEF A
  <2> QED BY <1>1, <2>1
<1>3. ASSUME NEW m \in Nat, m \in S PROVE m + 1 \in S
  <2> SUFFICES ASSUME m + 1 <= Len(events) PROVE Stems(A[m + 1], events, m + 1) /\ Numbers(A[m + 1], events, m + 1)
    OBVIOUS
  <2>1. /\ m + 1 \in 1 .. Len(events) /\ (m + 1) - 1 = m /\ Len(events) \in Nat /\ m + 1 \in 0 .. Len(events)
        /\ PriorEvents \in Nat /\ Stems(A[m], events, m) /\ Numbers(A[m], events, m)
    BY <1>3, LoggedAt
  <2>2. CASE m + 1 <= PriorEvents
    <3> HIDE DEF A
    <3> QED BY <1>1, <2>1, <2>2
  <2>3. CASE m + 1 > PriorEvents
    <3>1. Takes(A[m + 1], A[m], events[m + 1]) /\ A[m] \in StageState
      BY <2>1, <2>3, OneEvent
    <3>2. PriorEvents <= m
      BY <2>1, <2>3
    <3> HIDE DEF A
    <3> QED BY <2>1, <3>1, <3>2, StemsOn, NumbersOn
  <2> QED BY <2>1, <2>2, <2>3
<1>4. Nat \subseteq S
  <2> HIDE DEF S
  <2> QED BY <1>2, <1>3, Induction
<1>5. Len(events) \in S /\ Len(events) \in Nat
  BY <1>4, LoggedAt
<1> QED BY <1>5

LEMMA NextOrdinalIs ==
  ASSUME NEW state \in StageState, NEW s \in Stage
  PROVE  /\ NextOrdinal(state, s) \in Nat
         /\ \A a \in DOMAIN state.stages[s].attempts : state.stages[s].attempts[a].ordinal < NextOrdinal(state, s)
<1> DEFINE attempts == state.stages[s].attempts
           S == {0} \cup {a.ordinal : a \in Range(attempts)}
<1>1. attempts \in Seq(Attempt)
  BY DEF StageState
<1> HIDE DEF attempts
<1>2. Len(attempts) \in Nat /\ DOMAIN attempts = 1 .. Len(attempts) /\ \A a \in DOMAIN attempts : attempts[a].ordinal \in Nat
  <2>1. Len(attempts) \in Nat /\ DOMAIN attempts = 1 .. Len(attempts) /\ \A a \in DOMAIN attempts : attempts[a] \in Attempt
    BY <1>1
  <2>2. \A a \in Attempt : a.ordinal \in Nat
    BY DEF Attempt
  <2> QED BY <2>1, <2>2
<1> DEFINE f == [a \in 1 .. Len(attempts) |-> attempts[a].ordinal]
<1>3. f \in [1 .. Len(attempts) -> Nat]
  BY <1>2
<1>4. PICK b \in Nat : \A a \in 1 .. Len(attempts) : f[a] <= b
  <2> HIDE DEF f
  <2> QED BY <1>2, <1>3, Bounded
<1>5. S \in SUBSET Nat /\ S # {} /\ \A n \in S : n <= b
  BY <1>2, <1>4 DEF Range
<1>6. Max(S) \in S /\ \A n \in S : n <= Max(S)
  <2> HIDE DEF S
  <2> QED BY <1>5, MaxOfBounded
<1>7. \A a \in DOMAIN attempts : attempts[a].ordinal \in S
  BY DEF Range
<1>8. NextOrdinal(state, s) = Max(S) + 1
  BY DEF NextOrdinal, attempts
<1> HIDE DEF S
<1>9. NextOrdinal(state, s) \in Nat /\ \A a \in DOMAIN attempts : attempts[a].ordinal < NextOrdinal(state, s)
  <2>1. Max(S) \in Nat
    BY <1>5, <1>6
  <2>2. \A a \in DOMAIN attempts : attempts[a].ordinal <= Max(S)
    BY <1>6, <1>7
  <2> DEFINE m == Max(S)
  <2> HIDE DEF m
  <2>3. m \in Nat /\ NextOrdinal(state, s) = m + 1 /\ \A a \in DOMAIN attempts : attempts[a].ordinal <= m
    BY <1>8, <2>1, <2>2 DEF m
  <2> QED BY <1>2, <2>3
<1> QED BY <1>9 DEF attempts

(* The number the next attempt of a stage is given is one no event of the   *)
(* stage carries.                                                           *)
LEMMA OrdinalIsNew ==
  ASSUME NEW events, Logged(events), Consistent(events), NEW s \in Stage
  PROVE  LET next == NextOrdinal(After(events)[Len(events)], s) IN
         \A i \in PriorEvents + 1 .. Len(events) : events[i].stage = s => events[i].ordinal < next
<1>1. After(events)[Len(events)] \in StageState
  BY LoggedAt, AfterIs
<1> QED BY <1>1, NumbersAt, NextOrdinalIs DEF Numbers

(***************************************************************************)
(* Types, for any number of sessions.                                      *)
(***************************************************************************)
Call == [stage : Stage, force : BOOLEAN]

Job == [call : Nat, try : Nat, ordinal : Nat, for : {"status", "claim", "ordinal"}, event : Line,
        oversized : BOOLEAN]

Attempting == {"record", "readState", "writeState", "execute", "settled"}

(* A session that is at an attempt has a command, and an event that is of   *)
(* the attempt.                                                             *)
JobFits(p) ==
  /\ job[p].call \in 0 .. Len(calls)
  /\ pc[p] = "idle" => job[p] = NoJob
  /\ pc[p] \in {"claim", "ordinal", "status"} => job[p].for = pc[p]
  /\ job[p].for # "status" \/ pc[p] \in Attempting => job[p].call > 0
  /\ pc[p] \in Attempting =>
       /\ job[p].event \in Event /\ job[p].event.stage = StageOf(p) /\ job[p].event.call = job[p].call
       /\ job[p].event.try = job[p].try /\ job[p].event.ordinal = job[p].ordinal
       /\ job[p].try > 0

SessionTyped(p) ==
  /\ pc[p] \in Labels /\ job[p] \in Job /\ snap[p] \in StageState /\ aborted[p] \in BOOLEAN
  /\ JobFits(p)

LogTyped == Logged(lines) /\ tail \in Tails /\ (tail = "whole" => Len(lines) > PriorEvents)

SharedTyped ==
  /\ LogTyped
  /\ lock \in Proc \cup {NoProc} /\ calls \in Seq(Call) /\ decided \in SUBSET Stage
  /\ cache \in StageState /\ deaths \in 0 .. MaxDeaths

Typed ==
  /\ SharedTyped
  /\ pc = [p \in Proc |-> pc[p]] /\ job = [p \in Proc |-> job[p]]
  /\ snap = [p \in Proc |-> snap[p]] /\ aborted = [p \in Proc |-> aborted[p]]
  /\ \A p \in Proc : SessionTyped(p)

(* What a step of one session leaves alone.                                 *)
Only(p) ==
  /\ pc' = [pc EXCEPT ![p] = pc'[p]] /\ job' = [job EXCEPT ![p] = job'[p]]
  /\ snap' = [snap EXCEPT ![p] = snap'[p]] /\ aborted' = [aborted EXCEPT ![p] = aborted'[p]]

CallsKept == calls' = calls \/ \E c \in Call : calls' = Append(calls, c)

LEMMA CallsOn ==
  ASSUME Typed, CallsKept
  PROVE  /\ calls' \in Seq(Call) /\ Len(calls) <= Len(calls') /\ Len(calls) \in Nat
         /\ \A c \in 1 .. Len(calls) : calls'[c] = calls[c] /\ calls[c] \in Call
<1>1. calls \in Seq(Call)
  BY DEF Typed, SharedTyped
<1> QED BY <1>1 DEF CallsKept

LEMMA OnlyTyped ==
  ASSUME Typed, NEW p \in Proc, Only(p), CallsKept, SharedTyped', SessionTyped(p)'
  PROVE  Typed'
<1>1. /\ pc' = [q \in Proc |-> pc'[q]] /\ job' = [q \in Proc |-> job'[q]]
      /\ snap' = [q \in Proc |-> snap'[q]] /\ aborted' = [q \in Proc |-> aborted'[q]]
  BY DEF Only, Typed
<1>2. ASSUME NEW q \in Proc, q # p PROVE SessionTyped(q)'
  <2>1. pc'[q] = pc[q] /\ job'[q] = job[q] /\ snap'[q] = snap[q] /\ aborted'[q] = aborted[q]
    BY <1>2 DEF Only, Typed
  <2>2. SessionTyped(q)
    BY DEF Typed
  <2>3. job[q].call \in 0 .. Len(calls') /\ (job[q].call > 0 => calls'[job[q].call] = calls[job[q].call])
    BY <2>2, CallsOn DEF SessionTyped, JobFits
  <2> QED BY <2>1, <2>2, <2>3 DEF SessionTyped, JobFits, StageOf
<1> QED BY <1>1, <1>2 DEF Typed

-----------------------------------------------------------------------------
(* The log.                                                                 *)
LEMMA StoredIs ==
  ASSUME Typed, NEW e \in Event
  PROVE  /\ Stored(e) \in Event /\ Stored(e) = [e EXCEPT !.sequence = Len(lines)]
         /\ Stored(e).sequence = Len(lines) /\ Stored(e).stage = e.stage /\ Stored(e).call = e.call
         /\ Stored(e).try = e.try /\ Stored(e).ordinal = e.ordinal /\ Stored(e).status = e.status
         /\ Stored(e).error = e.error
<1>1. Stored(e) = [e EXCEPT !.sequence = Len(lines)] /\ Len(lines) \in Nat
  BY NextSequence, LoggedAt DEF Stored, Typed, SharedTyped, LogTyped
<1> QED BY <1>1 DEF Event

LEMMA Appended ==
  ASSUME NEW events, Logged(events), NEW e \in Event, e.sequence = Len(events)
  PROVE  /\ Logged(Append(events, e)) /\ Len(Append(events, e)) = Len(events) + 1
         /\ \A i \in 1 .. Len(events) : Append(events, e)[i] = events[i]
         /\ Append(events, e)[Len(events) + 1] = e
<1>1. events \in Seq(Line) /\ e \in Line /\ Len(events) \in Nat /\ PriorEvents \in Nat
  BY LoggedAt DEF Line
<1> DEFINE more == Append(events, e)
<1>2. more \in Seq(Line) /\ Len(more) = Len(events) + 1 /\ more[Len(events) + 1] = e
      /\ \A i \in 1 .. Len(events) : more[i] = events[i]
  BY <1>1
<1> HIDE DEF more
<1>3. Logged(more)
  <2>1. PriorEvents <= Len(more) /\ PriorEvents <= Len(events)
    BY <1>1, <1>2 DEF Logged
  <2>2. \A i \in 1 .. PriorEvents : i \in 1 .. Len(events)
    BY <1>1, <2>1
  <2>3. \A i \in PriorEvents + 1 .. Len(more) : i \in PriorEvents + 1 .. Len(events) \/ i = Len(events) + 1
    BY <1>1, <1>2
  <2>4. \A i \in PriorEvents + 1 .. Len(events) : i \in 1 .. Len(events)
    BY <1>1
  <2>5. \A i \in 1 .. Len(more) : i \in 1 .. Len(events) \/ i = Len(events) + 1
    BY <1>1, <1>2
  <2>6. \A i \in 1 .. PriorEvents : more[i] \in Other
    BY <1>2, <2>2 DEF Logged
  <2>7. \A i \in PriorEvents + 1 .. Len(more) : more[i] \in Event
    BY <1>2, <2>3, <2>4 DEF Logged
  <2>8. \A i \in 1 .. Len(more) : more[i].sequence = i - 1
    BY <1>1, <1>2, <2>5 DEF Logged
  <2> QED BY <1>2, <2>1, <2>6, <2>7, <2>8 DEF Logged
<1> QED BY <1>2, <1>3 DEF more

LEMMA Shortened ==
  ASSUME NEW events, Logged(events), Len(events) > PriorEvents
  PROVE  LET fewer == SubSeq(events, 1, Len(events) - 1) IN
         /\ Logged(fewer) /\ Len(fewer) = Len(events) - 1
         /\ \A i \in 1 .. Len(fewer) : fewer[i] = events[i]
<1>1. events \in Seq(Line) /\ Len(events) \in Nat /\ PriorEvents \in Nat
  BY LoggedAt
<1> DEFINE fewer == SubSeq(events, 1, Len(events) - 1)
<1>2. fewer \in Seq(Line) /\ Len(fewer) = Len(events) - 1 /\ \A i \in 1 .. Len(fewer) : fewer[i] = events[i]
  <2> DEFINE last == Len(events) - 1
  <2>1. last \in Int /\ last \in Nat /\ 1 \in Int /\ \A i \in 1 .. last : events[i] \in Line
    BY <1>1
  <2> HIDE DEF last
  <2>2. /\ SubSeq(events, 1, last) \in Seq(Line) /\ Len(SubSeq(events, 1, last)) = IF 1 <= last THEN last - 1 + 1 ELSE 0
        /\ \A i \in 1 .. last - 1 + 1 : SubSeq(events, 1, last)[i] = events[1 + i - 1]
    BY <2>1, SubSeqProperties
  <2>3. Len(SubSeq(events, 1, last)) = last /\ last - 1 + 1 = last /\ \A i \in Int : 1 + i - 1 = i
    BY <2>1, <2>2
  <2>4. \A i \in 1 .. last : SubSeq(events, 1, last)[i] = events[i]
    BY <2>2, <2>3
  <2> QED BY <2>2, <2>3, <2>4 DEF last
<1> HIDE DEF fewer
<1>3. Logged(fewer)
  <2>1. \A i \in 1 .. Len(fewer) : i \in 1 .. Len(events)
    BY <1>1, <1>2
  <2>2. \A i \in PriorEvents + 1 .. Len(fewer) : i \in PriorEvents + 1 .. Len(events) /\ i \in 1 .. Len(fewer)
    BY <1>1, <1>2
  <2>3. \A i \in 1 .. PriorEvents : i \in 1 .. Len(fewer)
    BY <1>1, <1>2
  <2>4. PriorEvents <= Len(fewer)
    BY <1>1, <1>2
  <2> QED BY <1>2, <2>1, <2>2, <2>3, <2>4 DEF Logged
<1> QED BY <1>2, <1>3 DEF fewer

LEMMA LogSteps ==
  ASSUME Typed, NEW e \in Event, AppendLine(e) \/ TornAppend(e)
  PROVE  LogTyped'
<1>1. Logged(lines) /\ tail \in Tails /\ (tail = "whole" => Len(lines) > PriorEvents)
  BY DEF Typed, SharedTyped, LogTyped
<1>2. Logged(Append(lines, Stored(e))) /\ Len(Append(lines, Stored(e))) > PriorEvents
  <2>1. PriorEvents <= Len(lines) /\ Len(lines) \in Nat /\ PriorEvents \in Nat
    BY <1>1, LoggedAt DEF Logged
  <2> QED BY <1>1, <2>1, StoredIs, Appended
<1>3. tail = "whole" => Logged(SubSeq(lines, 1, Len(lines) - 1))
  BY <1>1, Shortened
<1>4. CASE AppendLine(e)
  BY <1>1, <1>2, <1>4 DEF AppendLine, LogTyped, Tails
<1>5. CASE TornAppend(e)
  BY <1>1, <1>2, <1>3, <1>5 DEF TornAppend, LogTyped, Tails
<1> QED BY <1>4, <1>5

-----------------------------------------------------------------------------
(* What the operators and actions do to a session.                          *)
LEMMA Session ==
  ASSUME Typed, NEW p \in Proc
  PROVE  SessionTyped(p) /\ p \in DOMAIN pc /\ p \in DOMAIN job /\ p \in DOMAIN snap /\ p \in DOMAIN aborted
BY DEF Typed

LEMMA Alone ==
  ASSUME Typed, NEW p \in Proc
  PROVE  /\ \A x : [pc EXCEPT ![p] = x][p] = x /\ [job EXCEPT ![p] = x][p] = x
                   /\ [snap EXCEPT ![p] = x][p] = x /\ [aborted EXCEPT ![p] = x][p] = x
         /\ pc = [pc EXCEPT ![p] = pc[p]] /\ job = [job EXCEPT ![p] = job[p]]
         /\ snap = [snap EXCEPT ![p] = snap[p]] /\ aborted = [aborted EXCEPT ![p] = aborted[p]]
BY Session DEF Typed

LEMMA NoJobTyped == NoJob \in Job /\ NoJob.call = 0 /\ NoJob.for = "status"
BY DEF NoJob, Job, NoEvent, Line, Other

LEMMA Finishes ==
  ASSUME Typed, NEW p \in Proc, Finish(p), CallsKept, SharedTyped'
  PROVE  Only(p) /\ Typed' /\ pc'[p] = "idle" /\ job'[p] = NoJob /\ snap'[p] = EmptyStageState
<1>1. Only(p) /\ pc'[p] = "idle" /\ job'[p] = NoJob /\ snap'[p] = EmptyStageState /\ aborted'[p] = FALSE
  BY Alone DEF Finish, Goto, Only
<1>2. SessionTyped(p)'
  <2>1. 0 \in 0 .. Len(calls')
    BY CallsOn
  <2> QED BY <1>1, <2>1, NoJobTyped, EmptyTyped DEF SessionTyped, JobFits, Attempting, Labels
<1> QED BY <1>1, <1>2, OnlyTyped

(* A step that leaves the job alone, or changes only why it reads.          *)
LEMMA Goes ==
  ASSUME Typed, NEW p \in Proc, NEW l \in Labels \ {"idle"}, Goto(p, l), UNCHANGED <<job, calls>>,
         snap' = [snap EXCEPT ![p] = snap'[p]], snap'[p] \in StageState,
         aborted' = [aborted EXCEPT ![p] = aborted'[p]], aborted'[p] \in BOOLEAN, SharedTyped',
         l \in {"claim", "ordinal", "status"} => job[p].for = l,
         l \in Attempting => pc[p] \in Attempting
  PROVE  Only(p) /\ Typed' /\ pc'[p] = l /\ job'[p] = job[p]
<1>1. Only(p) /\ pc'[p] = l /\ job'[p] = job[p]
  BY Alone DEF Goto, Only
<1>2. SessionTyped(p)'
  BY <1>1, Session DEF SessionTyped, JobFits, StageOf
<1>3. CallsKept
  BY DEF CallsKept
<1> QED BY <1>1, <1>2, <1>3, OnlyTyped

LEMMA EventTyped ==
  ASSUME Typed, NEW p \in Proc, job[p].call > 0, NEW status \in StageStatus, NEW error \in Errors
  PROVE  LET e == LifecycleEvent(p, status, error) IN
         /\ e \in Event /\ e.stage = StageOf(p) /\ e.call = job[p].call /\ e.try = job[p].try
         /\ e.ordinal = job[p].ordinal /\ e.status = status /\ e.error = error
<1>1. StageOf(p) \in Stage /\ job[p] \in Job
  <2>1. job[p].call \in 1 .. Len(calls) /\ job[p] \in Job
    BY Session DEF SessionTyped, JobFits
  <2>2. calls[job[p].call] \in Call
    BY <2>1 DEF Typed, SharedTyped
  <2> QED BY <2>1, <2>2 DEF StageOf, Call
<1> QED BY <1>1 DEF LifecycleEvent, Event, Job

LEMMA Begins ==
  ASSUME Typed, NEW p \in Proc, NEW try \in Nat \ {0}, NEW ordinal \in Nat, job[p].call > 0,
         BeginAttempt(p, try, ordinal), UNCHANGED <<calls, aborted>>, SharedTyped'
  PROVE  /\ Only(p) /\ Typed' /\ pc'[p] = "record" /\ snap'[p] = EmptyStageState
         /\ job'[p].call = job[p].call /\ job'[p].try = try /\ job'[p].ordinal = ordinal
         /\ job'[p].event.status = "queued" /\ StageOf(p)' = StageOf(p)
<1> DEFINE e == [LifecycleEvent(p, "queued", "none") EXCEPT !.try = try, !.ordinal = ordinal]
           j == [job[p] EXCEPT !.try = try, !.ordinal = ordinal, !.oversized = FALSE, !.event = e]
<1>1. e \in Event /\ e.stage = StageOf(p) /\ e.call = job[p].call /\ e.try = try /\ e.ordinal = ordinal /\ e.status = "queued"
  <2> DEFINE q == LifecycleEvent(p, "queued", "none")
  <2>1. q \in Event /\ q.stage = StageOf(p) /\ q.call = job[p].call /\ q.status = "queued"
    BY EventTyped DEF StageStatus, Errors
  <2> HIDE DEF q
  <2>2. e = [q EXCEPT !.try = try, !.ordinal = ordinal]
    BY DEF q
  <2> HIDE DEF e
  <2> QED BY <2>1, <2>2 DEF Event
<1>2. job' = [job EXCEPT ![p] = j] /\ pc' = [pc EXCEPT ![p] = "record"] /\ snap' = [snap EXCEPT ![p] = EmptyStageState]
  BY DEF BeginAttempt, Goto
<1>3. job[p] \in Job /\ job[p].call \in 1 .. Len(calls)
  BY Session DEF SessionTyped, JobFits
<1> HIDE DEF e
<1>4. j \in Job /\ j.call = job[p].call /\ j.try = try /\ j.ordinal = ordinal /\ j.event = e /\ j.for = job[p].for
  BY <1>1, <1>3 DEF Job, Line
<1> HIDE DEF j
<1>5. Only(p) /\ job'[p] = j /\ pc'[p] = "record" /\ snap'[p] = EmptyStageState
  BY <1>2, Alone DEF Only
<1>6. StageOf(p)' = StageOf(p)
  BY <1>4, <1>5 DEF StageOf
<1>7. SessionTyped(p)'
  BY <1>1, <1>3, <1>4, <1>5, <1>6, EmptyTyped, Session DEF SessionTyped, JobFits, Attempting, Labels
<1>8. CallsKept
  BY DEF CallsKept
<1> QED BY <1>1, <1>4, <1>5, <1>6, <1>7, <1>8, OnlyTyped

LEMMA ReplayTyped ==
  ASSUME NEW events \in Seq(Line), NEW wanted, NEW state \in StageState
  PROVE  Replay(events, wanted, state) \in StageState
<1>1. PICK f \in [0 .. Len(events) -> StageState] : Folded(f, events, wanted, state)
  BY FoldExists
<1> QED BY <1>1, ReplayIs

LEMMA LinesTyped == ASSUME Typed PROVE Logged(lines) /\ lines \in Seq(Line)
BY LoggedAt DEF Typed, SharedTyped, LogTyped

(* A step that keeps the command and the number of the attempt.             *)
LEMMA Moves ==
  ASSUME Typed, NEW p \in Proc, NEW l \in Labels \ {"idle"}, NEW j \in Job,
         Goto(p, l), job' = [job EXCEPT ![p] = j], UNCHANGED <<calls, aborted>>,
         snap' = [snap EXCEPT ![p] = snap'[p]], snap'[p] \in StageState, SharedTyped',
         j.call = job[p].call, j.try = job[p].try, j.ordinal = job[p].ordinal,
         l \in {"claim", "ordinal", "status"} => j.for = l,
         j.for # "status" => job[p].call > 0,
         l \in Attempting =>
           /\ pc[p] \in Attempting
           /\ j.event \in Event /\ j.event.stage = StageOf(p) /\ j.event.call = job[p].call
           /\ j.event.try = job[p].try /\ j.event.ordinal = job[p].ordinal
  PROVE  Only(p) /\ Typed' /\ pc'[p] = l /\ job'[p] = j /\ StageOf(p)' = StageOf(p)
<1>1. Only(p) /\ pc'[p] = l /\ job'[p] = j /\ aborted'[p] = aborted[p]
  BY Alone DEF Goto, Only
<1>2. StageOf(p)' = StageOf(p)
  BY <1>1 DEF StageOf
<1>3. SessionTyped(p)'
  BY <1>1, <1>2, Session DEF SessionTyped, JobFits
<1>4. CallsKept
  BY DEF CallsKept
<1> QED BY <1>1, <1>2, <1>3, <1>4, OnlyTyped

LEMMA SharedKept ==
  ASSUME Typed, UNCHANGED <<lines, tail, lock, calls, deaths>>, cache' \in StageState, decided' \in SUBSET Stage
  PROVE  SharedTyped'
BY DEF Typed, SharedTyped, LogTyped

LEMMA AllKept ==
  ASSUME Typed, UNCHANGED <<lines, tail, cache, lock, calls, decided, deaths>>
  PROVE  SharedTyped' /\ CallsKept
BY SharedKept DEF Typed, SharedTyped, CallsKept

-----------------------------------------------------------------------------
(* The actions.                                                             *)
LEMMA RunStep ==
  ASSUME Typed, NEW p \in Proc, NEW s \in Stage, NEW force \in BOOLEAN, Run(p, s, force)
  PROVE  /\ Only(p) /\ Typed' /\ pc'[p] = "readCache" /\ job'[p].for = "claim" /\ snap'[p] = snap[p]
         /\ job'[p].call = Len(calls') /\ Len(calls') = Len(calls) + 1 /\ StageOf(p)' = s /\ Forced(p)' = force
<1> DEFINE j == [NoJob EXCEPT !.call = Len(calls) + 1, !.for = "claim"]
           c == [stage |-> s, force |-> force]
<1>1. pc[p] = "idle" /\ calls' = Append(calls, c) /\ job' = [job EXCEPT ![p] = j] /\ pc' = [pc EXCEPT ![p] = "readCache"]
      /\ UNCHANGED <<lines, tail, cache, lock, decided, snap, aborted, deaths>>
  BY DEF Run, Goto
<1>2. c \in Call /\ calls \in Seq(Call) /\ c.stage = s /\ c.force = force
  BY DEF Call, Typed, SharedTyped
<1> HIDE DEF c
<1>3. Len(calls') = Len(calls) + 1 /\ calls'[Len(calls) + 1] = c /\ Len(calls) \in Nat /\ calls' \in Seq(Call) /\ CallsKept
  BY <1>1, <1>2 DEF CallsKept
<1>4. j \in Job /\ j.call = Len(calls) + 1 /\ j.for = "claim"
  <2>1. NoJob \in Job /\ Len(calls) + 1 \in Nat
    BY <1>3, NoJobTyped
  <2> QED BY <2>1 DEF Job, NoJob
<1> HIDE DEF j
<1>5. Only(p) /\ pc'[p] = "readCache" /\ job'[p] = j /\ snap'[p] = snap[p] /\ aborted'[p] = aborted[p]
  BY <1>1, Alone DEF Only
<1>6. StageOf(p)' = s /\ Forced(p)' = force
  BY <1>2, <1>3, <1>4, <1>5 DEF StageOf, Forced
<1>7. SessionTyped(p)'
  <2>1. SessionTyped(p) /\ Len(calls) + 1 \in 0 .. Len(calls')
    BY <1>3, Session
  <2> QED BY <1>3, <1>4, <1>5, <2>1 DEF SessionTyped, JobFits, Attempting, Labels
<1>8. SharedTyped'
  BY <1>1, <1>3 DEF Typed, SharedTyped, LogTyped
<1> QED BY <1>3, <1>4, <1>5, <1>6, <1>7, <1>8, OnlyTyped

LEMMA StatusStep ==
  ASSUME Typed, NEW p \in Proc, Status(p)
  PROVE  Only(p) /\ Typed' /\ pc'[p] = "readCache" /\ job'[p] = job[p] /\ snap'[p] = snap[p]
<1>1. SharedTyped' /\ "readCache" \in Labels \ {"idle"} /\ "readCache" \notin Attempting
  BY AllKept DEF Status, Labels, Attempting
<1>2. /\ snap' = [snap EXCEPT ![p] = snap'[p]] /\ snap'[p] = snap[p] /\ snap[p] \in StageState
      /\ aborted' = [aborted EXCEPT ![p] = aborted'[p]] /\ aborted'[p] \in BOOLEAN
  BY Alone, Session DEF Status, SessionTyped
<1> QED BY <1>1, <1>2, Goes DEF Status

LEMMA AbortStep ==
  ASSUME Typed, NEW p \in Proc, Abort(p)
  PROVE  Only(p) /\ Typed' /\ UNCHANGED <<pc, job, snap>>
<1>1. SharedTyped' /\ CallsKept
  BY AllKept DEF Abort
<1>2. Only(p) /\ aborted'[p] = TRUE /\ UNCHANGED <<pc, job, snap, calls>>
  BY Alone DEF Abort, Only
<1>3. SessionTyped(p)'
  BY <1>2, Session DEF SessionTyped, JobFits, StageOf
<1> QED BY <1>1, <1>2, <1>3, OnlyTyped

LEMMA DecideStep ==
  ASSUME Typed, NEW s \in Stage, DecideGate(s)
  PROVE  Typed' /\ decided \subseteq decided' /\ UNCHANGED <<lines, tail, cache, calls, pc, job, snap, aborted, deaths>>
<1>1. UNCHANGED <<lines, tail, cache, lock, calls, pc, job, snap, aborted, deaths>> /\ decided \subseteq decided' /\ decided' \in SUBSET Stage
  BY DEF DecideGate, Typed, SharedTyped
<1>2. SharedTyped'
  BY <1>1, SharedKept DEF Typed, SharedTyped
<1> QED BY <1>1, <1>2 DEF Typed, SessionTyped, JobFits, StageOf

LEMMA DeleteStep ==
  ASSUME Typed, DeleteCache
  PROVE  Typed' /\ UNCHANGED <<lines, tail, calls, decided, pc, job, snap, aborted, deaths>>
<1>1. UNCHANGED <<lines, tail, lock, calls, decided, pc, job, snap, aborted, deaths>> /\ cache' = EmptyStageState
  BY DEF DeleteCache
<1>2. SharedTyped'
  BY <1>1, SharedKept, EmptyTyped DEF Typed, SharedTyped
<1> QED BY <1>1, <1>2 DEF Typed, SessionTyped, JobFits, StageOf

LEMMA ReadCacheStep ==
  ASSUME Typed, NEW p \in Proc, ReadCache(p)
  PROVE  Only(p) /\ Typed' /\ pc'[p] = "readLog" /\ job'[p] = job[p] /\ snap'[p] = cache
<1>1. SharedTyped' /\ "readLog" \in Labels \ {"idle"} /\ "readLog" \notin Attempting
  BY AllKept DEF ReadCache, Labels, Attempting
<1>2. /\ snap' = [snap EXCEPT ![p] = snap'[p]] /\ snap'[p] = cache /\ cache \in StageState
      /\ aborted' = [aborted EXCEPT ![p] = aborted'[p]] /\ aborted'[p] \in BOOLEAN
  BY Alone, Session DEF ReadCache, SessionTyped, Typed, SharedTyped
<1> QED BY <1>1, <1>2, Goes DEF ReadCache

LEMMA ReadLogStep ==
  ASSUME Typed, NEW p \in Proc, ReadLog(p)
  PROVE  /\ Only(p) /\ Typed'
         /\ \/ ~Readable /\ pc'[p] = "idle" /\ job'[p] = NoJob
            \/ /\ Readable /\ job'[p] = job[p] /\ snap'[p] = ReconcileStageState(lines, snap[p])
               /\ pc'[p] = IF Pending(lines, snap[p]) = {} THEN job[p].for ELSE "repair"
<1>1. SharedTyped' /\ CallsKept /\ UNCHANGED calls
  BY AllKept DEF ReadLog
<1>2. CASE Readable
  <2> DEFINE l == IF Pending(lines, snap[p]) = {} THEN job[p].for ELSE "repair"
  <2>1. l \in {"repair", "status", "claim", "ordinal"} /\ (l # "repair" => l = job[p].for)
    BY Session DEF SessionTyped, Job
  <2>2. Goto(p, l) /\ UNCHANGED <<job, aborted>> /\ snap' = [snap EXCEPT ![p] = ReconcileStageState(lines, snap[p])]
    BY <1>2 DEF ReadLog
  <2>3. ReconcileStageState(lines, snap[p]) \in StageState
    BY ReplayTyped, LinesTyped, Session DEF ReconcileStageState, SessionTyped
  <2>4. /\ snap' = [snap EXCEPT ![p] = snap'[p]] /\ snap'[p] = ReconcileStageState(lines, snap[p])
        /\ aborted' = [aborted EXCEPT ![p] = aborted'[p]] /\ aborted'[p] \in BOOLEAN
    BY <2>2, Alone, Session DEF SessionTyped
  <2> HIDE DEF l
  <2>5. l \in Labels \ {"idle"} /\ l \notin Attempting
    BY <2>1 DEF Labels, Attempting
  <2>6. Only(p) /\ Typed' /\ pc'[p] = l /\ job'[p] = job[p]
    BY <1>1, <2>1, <2>2, <2>3, <2>4, <2>5, Goes
  <2> QED BY <1>2, <2>4, <2>6 DEF l
<1>3. CASE ~Readable
  BY <1>1, <1>3, Finishes DEF ReadLog
<1> QED BY <1>2, <1>3

LEMMA RepairStep ==
  ASSUME Typed, NEW p \in Proc, Repair(p)
  PROVE  Only(p) /\ Typed' /\ pc'[p] = job[p].for /\ job'[p] = job[p] /\ snap'[p] = snap[p] /\ cache' = snap[p]
<1>1. cache' = snap[p] /\ snap[p] \in StageState /\ SharedTyped'
  BY Session, SharedKept DEF Repair, SessionTyped, Typed, SharedTyped
<1>2. job[p].for \in Labels \ {"idle"} /\ job[p].for \notin Attempting
  BY Session DEF SessionTyped, Job, Labels, Attempting
<1>3. /\ snap' = [snap EXCEPT ![p] = snap'[p]] /\ snap'[p] = snap[p]
      /\ aborted' = [aborted EXCEPT ![p] = aborted'[p]] /\ aborted'[p] \in BOOLEAN
  BY Alone, Session DEF Repair, SessionTyped
<1> QED BY <1>1, <1>2, <1>3, Goes DEF Repair

LEMMA ReportStep ==
  ASSUME Typed, NEW p \in Proc, ReportStatus(p)
  PROVE  Only(p) /\ Typed' /\ pc'[p] = "idle" /\ job'[p] = NoJob
BY AllKept, Finishes DEF ReportStatus

LEMMA ClaimStep ==
  ASSUME Typed, NEW p \in Proc, AssertClaimable(p)
  PROVE  /\ Only(p) /\ Typed'
         /\ \/ pc'[p] = "idle" /\ job'[p] = NoJob
            \/ /\ Claimable(snap[p], StageOf(p), Forced(p)) /\ pc'[p] = "readCache" /\ job'[p].for = "ordinal"
               /\ job'[p].call = job[p].call /\ StageOf(p)' = StageOf(p)
<1>1. SharedTyped' /\ CallsKept /\ UNCHANGED calls
  BY AllKept DEF AssertClaimable
<1>2. CASE ~Claimable(snap[p], StageOf(p), Forced(p))
  BY <1>1, <1>2, Finishes DEF AssertClaimable
<1>3. CASE Claimable(snap[p], StageOf(p), Forced(p))
  <2> DEFINE j == [job[p] EXCEPT !.for = "ordinal"]
  <2>1. job' = [job EXCEPT ![p] = j] /\ Goto(p, "readCache") /\ UNCHANGED <<calls, snap, aborted>>
    BY <1>3 DEF AssertClaimable
  <2>2. SessionTyped(p) /\ job[p].call > 0
    BY Session DEF AssertClaimable, SessionTyped, JobFits
  <2>3. j \in Job /\ j.call = job[p].call /\ j.try = job[p].try /\ j.ordinal = job[p].ordinal /\ j.for = "ordinal"
    BY <2>2 DEF SessionTyped, Job
  <2> HIDE DEF j
  <2>4. snap' = [snap EXCEPT ![p] = snap'[p]] /\ snap'[p] \in StageState
    BY <2>1, <2>2, Alone DEF SessionTyped
  <2>5. "readCache" \in Labels \ {"idle"} /\ "readCache" \notin Attempting
    BY DEF Labels, Attempting
  <2> QED BY <1>1, <1>3, <2>1, <2>2, <2>3, <2>4, <2>5, Moves
<1> QED BY <1>2, <1>3

LEMMA OrdinalStep ==
  ASSUME Typed, NEW p \in Proc, AssignOrdinal(p)
  PROVE  /\ Only(p) /\ Typed' /\ pc'[p] = "record" /\ job'[p].event.status = "queued" /\ job'[p].try = 1
         /\ job'[p].ordinal = NextOrdinal(snap[p], StageOf(p)) /\ StageOf(p)' = StageOf(p) /\ job'[p].call = job[p].call
<1>1. SharedTyped' /\ UNCHANGED <<calls, aborted>>
  BY AllKept DEF AssignOrdinal
<1>2. job[p].call > 0 /\ SessionTyped(p)
  BY Session DEF AssignOrdinal, SessionTyped, JobFits
<1>3. StageOf(p) \in Stage
  <2>1. job[p].call \in 1 .. Len(calls)
    BY <1>2 DEF SessionTyped, JobFits
  <2>2. calls[job[p].call] \in Call
    BY <2>1 DEF Typed, SharedTyped
  <2> QED BY <2>2 DEF StageOf, Call
<1>4. NextOrdinal(snap[p], StageOf(p)) \in Nat
  BY <1>2, <1>3, NextOrdinalIs DEF SessionTyped
<1> QED BY <1>1, <1>2, <1>4, Begins DEF AssignOrdinal

LEMMA AtAttempt ==
  ASSUME Typed, NEW p \in Proc, pc[p] \in Attempting
  PROVE  /\ SessionTyped(p) /\ job[p] \in Job /\ job[p].call \in 1 .. Len(calls) /\ job[p].try \in Nat \ {0}
         /\ job[p].event \in Event /\ job[p].event.stage = StageOf(p) /\ job[p].event.call = job[p].call
         /\ job[p].event.try = job[p].try /\ job[p].event.ordinal = job[p].ordinal /\ StageOf(p) \in Stage
<1>1. SessionTyped(p)
  BY Session
<1> QED BY <1>1 DEF SessionTyped, JobFits, Job, Event

LEMMA ExecuteStep ==
  ASSUME Typed, NEW p \in Proc, Execute(p)
  PROVE  /\ Only(p) /\ Typed' /\ pc'[p] = "record" /\ job'[p].event.status \in Terminal
         /\ job'[p].call = job[p].call /\ job'[p].try = job[p].try /\ job'[p].ordinal = job[p].ordinal
         /\ StageOf(p)' = StageOf(p)
<1>1. SharedTyped' /\ UNCHANGED <<calls, aborted>> /\ pc[p] \in Attempting
  BY AllKept DEF Execute, Attempting
<1>2. PICK o \in Outcomes(p), oversized \in BOOLEAN :
        job' = [job EXCEPT ![p].event = LifecycleEvent(p, o[1], o[2]), ![p].oversized = oversized]
  BY DEF Execute
<1>3. o[1] \in Terminal /\ o[1] \in StageStatus /\ o[2] \in Errors
  BY <1>2 DEF Outcomes, ThrownOutcomes, GateOutcomes, EvaluationOutcomes, OutputOutcomes, Terminal, StageStatus, Errors
<1> DEFINE e == LifecycleEvent(p, o[1], o[2])
           j == [job[p] EXCEPT !.event = e, !.oversized = oversized]
<1>4. job' = [job EXCEPT ![p] = j]
  <2> HIDE DEF e
  <2> QED BY <1>2, Alone, Session DEF Typed, e
<1>5. /\ e \in Event /\ e.stage = StageOf(p) /\ e.call = job[p].call /\ e.try = job[p].try
      /\ e.ordinal = job[p].ordinal /\ e.status = o[1]
      /\ j \in Job /\ j.call = job[p].call /\ j.try = job[p].try /\ j.ordinal = job[p].ordinal
      /\ j.for = job[p].for /\ j.event = e
  <2>1. e \in Event /\ e.stage = StageOf(p) /\ e.call = job[p].call /\ e.try = job[p].try
        /\ e.ordinal = job[p].ordinal /\ e.status = o[1]
    BY <1>1, <1>3, AtAttempt, EventTyped
  <2> HIDE DEF e
  <2>2. job[p] \in Job
    BY <1>1, AtAttempt
  <2>3. /\ j \in Job /\ j.call = job[p].call /\ j.try = job[p].try /\ j.ordinal = job[p].ordinal
        /\ j.for = job[p].for /\ j.event = e
    BY <2>1, <2>2 DEF Job, Line
  <2> HIDE DEF j
  <2> QED BY <2>1, <2>3
<1> HIDE DEF e, j
<1>6. Goto(p, "record") /\ "record" \in Labels \ {"idle"} /\ "record" \notin {"claim", "ordinal", "status"}
  BY DEF Execute, Labels
<1>7. snap' = [snap EXCEPT ![p] = snap'[p]] /\ snap'[p] \in StageState /\ job[p].call > 0
  BY <1>1, Alone, AtAttempt DEF Execute, SessionTyped
<1> QED BY <1>1, <1>3, <1>4, <1>5, <1>6, <1>7, Moves

LEMMA RecordStep ==
  ASSUME Typed, NEW p \in Proc, RecordEvent(p)
  PROVE  /\ Only(p) /\ Typed' /\ pc'[p] = "readState" /\ job'[p].event = Stored(job[p].event) /\ snap'[p] = snap[p]
         /\ job'[p].call = job[p].call /\ job'[p].try = job[p].try /\ job'[p].ordinal = job[p].ordinal
         /\ StageOf(p)' = StageOf(p)
<1>1. AppendLine(job[p].event) /\ UNCHANGED <<calls, aborted, cache, decided, snap, deaths>> /\ lock' = p /\ pc[p] \in Attempting
  BY DEF RecordEvent, Attempting
<1>2. SharedTyped'
  BY <1>1, LogSteps, AtAttempt DEF Typed, SharedTyped
<1> DEFINE e == Stored(job[p].event)
           j == [job[p] EXCEPT !.event = e]
<1>3. e \in Event /\ e.stage = StageOf(p) /\ e.call = job[p].call /\ e.try = job[p].try /\ e.ordinal = job[p].ordinal
  BY <1>1, AtAttempt, StoredIs
<1>4. job' = [job EXCEPT ![p] = j] /\ Goto(p, "readState")
  BY Alone DEF RecordEvent, Typed
<1> HIDE DEF e
<1>5. /\ j \in Job /\ j.call = job[p].call /\ j.try = job[p].try /\ j.ordinal = job[p].ordinal
      /\ j.for = job[p].for /\ j.event = e
  BY <1>1, <1>3, AtAttempt DEF Job, Line
<1> HIDE DEF j
<1>6. "readState" \in Labels \ {"idle"} /\ "readState" \notin {"claim", "ordinal", "status"}
  BY DEF Labels
<1>7. snap' = [snap EXCEPT ![p] = snap'[p]] /\ snap'[p] = snap[p] /\ snap'[p] \in StageState /\ job[p].call > 0
  BY <1>1, Alone, AtAttempt DEF SessionTyped
<1> QED BY <1>1, <1>2, <1>3, <1>4, <1>5, <1>6, <1>7, Moves DEF e

LEMMA DegradeStep ==
  ASSUME Typed, NEW p \in Proc, Degrade(p)
  PROVE  /\ Only(p) /\ Typed' /\ pc'[p] = "record" /\ job'[p].event.status = job[p].event.status
         /\ job'[p].call = job[p].call /\ job'[p].try = job[p].try /\ job'[p].ordinal = job[p].ordinal
         /\ StageOf(p)' = StageOf(p)
<1>1. SharedTyped' /\ UNCHANGED <<calls, aborted, pc, snap>> /\ pc[p] = "record" /\ pc[p] \in Attempting
  BY AllKept DEF Degrade, Attempting
<1> DEFINE e == [job[p].event EXCEPT !.degraded = TRUE]
           j == [job[p] EXCEPT !.event = e, !.oversized = FALSE]
<1>2. /\ e \in Event /\ e.stage = StageOf(p) /\ e.call = job[p].call /\ e.try = job[p].try
      /\ e.ordinal = job[p].ordinal /\ e.status = job[p].event.status
  BY <1>1, AtAttempt DEF Event
<1>3. job' = [job EXCEPT ![p] = j]
  <2>1. job' = [job EXCEPT ![p].event.degraded = TRUE, ![p].oversized = FALSE]
    BY DEF Degrade
  <2> QED BY <2>1, Alone, Session DEF Typed
<1> HIDE DEF e
<1>4. /\ j \in Job /\ j.call = job[p].call /\ j.try = job[p].try /\ j.ordinal = job[p].ordinal
      /\ j.for = job[p].for /\ j.event = e
  BY <1>1, <1>2, AtAttempt DEF Job, Line
<1> HIDE DEF j
<1>5. "record" \in Labels \ {"idle"} /\ "record" \notin {"claim", "ordinal", "status"} /\ Goto(p, "record")
  BY <1>1, Alone DEF Labels, Goto
<1>6. snap' = [snap EXCEPT ![p] = snap'[p]] /\ snap'[p] \in StageState /\ job[p].call > 0
  BY <1>1, Alone, AtAttempt DEF SessionTyped
<1>7. Only(p) /\ Typed' /\ pc'[p] = "record" /\ job'[p] = j /\ StageOf(p)' = StageOf(p)
  BY <1>1, <1>2, <1>3, <1>4, <1>5, <1>6, Moves
<1> QED BY <1>2, <1>4, <1>7

LEMMA RefusedStep ==
  ASSUME Typed, NEW p \in Proc, RecordRefused(p)
  PROVE  Only(p) /\ Typed' /\ pc'[p] = "idle" /\ job'[p] = NoJob
BY AllKept, Finishes DEF RecordRefused

LEMMA ReadStateStep ==
  ASSUME Typed, NEW p \in Proc, ReadState(p)
  PROVE  Only(p) /\ Typed' /\ pc'[p] = "writeState" /\ job'[p] = job[p] /\ snap'[p] = cache
<1>1. SharedTyped' /\ "writeState" \in Labels \ {"idle"} /\ "writeState" \notin {"claim", "ordinal", "status"}
      /\ pc[p] \in Attempting
  BY AllKept DEF ReadState, Labels, Attempting
<1>2. /\ snap' = [snap EXCEPT ![p] = snap'[p]] /\ snap'[p] = cache /\ cache \in StageState
      /\ aborted' = [aborted EXCEPT ![p] = aborted'[p]] /\ aborted'[p] \in BOOLEAN
  BY Alone, Session DEF ReadState, SessionTyped, Typed, SharedTyped
<1> QED BY <1>1, <1>2, Goes DEF ReadState

LEMMA WriteStep ==
  ASSUME Typed, NEW p \in Proc, WriteState(p)
  PROVE  /\ Only(p) /\ Typed' /\ cache' = ApplyLifecycleEvent(snap[p], job[p].event)
         /\ job'[p].call = job[p].call /\ job'[p].try = job[p].try /\ job'[p].ordinal = job[p].ordinal
         /\ StageOf(p)' = StageOf(p)
         /\ \/ pc'[p] = "record" /\ job'[p].event.status = "running"
            \/ pc'[p] \in {"execute", "settled"} /\ job'[p] = job[p]
<1>1. /\ UNCHANGED <<lines, tail, calls, decided, aborted, deaths>> /\ lock' = NoProc /\ pc[p] \in Attempting
      /\ cache' = ApplyLifecycleEvent(snap[p], job[p].event) /\ snap' = [snap EXCEPT ![p] = EmptyStageState]
  BY DEF WriteState, Attempting
<1>2. ApplyLifecycleEvent(snap[p], job[p].event) \in StageState
  BY <1>1, AtAttempt, ApplyTyped DEF SessionTyped
<1>3. SharedTyped'
  BY <1>1, <1>2 DEF Typed, SharedTyped, LogTyped
<1>4. snap' = [snap EXCEPT ![p] = snap'[p]] /\ snap'[p] \in StageState /\ job[p].call > 0
  <2>1. job[p].call > 0
    BY <1>1, AtAttempt
  <2>2. snap'[p] = EmptyStageState
    BY <1>1, Alone
  <2> QED BY <1>1, <2>1, <2>2, EmptyTyped
<1>5. \A l \in {"record", "execute", "settled"} : l \in Labels \ {"idle"} /\ l \notin {"claim", "ordinal", "status"}
  BY DEF Labels
<1>6. CASE /\ job' = [job EXCEPT ![p].event = LifecycleEvent(p, "running", "none")]
           /\ Goto(p, "record")
  <2> DEFINE e == LifecycleEvent(p, "running", "none")
             j == [job[p] EXCEPT !.event = e]
  <2>1. job' = [job EXCEPT ![p] = j]
    <3> HIDE DEF e
    <3> QED BY <1>6, Alone DEF Typed, e
  <2>2. "running" \in StageStatus /\ "none" \in Errors /\ TRUE \in BOOLEAN
    BY DEF StageStatus, Errors
  <2>3. /\ e \in Event /\ e.stage = StageOf(p) /\ e.call = job[p].call /\ e.try = job[p].try
        /\ e.ordinal = job[p].ordinal /\ e.status = "running"
        /\ j \in Job /\ j.call = job[p].call /\ j.try = job[p].try /\ j.ordinal = job[p].ordinal
        /\ j.for = job[p].for /\ j.event = e
    <3>1. e \in Event /\ e.stage = StageOf(p) /\ e.call = job[p].call /\ e.try = job[p].try
          /\ e.ordinal = job[p].ordinal /\ e.status = "running"
      BY <1>1, <2>2, AtAttempt, EventTyped
    <3> HIDE DEF e
    <3>2. job[p] \in Job
      BY <1>1, AtAttempt
    <3>3. /\ j \in Job /\ j.call = job[p].call /\ j.try = job[p].try /\ j.ordinal = job[p].ordinal
          /\ j.for = job[p].for /\ j.event = e
      BY <3>1, <3>2 DEF Job, Line
    <3> HIDE DEF j
    <3> QED BY <3>1, <3>3
  <2> HIDE DEF e, j
  <2>4. Only(p) /\ Typed' /\ pc'[p] = "record" /\ job'[p] = j /\ StageOf(p)' = StageOf(p)
    BY <1>1, <1>3, <1>4, <1>5, <1>6, <2>1, <2>3, Moves
  <2> QED BY <1>1, <2>3, <2>4
<1>7. ASSUME NEW l \in {"execute", "settled"}, Goto(p, l), UNCHANGED job
      PROVE  Only(p) /\ Typed' /\ pc'[p] = l /\ job'[p] = job[p] /\ StageOf(p)' = StageOf(p)
  <2>1. aborted' = [aborted EXCEPT ![p] = aborted'[p]] /\ aborted'[p] \in BOOLEAN
    BY <1>1, Alone, Session DEF SessionTyped
  <2>2. Only(p) /\ Typed' /\ pc'[p] = l /\ job'[p] = job[p]
    BY <1>1, <1>3, <1>4, <1>5, <1>7, <2>1, Goes
  <2> QED BY <1>1, <2>2 DEF StageOf
<1>8. \/ /\ job' = [job EXCEPT ![p].event = LifecycleEvent(p, "running", "none")]
         /\ Goto(p, "record")
      \/ \E l \in {"execute", "settled"} : Goto(p, l) /\ UNCHANGED job
  BY DEF WriteState
<1>9. CASE \E l \in {"execute", "settled"} : Goto(p, l) /\ UNCHANGED job
  BY <1>1, <1>7, <1>9
<1> QED BY <1>6, <1>8, <1>9

LEMMA RetryStep ==
  ASSUME Typed, NEW p \in Proc, Retry(p)
  PROVE  /\ Only(p) /\ Typed' /\ pc'[p] = "record" /\ job'[p].event.status = "queued" /\ job'[p].try = job[p].try + 1
         /\ job'[p].ordinal = job[p].ordinal + 1 /\ StageOf(p)' = StageOf(p) /\ job'[p].call = job[p].call
<1>1. SharedTyped' /\ UNCHANGED <<calls, aborted>> /\ pc[p] \in Attempting
  BY AllKept DEF Retry, Attempting
<1>2. job[p].call > 0 /\ job[p].try + 1 \in Nat \ {0} /\ job[p].ordinal + 1 \in Nat
  BY <1>1, AtAttempt DEF Job
<1> QED BY <1>1, <1>2, Begins DEF Retry

LEMMA ReturnStep ==
  ASSUME Typed, NEW p \in Proc, Return(p)
  PROVE  Only(p) /\ Typed' /\ pc'[p] = "idle" /\ job'[p] = NoJob
BY AllKept, Finishes DEF Return

LEMMA DieStep ==
  ASSUME Typed, NEW p \in Proc, Die(p)
  PROVE  /\ Only(p) /\ Typed' /\ pc'[p] = "idle" /\ job'[p] = NoJob
         /\ deaths' = deaths + 1 /\ UNCHANGED <<cache, calls, decided>>
<1>1. UNCHANGED <<cache, calls, decided>> /\ deaths' = deaths + 1 /\ deaths < MaxDeaths /\ Finish(p)
  BY DEF Die
<1>2. LogTyped'
  <2>1. CASE UNCHANGED <<lines, tail>>
    BY <2>1 DEF Typed, SharedTyped, LogTyped
  <2>2. CASE pc[p] = "record" /\ TornAppend(job[p].event)
    BY <2>2, AtAttempt, LogSteps DEF Attempting
  <2> QED BY <2>1, <2>2 DEF Die
<1>3. lock' \in Proc \cup {NoProc} /\ deaths' \in 0 .. MaxDeaths
  BY <1>1, StageRunnerAssumption DEF Die, Typed, SharedTyped
<1>4. SharedTyped' /\ CallsKept
  BY <1>1, <1>2, <1>3 DEF Typed, SharedTyped, CallsKept
<1> QED BY <1>1, <1>4, Finishes

-----------------------------------------------------------------------------
LEMMA TypeInit == Init => Typed
<1> SUFFICES ASSUME Init PROVE Typed
  OBVIOUS
<1>1. PriorEvents \in Nat /\ MaxDeaths \in Nat
  BY StageRunnerAssumption
<1>2. Logged(lines)
  <2>1. lines = [i \in 1 .. PriorEvents |-> [stage |-> NoStage, sequence |-> i - 1]]
    BY DEF Init
  <2>2. \A i \in 1 .. PriorEvents : [stage |-> NoStage, sequence |-> i - 1] \in Other
    BY <1>1 DEF Other
  <2>3. lines \in [1 .. PriorEvents -> Other]
    BY <2>1, <2>2
  <2>4. lines \in Seq(Line) /\ Len(lines) = PriorEvents
    <3>1. lines \in [1 .. PriorEvents -> Line]
      BY <2>3 DEF Line
    <3> QED BY <1>1, <3>1
  <2>5. \A i \in 1 .. PriorEvents : lines[i] \in Other /\ lines[i].sequence = i - 1
    BY <2>1, <2>2
  <2> QED BY <1>1, <2>4, <2>5 DEF Logged
<1>3. SharedTyped
  BY <1>1, <1>2, EmptyTyped DEF Init, SharedTyped, LogTyped, Tails
<1>4. ASSUME NEW p \in Proc PROVE SessionTyped(p)
  <2>1. pc[p] = "idle" /\ job[p] = NoJob /\ snap[p] = EmptyStageState /\ aborted[p] = FALSE /\ calls = <<>>
    BY DEF Init
  <2>2. 0 \in 0 .. Len(calls) /\ "idle" \in Labels /\ "idle" \notin Attempting
    BY <2>1 DEF Labels, Attempting
  <2>3. JobFits(p)
    BY <2>1, <2>2, NoJobTyped DEF JobFits
  <2> QED BY <2>1, <2>2, <2>3, NoJobTyped, EmptyTyped DEF SessionTyped
<1> QED BY <1>3, <1>4 DEF Typed, Init

LEMMA TypeStep == Typed /\ [Next]_vars => Typed'
<1> SUFFICES ASSUME Typed, [Next]_vars PROVE Typed'
  OBVIOUS
<1>1. CASE UNCHANGED vars
  BY <1>1 DEF vars, Typed, SharedTyped, LogTyped, SessionTyped, JobFits, StageOf
<1>2. CASE DeleteCache
  BY <1>2, DeleteStep
<1>3. ASSUME NEW s \in Stage, DecideGate(s) PROVE Typed'
  BY <1>3, DecideStep
<1>4. ASSUME NEW p \in Proc, NEW s \in Stage, NEW force \in BOOLEAN, Run(p, s, force) PROVE Typed'
  BY <1>4, RunStep
<1>5. ASSUME NEW p \in Proc,
             \/ Status(p) \/ Abort(p)
             \/ ReadCache(p) \/ ReadLog(p) \/ Repair(p) \/ ReportStatus(p)
             \/ AssertClaimable(p) \/ AssignOrdinal(p)
      PROVE  Typed'
  BY <1>5, StatusStep, AbortStep, ReadCacheStep, ReadLogStep, RepairStep, ReportStep, ClaimStep, OrdinalStep
<1>6. ASSUME NEW p \in Proc,
             \/ Execute(p) \/ RecordEvent(p) \/ Degrade(p) \/ RecordRefused(p)
             \/ ReadState(p) \/ WriteState(p) \/ Retry(p) \/ Return(p) \/ Die(p)
      PROVE  Typed'
  BY <1>6, ExecuteStep, RecordStep, DegradeStep, RefusedStep, ReadStateStep, WriteStep, RetryStep, ReturnStep, DieStep
<1> QED BY <1>1, <1>2, <1>3, <1>4, <1>5, <1>6 DEF Next

LEMMA TypesHold == Typed => TypeOK
<1> SUFFICES ASSUME Typed PROVE TypeOK
  OBVIOUS
<1>1. SharedTyped /\ Logged(lines)
  BY LinesTyped DEF Typed
<1>2. \A e \in Range(lines) : e.stage \in Stage \cup {NoStage} /\ e.sequence \in Nat
  <2>1. \A e \in Range(lines) : \E i \in 1 .. Len(lines) : e = lines[i]
    BY <1>1, LoggedAt DEF Range
  <2>2. \A e \in Line : e.stage \in Stage \cup {NoStage} /\ e.sequence \in Nat
    BY DEF Line, Event, Other
  <2> QED BY <1>1, <2>1, <2>2, LoggedAt
<1>3. pc \in [Proc -> Labels] /\ aborted \in [Proc -> BOOLEAN]
  BY Session DEF Typed, SessionTyped
<1>4. \A c \in {cache} \cup Range(snap) : c \in StageState
  <2>1. \A c \in Range(snap) : \E p \in Proc : c = snap[p]
    BY DEF Range, Typed
  <2> QED BY <1>1, <2>1, Session DEF SharedTyped, SessionTyped
<1>5. \A c \in StageState : /\ c.lastEventSequence \in Nat
                            /\ \A s \in Stage : c.stages[s].status \in StageStatus \cup {Unrecorded}
  BY DEF StageState
<1> QED BY <1>1, <1>2, <1>3, <1>4, <1>5 DEF TypeOK, SharedTyped, LogTyped, Call

(* Whatever sessions interleave and die, the variables keep their types.    *)
THEOREM TypeCorrect == Spec => []TypeOK
<1>1. Spec => []Typed
  BY TypeInit, TypeStep, PTL DEF Spec
<1> QED BY <1>1, TypesHold, PTL

(***************************************************************************)
(* One session at work at a time.                                          *)
(***************************************************************************)
OneSession == \A p, q \in Proc : p = q

(* No append was torn, or one was and nothing has been written behind it:   *)
(* the next append makes the log unreadable, and if it is torn itself it    *)
(* takes back an event that the cache may hold.                             *)
Intact == tail = "clean" \/ (Readable /\ deaths <= 1)

(* The state the whole log leads to.                                        *)
Current == After(lines)[Len(lines)]

CacheAt(p) ==
  /\ pc[p] = "readLog" => snap[p] = cache
  /\ pc[p] = "repair" => snap[p] = Current
  /\ pc[p] \in {"claim", "ordinal"} => snap[p] = Current
  /\ pc[p] \in {"claim", "ordinal", "record", "execute", "settled"} => cache = Current
  /\ pc[p] \in {"readState", "writeState"} =>
       /\ Len(lines) > PriorEvents /\ job[p].event = lines[Len(lines)]
       /\ cache = After(lines)[Len(lines) - 1]
  /\ pc[p] = "writeState" => snap[p] = cache

HoldsPrefix == \E n \in PriorEvents .. Len(lines) : cache = After(lines)[n]

CacheInv ==
  /\ tail # "clean" => deaths > 0
  /\ Intact => HoldsPrefix /\ \A p \in Proc : CacheAt(p)

-----------------------------------------------------------------------------
LEMMA CacheKept ==
  ASSUME OneSession, Typed, CacheInv, NEW p \in Proc, UNCHANGED <<lines, tail, deaths>>,
         Intact => HoldsPrefix' /\ CacheAt(p)'
  PROVE  CacheInv'
<1>1. \A q \in Proc : q = p
  BY DEF OneSession
<1>2. Intact' = Intact
  BY DEF Intact, Readable
<1>3. Intact => \A q \in Proc : CacheAt(q)'
  BY <1>1
<1> QED BY <1>2, <1>3 DEF CacheInv

LEMMA SameLines ==
  ASSUME UNCHANGED lines
  PROVE  Current' = Current /\ (UNCHANGED cache => HoldsPrefix' = HoldsPrefix)
BY DEF Current, HoldsPrefix

LEMMA CurrentHeld == Typed /\ cache = Current => HoldsPrefix
<1> SUFFICES ASSUME Typed, cache = Current PROVE HoldsPrefix
  OBVIOUS
<1>1. Logged(lines) /\ PriorEvents \in Nat /\ Len(lines) \in Nat /\ PriorEvents <= Len(lines)
  BY LinesTyped, LoggedAt DEF Logged
<1> QED BY <1>1 DEF HoldsPrefix, Current

(* The log with one event more.                                             *)
LEMMA AfterMore ==
  ASSUME Typed, NEW e \in Event
  PROVE  LET more == Append(lines, Stored(e)) IN
         /\ Logged(more) /\ Len(more) = Len(lines) + 1 /\ more[Len(lines) + 1] = Stored(e)
         /\ \A i \in 1 .. Len(lines) : more[i] = lines[i]
         /\ \A n \in 0 .. Len(lines) : After(more)[n] = After(lines)[n]
<1> DEFINE more == Append(lines, Stored(e))
<1>1. Logged(lines) /\ Logged(more) /\ Len(more) = Len(lines) + 1 /\ more[Len(lines) + 1] = Stored(e)
      /\ \A i \in 1 .. Len(lines) : more[i] = lines[i]
  BY StoredIs, LinesTyped, Appended
<1> HIDE DEF more
<1>2. lines \in Seq(Line) /\ more \in Seq(Line) /\ Len(lines) \in Nat /\ Len(lines) <= Len(more)
  BY <1>1, LoggedAt
<1>3. \A n \in 0 .. Len(lines) : After(lines)[n] = After(more)[n]
  BY <1>1, <1>2, AfterSame
<1> QED BY <1>1, <1>3 DEF more

LEMMA RecordCache ==
  ASSUME OneSession, Typed, CacheInv, NEW p \in Proc, RecordEvent(p)
  PROVE  CacheInv'
<1>1. UNCHANGED <<cache, deaths>> /\ AppendLine(job[p].event) /\ pc[p] = "record" /\ pc[p] \in Attempting
  BY DEF RecordEvent, Attempting
<1>2. pc'[p] = "readState" /\ job'[p].event = Stored(job[p].event) /\ job[p].event \in Event
  BY <1>1, RecordStep, AtAttempt
<1>3. CASE tail = "clean"
  <2>1. lines' = Append(lines, Stored(job[p].event)) /\ tail' = "clean"
    BY <1>1, <1>3 DEF AppendLine
  <2>2. /\ Logged(lines') /\ Len(lines') = Len(lines) + 1 /\ lines'[Len(lines) + 1] = Stored(job[p].event)
        /\ \A n \in 0 .. Len(lines) : After(lines')[n] = After(lines)[n]
    BY <1>2, <2>1, AfterMore
  <2>3. Len(lines) \in Nat /\ PriorEvents \in Nat /\ PriorEvents <= Len(lines) /\ Logged(lines)
    BY LinesTyped, LoggedAt DEF Logged
  <2>4. Intact /\ cache = After(lines)[Len(lines)]
    BY <1>1, <1>3 DEF Intact, CacheInv, CacheAt, Current
  <2>5. cache' = After(lines')[Len(lines)] /\ Len(lines) = Len(lines') - 1
    BY <1>1, <2>2, <2>3, <2>4
  <2>6. HoldsPrefix'
    BY <2>2, <2>3, <2>5 DEF HoldsPrefix
  <2>7. CacheAt(p)'
    BY <1>2, <2>2, <2>3, <2>5 DEF CacheAt
  <2>8. \A q \in Proc : CacheAt(q)'
    BY <2>7 DEF OneSession
  <2> QED BY <2>1, <2>6, <2>8 DEF CacheInv
<1>4. CASE tail # "clean"
  <2>1. tail' = "interior" /\ deaths > 0
    BY <1>1, <1>4 DEF AppendLine, CacheInv
  <2> QED BY <1>1, <2>1 DEF CacheInv, Intact, Readable
<1> QED BY <1>3, <1>4

LEMMA DieCache ==
  ASSUME OneSession, Typed, CacheInv, NEW p \in Proc, Die(p)
  PROVE  CacheInv'
<1>1. pc'[p] = "idle" /\ deaths' = deaths + 1 /\ deaths \in Nat /\ UNCHANGED cache
  BY DieStep DEF Typed, SharedTyped
<1>2. \A q \in Proc : CacheAt(q)'
  BY <1>1 DEF CacheAt, OneSession
<1>3. CASE UNCHANGED <<lines, tail>>
  <2>1. Intact' => Intact
    BY <1>1, <1>3 DEF Intact, Readable
  <2>2. Intact' => HoldsPrefix'
    BY <1>1, <1>3, <2>1, SameLines DEF CacheInv
  <2> QED BY <1>1, <1>2, <2>2 DEF CacheInv
<1>4. CASE pc[p] = "record" /\ TornAppend(job[p].event)
  <2>1. job[p].event \in Event
    BY <1>4, AtAttempt DEF Attempting
  <2>2. CASE tail # "clean"
    <3>1. tail' = "partial"
      BY <1>4, <2>2 DEF TornAppend
    <3>2. ~Intact'
      BY <1>1, <2>2, <3>1 DEF CacheInv, Intact
    <3> QED BY <1>1, <3>2 DEF CacheInv
  <2>3. CASE tail = "clean"
    <3>1. PICK n \in PriorEvents .. Len(lines) : cache = After(lines)[n]
      BY <2>3 DEF Intact, CacheInv, HoldsPrefix
    <3>2. Len(lines) \in Nat /\ PriorEvents \in Nat
      BY LinesTyped, LoggedAt
    <3>3. CASE UNCHANGED lines
      BY <1>1, <1>2, <3>1, <3>3 DEF CacheInv, HoldsPrefix
    <3>4. CASE lines' = Append(lines, Stored(job[p].event))
      <4>1. Len(lines') = Len(lines) + 1 /\ After(lines')[n] = After(lines)[n]
        BY <2>1, <3>1, <3>2, <3>4, AfterMore
      <4>2. n \in PriorEvents .. Len(lines')
        BY <3>1, <3>2, <4>1
      <4> QED BY <1>1, <1>2, <3>1, <4>1, <4>2 DEF CacheInv, HoldsPrefix
    <3> QED BY <1>4, <2>3, <3>3, <3>4 DEF TornAppend
  <2> QED BY <2>2, <2>3
<1> QED BY <1>3, <1>4 DEF Die

LEMMA WriteCache ==
  ASSUME OneSession, Typed, CacheInv, NEW p \in Proc, WriteState(p)
  PROVE  CacheInv'
<1>1. UNCHANGED <<lines, tail, deaths>> /\ pc[p] = "writeState"
  BY DEF WriteState
<1>2. /\ cache' = ApplyLifecycleEvent(snap[p], job[p].event) /\ Typed'
      /\ pc'[p] \in {"record", "execute", "settled"}
  BY WriteStep
<1>3. Intact => cache' = Current'
  <2> SUFFICES ASSUME Intact PROVE cache' = Current'
    OBVIOUS
  <2>1. snap[p] = After(lines)[Len(lines) - 1] /\ job[p].event = lines[Len(lines)] /\ Len(lines) > PriorEvents
    BY <1>1 DEF CacheInv, CacheAt
  <2>2. Len(lines) \in 1 .. Len(lines) /\ lines \in Seq(Line)
    BY <2>1, LinesTyped, LoggedAt
  <2>3. After(lines)[Len(lines)] = ApplyLifecycleEvent(After(lines)[Len(lines) - 1], lines[Len(lines)])
    BY <2>2, AfterIs
  <2> QED BY <1>1, <1>2, <2>1, <2>3 DEF Current
<1>4. Intact => HoldsPrefix'
  <2>1. (Typed /\ cache = Current => HoldsPrefix)'
    BY CurrentHeld, PTL
  <2> QED BY <1>2, <1>3, <2>1
<1>5. Intact => CacheAt(p)'
  BY <1>2, <1>3 DEF CacheAt
<1> QED BY <1>1, <1>4, <1>5, CacheKept

LEMMA ReadLogCache ==
  ASSUME OneSession, PriorEvents > 0, Typed, CacheInv, NEW p \in Proc, ReadLog(p)
  PROVE  CacheInv'
<1>1. UNCHANGED <<lines, tail, deaths, cache>> /\ pc[p] = "readLog"
  BY DEF ReadLog
<1>2. Intact => CacheAt(p)'
  <2> SUFFICES ASSUME Intact PROVE CacheAt(p)'
    OBVIOUS
  <2>1. PICK n \in PriorEvents .. Len(lines) : cache = After(lines)[n]
    BY DEF CacheInv, HoldsPrefix
  <2>2. snap[p] = After(lines)[n]
    BY <1>1, <2>1 DEF CacheInv, CacheAt
  <2>3. /\ ReconcileStageState(lines, snap[p]) = Current
        /\ Pending(lines, snap[p]) = {} => cache = Current
    BY <2>1, <2>2, LinesTyped, Reconciled DEF Current
  <2>4. \/ pc'[p] = "idle"
        \/ /\ snap'[p] = ReconcileStageState(lines, snap[p])
           /\ pc'[p] = IF Pending(lines, snap[p]) = {} THEN job[p].for ELSE "repair"
    BY ReadLogStep
  <2>5. job[p].for \in {"status", "claim", "ordinal"}
    BY Session DEF SessionTyped, Job
  <2> QED BY <1>1, <2>3, <2>4, <2>5, SameLines DEF CacheAt
<1> QED BY <1>1, <1>2, SameLines, CacheKept DEF CacheInv

LEMMA CacheInit == Init => CacheInv
<1> SUFFICES ASSUME Init PROVE CacheInv
  OBVIOUS
<1>1. Logged(lines) /\ Len(lines) \in Nat /\ PriorEvents \in Nat /\ PriorEvents <= Len(lines)
  BY TypeInit, LinesTyped, LoggedAt DEF Logged
<1>2. After(lines)[PriorEvents] = EmptyStageState
  BY <1>1, Watermark
<1> QED BY <1>1, <1>2 DEF Init, CacheInv, CacheAt, HoldsPrefix

LEMMA CacheStep == OneSession /\ PriorEvents > 0 /\ Typed /\ CacheInv /\ [Next]_vars => CacheInv'
<1> SUFFICES ASSUME OneSession, PriorEvents > 0, Typed, CacheInv, [Next]_vars PROVE CacheInv'
  OBVIOUS
<1>1. CASE UNCHANGED vars
  BY <1>1 DEF vars, CacheInv, CacheAt, Intact, Readable, HoldsPrefix, Current
<1>2. CASE DeleteCache
  <2>1. UNCHANGED <<lines, tail, deaths, pc>> /\ cache' = EmptyStageState /\ \A p \in Proc : pc[p] = "idle"
    BY <1>2, DeleteStep DEF DeleteCache
  <2>2. Logged(lines) /\ Len(lines) \in Nat /\ PriorEvents \in Nat /\ PriorEvents <= Len(lines)
    BY LinesTyped, LoggedAt DEF Logged
  <2>3. HoldsPrefix'
    BY <2>1, <2>2, Watermark DEF HoldsPrefix
  <2>4. \A p \in Proc : CacheAt(p)'
    BY <2>1 DEF CacheAt
  <2> QED BY <2>1, <2>3, <2>4 DEF CacheInv
<1>3. ASSUME NEW s \in Stage, DecideGate(s) PROVE CacheInv'
  BY <1>3, DecideStep DEF CacheInv, CacheAt, Intact, Readable, HoldsPrefix, Current
<1>4. ASSUME NEW p \in Proc, NEW s \in Stage, NEW force \in BOOLEAN, Run(p, s, force) PROVE CacheInv'
  <2>1. UNCHANGED <<lines, tail, deaths, cache>> /\ pc'[p] = "readCache"
    BY <1>4, RunStep DEF Run
  <2>2. CacheAt(p)'
    BY <2>1 DEF CacheAt
  <2> QED BY <2>1, <2>2, SameLines, CacheKept DEF CacheInv
<1>5. ASSUME NEW p \in Proc, Status(p) \/ ReportStatus(p) \/ AssertClaimable(p) \/ RecordRefused(p) \/ Return(p)
      PROVE  CacheInv'
  <2>1. UNCHANGED <<lines, tail, deaths, cache>>
    BY <1>5 DEF Status, ReportStatus, AssertClaimable, RecordRefused, Return
  <2>2. pc'[p] \in {"readCache", "idle"}
    BY <1>5, StatusStep, ReportStep, ClaimStep, RefusedStep, ReturnStep
  <2>3. CacheAt(p)'
    BY <2>2 DEF CacheAt
  <2> QED BY <2>1, <2>3, SameLines, CacheKept DEF CacheInv
<1>6. ASSUME NEW p \in Proc, Abort(p) PROVE CacheInv'
  <2>1. UNCHANGED <<lines, tail, deaths, cache, pc, job, snap>>
    BY <1>6, AbortStep DEF Abort
  <2> QED BY <2>1 DEF CacheInv, CacheAt, Intact, Readable, HoldsPrefix, Current
<1>7. ASSUME NEW p \in Proc, ReadCache(p) PROVE CacheInv'
  <2>1. UNCHANGED <<lines, tail, deaths, cache>> /\ pc'[p] = "readLog" /\ snap'[p] = cache
    BY <1>7, ReadCacheStep DEF ReadCache
  <2>2. CacheAt(p)'
    BY <2>1 DEF CacheAt
  <2> QED BY <2>1, <2>2, SameLines, CacheKept DEF CacheInv
<1>8. ASSUME NEW p \in Proc, Repair(p) PROVE CacheInv'
  <2>1. UNCHANGED <<lines, tail, deaths>> /\ cache' = snap[p] /\ snap'[p] = snap[p] /\ pc'[p] = job[p].for /\ pc[p] = "repair" /\ Typed'
    BY <1>8, RepairStep DEF Repair
  <2>2. job[p].for \in {"status", "claim", "ordinal"}
    BY Session DEF SessionTyped, Job
  <2>3. Intact => snap[p] = Current
    BY <2>1 DEF CacheInv, CacheAt
  <2>4. Intact => CacheAt(p)'
    BY <2>1, <2>2, <2>3, SameLines DEF CacheAt
  <2>5. Intact => HoldsPrefix'
    <3>1. (Typed /\ cache = Current => HoldsPrefix)'
      BY CurrentHeld, PTL
    <3> QED BY <2>1, <2>3, <3>1, SameLines
  <2> QED BY <2>1, <2>4, <2>5, CacheKept
<1>9. ASSUME NEW p \in Proc, AssignOrdinal(p) \/ Execute(p) \/ Degrade(p) \/ Retry(p) PROVE CacheInv'
  <2>1. UNCHANGED <<lines, tail, deaths, cache>> /\ pc[p] \in {"ordinal", "record", "execute", "settled"}
    BY <1>9 DEF AssignOrdinal, Execute, Degrade, Retry
  <2>2. pc'[p] = "record"
    BY <1>9, OrdinalStep, ExecuteStep, DegradeStep, RetryStep
  <2>3. Intact => CacheAt(p)'
    BY <2>1, <2>2, SameLines DEF CacheInv, CacheAt
  <2> QED BY <2>1, <2>3, SameLines, CacheKept DEF CacheInv
<1>10. ASSUME NEW p \in Proc, ReadState(p) PROVE CacheInv'
  <2>1. UNCHANGED <<lines, tail, deaths, cache>> /\ pc[p] = "readState" /\ pc'[p] = "writeState" /\ job'[p] = job[p] /\ snap'[p] = cache
    BY <1>10, ReadStateStep DEF ReadState
  <2>2. Intact => CacheAt(p)'
    BY <2>1 DEF CacheInv, CacheAt
  <2> QED BY <2>1, <2>2, SameLines, CacheKept DEF CacheInv
<1> QED BY <1>1, <1>2, <1>3, <1>4, <1>5, <1>6, <1>7, <1>8, <1>9, <1>10, RecordCache, WriteCache, ReadLogCache, DieCache DEF Next

LEMMA CachePrefix ==
  ASSUME PriorEvents > 0, Typed, CacheInv PROVE Intact => CacheIsReplayedPrefix
<1> SUFFICES ASSUME Intact PROVE CacheIsReplayedPrefix
  OBVIOUS
<1>1. PICK n \in PriorEvents .. Len(lines) : cache = After(lines)[n]
  BY DEF CacheInv, HoldsPrefix
<1> QED BY <1>1, LinesTyped, PrefixHeld DEF CacheIsReplayedPrefix

(* The cache is what the log up to its watermark says, however many sessions *)
(* die, as long as none dies again once an append was torn (state.ts, and    *)
(* #record of runner.ts).                                                    *)
THEOREM CacheFollowsLog ==
  OneSession /\ PriorEvents > 0 /\ Spec => [](Intact => CacheIsReplayedPrefix)
<1> SUFFICES ASSUME OneSession, PriorEvents > 0 PROVE Spec => [](Intact => CacheIsReplayedPrefix)
  OBVIOUS
<1>1. Init => Typed /\ CacheInv
  BY TypeInit, CacheInit
<1>2. Typed /\ CacheInv /\ [Next]_vars => (Typed /\ CacheInv)'
  BY TypeStep, CacheStep
<1>3. Typed /\ CacheInv => (Intact => CacheIsReplayedPrefix)
  BY CachePrefix
<1> QED BY <1>1, <1>2, <1>3, PTL DEF Spec

(* With one death at most, as the run has it, that is CacheIsReplayedPrefix *)
(* in every state.                                                          *)
COROLLARY CacheFollowsLogOfOneDeath ==
  OneSession /\ PriorEvents > 0 /\ MaxDeaths <= 1 /\ Spec => []CacheIsReplayedPrefix
<1> SUFFICES ASSUME OneSession, PriorEvents > 0, MaxDeaths <= 1 PROVE Spec => []CacheIsReplayedPrefix
  OBVIOUS
<1>1. Spec => [](Intact => CacheIsReplayedPrefix)
  BY CacheFollowsLog
<1>2. Typed /\ (Intact => CacheIsReplayedPrefix) => CacheIsReplayedPrefix
  <2>1. Typed => deaths <= 1
    BY StageRunnerAssumption DEF Typed, SharedTyped
  <2> QED BY <2>1 DEF Intact, CacheIsReplayedPrefix
<1> QED BY <1>1, <1>2, TypeInit, TypeStep, PTL DEF Spec

-----------------------------------------------------------------------------
(* The places in the log of the stages' events.                             *)
Events == PriorEvents + 1 .. Len(lines)

(* Every event is of a command; an attempt has one number and a number one  *)
(* attempt.                                                                 *)
CallsNamed ==
  \A i \in Events : lines[i].call \in 1 .. Len(calls) /\ lines[i].stage = calls[lines[i].call].stage

Numbered ==
  \A i, j \in Events :
    lines[i].stage = lines[j].stage => (SameAttempt(lines[i], lines[j]) <=> lines[i].ordinal = lines[j].ordinal)

LinesInv == CallsNamed /\ Numbered /\ StartsAreLicensed

(* What the session at work knows of the log.  The command has no event     *)
(* yet; the stage may be started as it is.                                  *)
NoneYet(p) == \A i \in Events : lines[i].call # job[p].call

MayStart(p) ==
  \A i \in Events :
    LastOf(lines, Len(lines), i, StageOf(p)) =>
      /\ lines[i].status = "waiting_for_gate" => StageOf(p) \in decided
      /\ lines[i].status = "running" => Forced(p)

(* What #mayRetry asked for is on record.                                   *)
Licensed(p) ==
  job[p].try > 1 =>
    /\ job[p].try <= MaxAttempts[StageOf(p)] /\ StageOf(p) \notin NotIdempotent
    /\ \E i \in Events : /\ lines[i].stage = StageOf(p) /\ lines[i].call = job[p].call
                         /\ lines[i].try = job[p].try - 1
                         /\ lines[i].status = "failed" /\ lines[i].error = "retryable"

(* The attempt is a new one, or the latest.                                 *)
IsNew(p) ==
  \A i \in Events : /\ lines[i].call = job[p].call => lines[i].try < job[p].try
                    /\ lines[i].stage = StageOf(p) => lines[i].ordinal < job[p].ordinal

IsLatest(p) ==
  \A i \in Events :
    /\ lines[i].call = job[p].call =>
         lines[i].try <= job[p].try /\ (lines[i].try = job[p].try => lines[i].ordinal = job[p].ordinal)
    /\ lines[i].stage = StageOf(p) =>
         /\ lines[i].ordinal <= job[p].ordinal
         /\ lines[i].ordinal = job[p].ordinal => lines[i].call = job[p].call /\ lines[i].try = job[p].try

Reading == {"readCache", "readLog", "repair", "claim", "ordinal"}

JobAt(p) ==
  /\ job[p].call > 0 => job[p].call = Len(calls)
  /\ pc[p] \in Reading /\ job[p].for # "status" => NoneYet(p)
  /\ pc[p] \in Reading /\ job[p].for = "ordinal" => MayStart(p)
  /\ pc[p] = "record" /\ job[p].event.status = "queued" => IsNew(p) /\ MayStart(p) /\ Licensed(p)
  /\ pc[p] \in Attempting /\ ~(pc[p] = "record" /\ job[p].event.status = "queued") => IsLatest(p)
  /\ pc[p] = "settled" => Len(lines) > PriorEvents /\ job[p].event = lines[Len(lines)]

StartInv == LinesInv /\ (tail = "clean" => \A p \in Proc : JobAt(p))

-----------------------------------------------------------------------------
LEMMA EventsAt ==
  ASSUME Typed
  PROVE  /\ Len(lines) \in Nat /\ PriorEvents \in Nat /\ DOMAIN lines = 1 .. Len(lines)
         /\ \A i \in Events : i \in 1 .. Len(lines) /\ lines[i] \in Event /\ IsLifecycle(lines[i]) /\ lines[i].stage \in Stage
         /\ \A i \in 1 .. Len(lines) : lines[i].stage \in Stage => i \in Events
         /\ \A i \in 1 .. Len(lines) : IsLifecycle(lines[i]) => i \in Events
<1>1. Logged(lines) /\ Len(lines) \in Nat /\ PriorEvents \in Nat /\ DOMAIN lines = 1 .. Len(lines)
  BY LinesTyped, LoggedAt
<1>2. ASSUME NEW i \in Events PROVE i \in 1 .. Len(lines) /\ lines[i] \in Event /\ IsLifecycle(lines[i]) /\ lines[i].stage \in Stage
  <2>1. i \in 1 .. Len(lines) /\ i > PriorEvents
    BY <1>1 DEF Events
  <2> QED BY <1>1, <2>1, LoggedAt DEF Event
<1>3. ASSUME NEW i \in 1 .. Len(lines), lines[i].stage \in Stage PROVE i \in Events
  <2>1. ~ (i <= PriorEvents)
    BY <1>1, <1>3, LoggedAt, StageRunnerAssumption
  <2> QED BY <1>1, <2>1 DEF Events
<1> QED BY <1>1, <1>2, <1>3 DEF IsLifecycle

(* The log is kept or loses its last event; commands and decisions only     *)
(* come.                                                                    *)
LEMMA LinesOn ==
  ASSUME Typed, LinesInv, Typed', Len(lines') <= Len(lines),
         \A i \in 1 .. Len(lines') : lines'[i] = lines[i], CallsKept, decided \subseteq decided'
  PROVE  LinesInv'
<1>1. /\ Len(lines') \in Nat /\ Len(lines) \in Nat /\ PriorEvents \in Nat
      /\ DOMAIN lines = 1 .. Len(lines) /\ DOMAIN lines' = 1 .. Len(lines')
  <2>1. Len(lines') \in Nat /\ DOMAIN lines' = 1 .. Len(lines')
    <3>1. Logged(lines')
      BY DEF Typed, SharedTyped, LogTyped
    <3> QED BY <3>1, LoggedAt
  <2> QED BY <2>1, EventsAt
<1>2. \A i \in Events' : i \in Events /\ i \in 1 .. Len(lines') /\ lines'[i] = lines[i]
  BY <1>1 DEF Events
<1>3. CallsNamed'
  <2>1. Len(calls) <= Len(calls') /\ Len(calls) \in Nat /\ Len(calls') \in Nat
        /\ \A c \in 1 .. Len(calls) : calls'[c] = calls[c]
    BY CallsOn
  <2>2. \A c \in 1 .. Len(calls) : c \in 1 .. Len(calls')
    BY <2>1
  <2> QED BY <1>2, <2>1, <2>2 DEF LinesInv, CallsNamed
<1>4. Numbered'
  BY <1>2 DEF LinesInv, Numbered
<1>5. ASSUME NEW i \in DOMAIN lines', NEW j \in DOMAIN lines'
      PROVE  /\ StartsAfter(i, j, "waiting_for_gate")' => lines'[j].stage \in decided'
             /\ StartsAfter(i, j, "running")' => calls'[lines'[j].call].force
  <2>1. i \in DOMAIN lines /\ j \in DOMAIN lines /\ lines'[i] = lines[i] /\ lines'[j] = lines[j]
    BY <1>1
  <2>2. \A k \in i + 1 .. j - 1 : lines'[k] = lines[k]
    BY <1>1, <1>5
  <2>3. \A status : StartsAfter(i, j, status)' => StartsAfter(i, j, status)
    BY <2>1, <2>2 DEF StartsAfter
  <2>4. IsLifecycle(lines[j]) => calls'[lines[j].call] = calls[lines[j].call]
    <3>1. IsLifecycle(lines[j]) => j \in Events
      BY <1>1, <2>1, EventsAt
    <3> QED BY <3>1, CallsOn DEF LinesInv, CallsNamed
  <2>5. /\ StartsAfter(i, j, "waiting_for_gate") => lines[j].stage \in decided
        /\ StartsAfter(i, j, "running") => calls[lines[j].call].force
    BY <2>1 DEF LinesInv, StartsAreLicensed, OnlyClaimableStagesStart
  <2>6. StartsAfter(i, j, "running") => IsLifecycle(lines[j])
    BY DEF StartsAfter
  <2> QED BY <2>1, <2>3, <2>4, <2>5, <2>6
<1>6. ASSUME NEW j \in DOMAIN lines', IsLifecycle(lines'[j]), lines'[j].status = "queued", lines'[j].try > 1
      PROVE  /\ lines'[j].try <= MaxAttempts[lines'[j].stage] /\ lines'[j].stage \notin NotIdempotent
             /\ FailedBefore(j)'
  <2>1. j \in DOMAIN lines /\ lines'[j] = lines[j] /\ \A i \in 1 .. j - 1 : lines'[i] = lines[i]
    BY <1>1
  <2>2. lines[j].try <= MaxAttempts[lines[j].stage] /\ lines[j].stage \notin NotIdempotent /\ FailedBefore(j)
    BY <1>6, <2>1 DEF LinesInv, StartsAreLicensed, RetriesAreLicensed
  <2> QED BY <2>1, <2>2 DEF FailedBefore
<1>7. OnlyClaimableStagesStart'
  BY <1>5 DEF OnlyClaimableStagesStart
<1>8. RetriesAreLicensed'
  BY <1>6 DEF RetriesAreLicensed
<1> QED BY <1>3, <1>4, <1>7, <1>8 DEF LinesInv, StartsAreLicensed

(* The log with the event a session is about to record.                     *)
LEMMA LinesAppend ==
  ASSUME Typed, LinesInv, NEW p \in Proc, pc[p] = "record", JobAt(p), Typed',
         lines' = Append(lines, Stored(job[p].event)), UNCHANGED <<calls, decided>>
  PROVE  /\ LinesInv'
         /\ job'[p].call = job[p].call /\ job'[p].try = job[p].try /\ job'[p].ordinal = job[p].ordinal
              /\ StageOf(p)' = StageOf(p) => IsLatest(p)'
<1> DEFINE e == Stored(job[p].event)
           N == Len(lines) + 1
<1>1. /\ e.stage = StageOf(p) /\ e.call = job[p].call /\ e.try = job[p].try /\ e.ordinal = job[p].ordinal
      /\ e.status = job[p].event.status /\ e \in Event /\ job[p] \in Job
      /\ job[p].call \in 1 .. Len(calls) /\ StageOf(p) \in Stage
  BY AtAttempt, StoredIs DEF Attempting
<1>2. /\ Len(lines') = N /\ lines'[N] = e /\ \A i \in 1 .. Len(lines) : lines'[i] = lines[i]
      /\ Logged(lines') /\ DOMAIN lines' = 1 .. N
  BY AtAttempt, AfterMore, LoggedAt DEF Attempting
<1> HIDE DEF e
<1>3. /\ Len(lines) \in Nat /\ PriorEvents \in Nat /\ DOMAIN lines = 1 .. Len(lines) /\ PriorEvents <= Len(lines)
  BY EventsAt, LinesTyped DEF Logged
<1>4. /\ \A i \in Events' : i = N \/ (i \in Events /\ i \in 1 .. Len(lines) /\ lines'[i] = lines[i])
      /\ N \in Events' /\ \A i \in Events : i \in Events'
  BY <1>2, <1>3 DEF Events
<1>5. /\ \A i \in Events : lines[i].call = job[p].call =>
            lines[i].try <= job[p].try /\ (lines[i].try = job[p].try => lines[i].ordinal = job[p].ordinal)
      /\ \A i \in Events : lines[i].stage = StageOf(p) =>
            /\ lines[i].ordinal <= job[p].ordinal
            /\ lines[i].ordinal = job[p].ordinal => lines[i].call = job[p].call /\ lines[i].try = job[p].try
      /\ e.status = "queued" => MayStart(p) /\ Licensed(p)
  <2>1. CASE e.status = "queued"
    <3>1. IsNew(p) /\ MayStart(p) /\ Licensed(p)
      BY <1>1, <2>1 DEF JobAt
    <3>2. \A i \in Events : lines[i].try \in Nat /\ lines[i].ordinal \in Nat
      BY EventsAt DEF Event
    <3>3. job[p].try \in Nat /\ job[p].ordinal \in Nat
      BY <1>1 DEF Job
    <3> QED BY <3>1, <3>2, <3>3 DEF IsNew
  <2>2. CASE e.status # "queued"
    BY <1>1, <2>2 DEF JobAt, IsLatest, Attempting
  <2> QED BY <2>1, <2>2
<1>6. CallsNamed'
  <2>1. \A i \in Events' : lines'[i].call \in 1 .. Len(calls) /\ lines'[i].stage = calls[lines'[i].call].stage
    BY <1>1, <1>2, <1>4 DEF LinesInv, CallsNamed, StageOf
  <2> QED BY <2>1 DEF CallsNamed
<1>7. Numbered'
  <2> SUFFICES ASSUME NEW i \in Events', NEW j \in Events', lines'[i].stage = lines'[j].stage
               PROVE  SameAttempt(lines'[i], lines'[j]) <=> lines'[i].ordinal = lines'[j].ordinal
    BY DEF Numbered
  <2>1. ASSUME NEW k \in Events, lines[k].stage = StageOf(p)
        PROVE  /\ SameAttempt(lines[k], e) <=> lines[k].ordinal = e.ordinal
               /\ SameAttempt(e, lines[k]) <=> e.ordinal = lines[k].ordinal
    BY <1>1, <1>5, <2>1 DEF SameAttempt
  <2>2. CASE i = N /\ j = N
    BY <2>2 DEF SameAttempt
  <2>3. CASE i # N /\ j = N
    BY <1>1, <1>2, <1>4, <2>1, <2>3
  <2>4. CASE i = N /\ j # N
    BY <1>1, <1>2, <1>4, <2>1, <2>4
  <2>5. CASE i # N /\ j # N
    BY <1>4, <2>5 DEF LinesInv, Numbered
  <2> QED BY <2>2, <2>3, <2>4, <2>5
<1>8. ASSUME NEW i \in 1 .. N, NEW j \in 1 .. N
      PROVE  /\ StartsAfter(i, j, "waiting_for_gate")' => lines'[j].stage \in decided
             /\ StartsAfter(i, j, "running")' => calls[lines'[j].call].force
  <2>1. CASE ~ (i < j)
    BY <2>1 DEF StartsAfter
  <2>2. CASE i < j /\ j # N
    <3>1. i \in DOMAIN lines /\ j \in DOMAIN lines /\ lines'[i] = lines[i] /\ lines'[j] = lines[j]
          /\ \A k \in i + 1 .. j - 1 : lines'[k] = lines[k]
      BY <1>2, <1>3, <2>2
    <3>2. \A status : StartsAfter(i, j, status)' => StartsAfter(i, j, status)
      BY <3>1 DEF StartsAfter
    <3>3. /\ StartsAfter(i, j, "waiting_for_gate") => lines[j].stage \in decided
          /\ StartsAfter(i, j, "running") => calls[lines[j].call].force
      BY <3>1 DEF LinesInv, StartsAreLicensed, OnlyClaimableStagesStart
    <3> QED BY <3>1, <3>2, <3>3
  <2>3. CASE i < j /\ j = N
    <3>1. i \in 1 .. Len(lines) /\ lines'[i] = lines[i] /\ \A k \in i + 1 .. Len(lines) : k \in i + 1 .. j - 1 /\ lines'[k] = lines[k]
      BY <1>2, <1>3, <2>3
    <3>2. ASSUME NEW status, StartsAfter(i, j, status)'
          PROVE  /\ i \in Events /\ LastOf(lines, Len(lines), i, StageOf(p)) /\ lines[i].status = status
                 /\ e.status = "queued"
      <4>1. e.status = "queued" /\ lines[i].stage = StageOf(p) /\ lines[i].status = status
            /\ \A k \in i + 1 .. j - 1 : lines'[k].stage # StageOf(p)
        BY <1>1, <1>2, <2>3, <3>1, <3>2 DEF StartsAfter
      <4>2. \A k \in i + 1 .. Len(lines) : lines[k].stage # StageOf(p)
        BY <3>1, <4>1
      <4>3. i \in Events
        BY <1>1, <3>1, <4>1, EventsAt
      <4> QED BY <4>1, <4>2, <4>3 DEF LastOf
    <3>3. lines'[j].stage = StageOf(p) /\ calls[lines'[j].call].force = Forced(p)
      BY <1>1, <1>2, <2>3 DEF Forced
    <3> QED BY <1>5, <3>2, <3>3 DEF MayStart
  <2> QED BY <2>1, <2>2, <2>3
<1>9. ASSUME NEW j \in 1 .. N, IsLifecycle(lines'[j]), lines'[j].status = "queued", lines'[j].try > 1
      PROVE  /\ lines'[j].try <= MaxAttempts[lines'[j].stage] /\ lines'[j].stage \notin NotIdempotent
             /\ FailedBefore(j)'
  <2>1. CASE j # N
    <3>1. j \in DOMAIN lines /\ lines'[j] = lines[j] /\ \A i \in 1 .. j - 1 : lines'[i] = lines[i]
      BY <1>2, <1>3, <2>1
    <3>2. lines[j].try <= MaxAttempts[lines[j].stage] /\ lines[j].stage \notin NotIdempotent /\ FailedBefore(j)
      BY <1>9, <3>1 DEF LinesInv, StartsAreLicensed, RetriesAreLicensed
    <3> QED BY <3>1, <3>2 DEF FailedBefore
  <2>2. CASE j = N
    <3>1. lines'[j] = e /\ e.status = "queued" /\ job[p].try > 1
      BY <1>1, <1>2, <1>9, <2>2
    <3>2. Licensed(p)
      BY <1>5, <3>1
    <3>3. job[p].try <= MaxAttempts[StageOf(p)] /\ StageOf(p) \notin NotIdempotent
      BY <3>1, <3>2 DEF Licensed
    <3>4. PICK i \in Events : /\ lines[i].stage = StageOf(p) /\ lines[i].call = job[p].call
                              /\ lines[i].try = job[p].try - 1
                              /\ lines[i].status = "failed" /\ lines[i].error = "retryable"
      BY <3>1, <3>2 DEF Licensed
    <3>5. i \in 1 .. j - 1 /\ lines'[i] = lines[i]
      BY <1>2, <1>3, <2>2, EventsAt
    <3>6. FailedBefore(j)'
      BY <1>1, <3>1, <3>4, <3>5 DEF FailedBefore
    <3> QED BY <1>1, <3>1, <3>3, <3>6
  <2> QED BY <2>1, <2>2
<1>10. OnlyClaimableStagesStart'
  BY <1>2, <1>8 DEF OnlyClaimableStagesStart
<1>11. RetriesAreLicensed'
  BY <1>2, <1>9 DEF RetriesAreLicensed
<1>12. ASSUME job'[p].call = job[p].call, job'[p].try = job[p].try, job'[p].ordinal = job[p].ordinal, StageOf(p)' = StageOf(p)
       PROVE  IsLatest(p)'
  <2>1. job[p].try \in Nat /\ job[p].ordinal \in Nat
    BY <1>1 DEF Job
  <2> SUFFICES ASSUME NEW i \in Events'
               PROVE  /\ lines'[i].call = job[p].call =>
                            lines'[i].try <= job[p].try /\ (lines'[i].try = job[p].try => lines'[i].ordinal = job[p].ordinal)
                      /\ lines'[i].stage = StageOf(p) =>
                            /\ lines'[i].ordinal <= job[p].ordinal
                            /\ lines'[i].ordinal = job[p].ordinal => lines'[i].call = job[p].call /\ lines'[i].try = job[p].try
    BY <1>12 DEF IsLatest
  <2>2. CASE i = N
    BY <1>1, <1>2, <2>1, <2>2
  <2>3. CASE i # N
    BY <1>4, <1>5, <2>3
  <2> QED BY <2>2, <2>3
<1> QED BY <1>6, <1>7, <1>10, <1>11, <1>12 DEF LinesInv, StartsAreLicensed

LEMMA LinesKept ==
  ASSUME Typed, LinesInv, Typed', UNCHANGED lines, CallsKept, decided \subseteq decided'
  PROVE  LinesInv'
<1>1. Len(lines) \in Nat /\ DOMAIN lines = 1 .. Len(lines)
  BY EventsAt
<1> QED BY <1>1, LinesOn

LEMMA StartKept ==
  ASSUME OneSession, Typed, StartInv, NEW p \in Proc, Typed', UNCHANGED <<lines, calls>>, decided \subseteq decided',
         tail' = "clean" => tail = "clean" /\ JobAt(p)'
  PROVE  StartInv'
<1>1. LinesInv'
  BY LinesKept DEF StartInv, CallsKept
<1>2. tail' = "clean" => \A q \in Proc : JobAt(q)'
  BY DEF OneSession
<1> QED BY <1>1, <1>2 DEF StartInv

(* A session that has no command knows nothing.                             *)
LEMMA IdleJob ==
  ASSUME NEW p \in Proc, pc[p] = "idle", job[p].call = 0 PROVE JobAt(p)
BY DEF JobAt, Reading, Attempting

LEMMA IdleNow ==
  ASSUME NEW p \in Proc, pc'[p] = "idle", job'[p] = NoJob PROVE JobAt(p)'
BY NoJobTyped DEF JobAt, Reading, Attempting

(* The clause of JobAt about what is the same before and after.             *)
LEMMA SameKnown ==
  ASSUME NEW p \in Proc, UNCHANGED <<lines, calls, decided>>,
         job'[p].call = job[p].call, StageOf(p)' = StageOf(p)
  PROVE  /\ NoneYet(p)' = NoneYet(p)
         /\ MayStart(p)' = MayStart(p)
         /\ job'[p].try = job[p].try /\ job'[p].ordinal = job[p].ordinal =>
              IsNew(p)' = IsNew(p) /\ Licensed(p)' = Licensed(p) /\ IsLatest(p)' = IsLatest(p)
<1>1. Forced(p)' = Forced(p)
  BY DEF Forced
<1>2. Events' = Events
  BY DEF Events
<1>3. NoneYet(p)' = NoneYet(p) /\ MayStart(p)' = MayStart(p)
  BY <1>1, <1>2 DEF NoneYet, MayStart, LastOf
<1>4. ASSUME job'[p].try = job[p].try, job'[p].ordinal = job[p].ordinal
      PROVE  IsNew(p)' = IsNew(p) /\ Licensed(p)' = Licensed(p) /\ IsLatest(p)' = IsLatest(p)
  BY <1>2, <1>4 DEF IsNew, Licensed, IsLatest
<1> QED BY <1>3, <1>4

LEMMA RunStarts ==
  ASSUME OneSession, Typed, StartInv, NEW p \in Proc, NEW s \in Stage, NEW force \in BOOLEAN, Run(p, s, force)
  PROVE  StartInv'
<1>1. /\ Typed' /\ pc'[p] = "readCache" /\ job'[p].for = "claim"
      /\ job'[p].call = Len(calls') /\ Len(calls') = Len(calls) + 1
  BY RunStep
<1>2. UNCHANGED <<lines, tail, decided>> /\ CallsKept
  BY DEF Run, CallsKept, Call
<1>3. LinesInv'
  BY <1>1, <1>2, LinesKept DEF StartInv
<1>4. NoneYet(p)'
  <2>1. Len(calls) \in Nat /\ \A i \in Events : lines[i].call \in 1 .. Len(calls)
    BY <1>2, CallsOn DEF StartInv, LinesInv, CallsNamed
  <2>2. Events' = Events
    BY <1>2 DEF Events
  <2> QED BY <1>1, <1>2, <2>1, <2>2 DEF NoneYet
<1>5. JobAt(p)'
  BY <1>1, <1>4 DEF JobAt, Reading, Attempting
<1> QED BY <1>2, <1>3, <1>5 DEF StartInv, OneSession

LEMMA ReadsOn ==
  ASSUME OneSession, Typed, StartInv, NEW p \in Proc, Typed', UNCHANGED <<lines, calls, decided, tail>>,
         pc[p] \in Reading, pc'[p] \in Reading \cup {"status"}, job'[p] = job[p]
  PROVE  StartInv'
<1>1. StageOf(p)' = StageOf(p)
  BY DEF StageOf
<1>2. JobAt(p) => JobAt(p)'
  BY <1>1, SameKnown DEF JobAt, Reading, Attempting
<1> QED BY <1>2, StartKept DEF StartInv

LEMMA ClaimStarts ==
  ASSUME OneSession, Typed, CacheInv, StartInv, NEW p \in Proc, AssertClaimable(p)
  PROVE  StartInv'
<1>1. UNCHANGED <<lines, tail, calls, decided>> /\ pc[p] = "claim" /\ pc[p] \in Reading
  BY DEF AssertClaimable, Reading
<1>2. Typed'
  BY ClaimStep
<1>3. CASE pc'[p] = "idle" /\ job'[p] = NoJob
  BY <1>1, <1>2, <1>3, IdleNow, StartKept
<1>4. CASE /\ Claimable(snap[p], StageOf(p), Forced(p)) /\ pc'[p] = "readCache" /\ job'[p].for = "ordinal"
           /\ job'[p].call = job[p].call /\ StageOf(p)' = StageOf(p)
  <2> SUFFICES ASSUME tail = "clean" PROVE JobAt(p)'
    BY <1>1, <1>2, StartKept
  <2>1. JobAt(p) /\ snap[p] = Current /\ job[p].for = "claim" /\ job[p].call > 0
    BY <1>1, Session DEF StartInv, CacheInv, CacheAt, Intact, SessionTyped, JobFits
  <2>2. StageOf(p) \in Stage
    <3>1. job[p].call \in 1 .. Len(calls)
      BY <2>1, Session DEF SessionTyped, JobFits
    <3>2. calls[job[p].call] \in Call
      BY <3>1 DEF Typed, SharedTyped
    <3> QED BY <3>2 DEF StageOf, Call
  <2>3. MayStart(p)
    <3> SUFFICES ASSUME NEW i \in Events, LastOf(lines, Len(lines), i, StageOf(p))
                 PROVE  /\ lines[i].status = "waiting_for_gate" => StageOf(p) \in decided
                        /\ lines[i].status = "running" => Forced(p)
      BY DEF MayStart
    <3>1. i \in 1 .. Len(lines) /\ Len(lines) \in 0 .. Len(lines)
      BY EventsAt
    <3>2. Current.stages[StageOf(p)].status = lines[i].status
      BY <2>2, <3>1, LinesTyped, StatusAt DEF Current
    <3> QED BY <1>4, <2>1, <3>2 DEF Claimable
  <2>4. NoneYet(p)
    BY <1>1, <2>1 DEF JobAt
  <2> QED BY <1>1, <1>4, <2>1, <2>3, <2>4, SameKnown DEF JobAt, Reading, Attempting
<1> QED BY <1>3, <1>4, ClaimStep

LEMMA OrdinalStarts ==
  ASSUME OneSession, Typed, CacheInv, StartInv, NEW p \in Proc, AssignOrdinal(p)
  PROVE  StartInv'
<1>1. UNCHANGED <<lines, tail, calls, decided>> /\ pc[p] = "ordinal" /\ pc[p] \in Reading
  BY DEF AssignOrdinal, Reading
<1>2. /\ Typed' /\ pc'[p] = "record" /\ job'[p].event.status = "queued" /\ job'[p].try = 1
      /\ job'[p].ordinal = NextOrdinal(snap[p], StageOf(p)) /\ StageOf(p)' = StageOf(p) /\ job'[p].call = job[p].call
  BY OrdinalStep
<1> SUFFICES ASSUME tail = "clean" PROVE JobAt(p)'
  BY <1>1, <1>2, StartKept
<1>3. JobAt(p) /\ snap[p] = Current /\ job[p].for = "ordinal" /\ job[p].call > 0
  BY <1>1, Session DEF StartInv, CacheInv, CacheAt, Intact, SessionTyped, JobFits
<1>4. NoneYet(p) /\ MayStart(p)
  BY <1>1, <1>3 DEF JobAt
<1>5. StageOf(p) \in Stage
  <2>1. job[p].call \in 1 .. Len(calls)
    BY <1>3, Session DEF SessionTyped, JobFits
  <2>2. calls[job[p].call] \in Call
    BY <2>1 DEF Typed, SharedTyped
  <2> QED BY <2>2 DEF StageOf, Call
<1>6. Consistent(lines)
  BY DEF StartInv, LinesInv, Numbered, Consistent, Events
<1>7. \A i \in Events : lines[i].stage = StageOf(p) => lines[i].ordinal < job'[p].ordinal
  BY <1>2, <1>3, <1>5, <1>6, LinesTyped, OrdinalIsNew DEF Current, Events
<1>8. IsNew(p)'
  <2>1. Events' = Events
    BY <1>1 DEF Events
  <2> QED BY <1>1, <1>2, <1>4, <1>7, <2>1 DEF IsNew, NoneYet
<1>9. MayStart(p)' /\ Licensed(p)'
  BY <1>1, <1>2, <1>4, SameKnown DEF Licensed
<1> QED BY <1>1, <1>2, <1>3, <1>8, <1>9 DEF JobAt, Reading

LEMMA RetryStarts ==
  ASSUME OneSession, Typed, StartInv, NEW p \in Proc, Retry(p)
  PROVE  StartInv'
<1>1. UNCHANGED <<lines, tail, calls, decided>> /\ pc[p] = "settled" /\ MayRetry(p) /\ pc[p] \in Attempting
  BY DEF Retry, Attempting
<1>2. /\ Typed' /\ pc'[p] = "record" /\ job'[p].event.status = "queued" /\ job'[p].try = job[p].try + 1
      /\ job'[p].ordinal = job[p].ordinal + 1 /\ StageOf(p)' = StageOf(p) /\ job'[p].call = job[p].call
  BY RetryStep
<1> SUFFICES ASSUME tail = "clean" PROVE JobAt(p)'
  BY <1>1, <1>2, StartKept
<1>3. JobAt(p) /\ IsLatest(p) /\ Len(lines) > PriorEvents /\ job[p].event = lines[Len(lines)]
  BY <1>1 DEF StartInv, JobAt
<1>4. /\ job[p].event.stage = StageOf(p) /\ job[p].event.call = job[p].call /\ job[p].event.try = job[p].try
      /\ job[p].try \in Nat \ {0} /\ job[p].ordinal \in Nat /\ job[p].event.status = "failed"
      /\ job[p].event.error = "retryable" /\ StageOf(p) \notin NotIdempotent
      /\ job[p].try < MaxAttempts[StageOf(p)] /\ StageOf(p) \in Stage
  BY <1>1, AtAttempt DEF MayRetry, Job
<1>5. Len(lines) \in Events /\ Len(lines) \in Nat /\ Events' = Events
  BY <1>1, <1>3, EventsAt DEF Events
<1>6. IsNew(p)'
  <2>1. \A i \in Events : lines[i].try \in Nat /\ lines[i].ordinal \in Nat
    BY EventsAt DEF Event
  <2> QED BY <1>1, <1>2, <1>3, <1>4, <1>5, <2>1 DEF IsNew, IsLatest
<1>7. MayStart(p)
  <2> SUFFICES ASSUME NEW i \in Events, LastOf(lines, Len(lines), i, StageOf(p))
               PROVE  lines[i].status = "failed"
    BY DEF MayStart
  <2>1. i = Len(lines)
    <3>1. i \in 1 .. Len(lines)
      BY EventsAt
    <3>2. CASE i # Len(lines)
      <4>1. Len(lines) \in i + 1 .. Len(lines)
        BY <1>5, <3>1, <3>2
      <4> QED BY <1>3, <1>4, <4>1 DEF LastOf
    <3> QED BY <3>2
  <2> QED BY <1>3, <1>4, <2>1
<1>8. Licensed(p)'
  <2>1. MaxAttempts[StageOf(p)] \in Nat
    BY <1>4, StageRunnerAssumption
  <2>2. (job[p].try + 1) - 1 = job[p].try /\ job[p].try + 1 <= MaxAttempts[StageOf(p)]
    BY <1>4, <2>1
  <2> QED BY <1>1, <1>2, <1>3, <1>4, <1>5, <2>2 DEF Licensed
<1> QED BY <1>1, <1>2, <1>3, <1>6, <1>7, <1>8, SameKnown DEF JobAt, Reading

LEMMA RecordStarts ==
  ASSUME OneSession, Typed, StartInv, NEW p \in Proc, RecordEvent(p)
  PROVE  StartInv'
<1>1. UNCHANGED <<calls, decided>> /\ AppendLine(job[p].event) /\ pc[p] = "record"
  BY DEF RecordEvent
<1>2. /\ Typed' /\ pc'[p] = "readState"
      /\ job'[p].call = job[p].call /\ job'[p].try = job[p].try /\ job'[p].ordinal = job[p].ordinal
      /\ StageOf(p)' = StageOf(p)
  BY RecordStep
<1>3. CASE tail = "clean"
  <2>1. lines' = Append(lines, Stored(job[p].event)) /\ JobAt(p)
    BY <1>1, <1>3 DEF AppendLine, StartInv
  <2>2. LinesInv' /\ IsLatest(p)'
    BY <1>1, <1>2, <2>1, LinesAppend DEF StartInv
  <2>3. JobAt(p)'
    BY <1>1, <1>2, <2>1, <2>2 DEF JobAt, Reading
  <2> QED BY <2>2, <2>3 DEF StartInv, OneSession
<1>4. CASE tail # "clean"
  <2>1. tail' = "interior" /\ UNCHANGED lines
    BY <1>1, <1>4 DEF AppendLine
  <2> QED BY <1>1, <1>2, <2>1, StartKept
<1> QED BY <1>3, <1>4

LEMMA WriteStarts ==
  ASSUME OneSession, Typed, CacheInv, StartInv, NEW p \in Proc, WriteState(p)
  PROVE  StartInv'
<1>1. UNCHANGED <<lines, tail, calls, decided>> /\ pc[p] = "writeState" /\ pc[p] \in Attempting
  BY DEF WriteState, Attempting
<1>2. /\ Typed' /\ job'[p].call = job[p].call /\ job'[p].try = job[p].try /\ job'[p].ordinal = job[p].ordinal
      /\ StageOf(p)' = StageOf(p)
      /\ \/ pc'[p] = "record" /\ job'[p].event.status = "running"
         \/ pc'[p] \in {"execute", "settled"} /\ job'[p] = job[p]
  BY WriteStep
<1> SUFFICES ASSUME tail = "clean" PROVE JobAt(p)'
  BY <1>1, <1>2, StartKept
<1>3. JobAt(p) /\ Len(lines) > PriorEvents /\ job[p].event = lines[Len(lines)]
  BY <1>1 DEF StartInv, CacheInv, CacheAt, Intact
<1>4. IsLatest(p)'
  BY <1>1, <1>2, <1>3, SameKnown DEF JobAt
<1> QED BY <1>1, <1>2, <1>3, <1>4 DEF JobAt, Reading, Attempting

LEMMA AttemptStarts ==
  ASSUME OneSession, Typed, StartInv, NEW p \in Proc, Execute(p) \/ Degrade(p) \/ ReadState(p)
  PROVE  StartInv'
<1>1. UNCHANGED <<lines, tail, calls, decided>>
  BY DEF Execute, Degrade, ReadState
<1>2. /\ Typed' /\ job'[p].call = job[p].call /\ job'[p].try = job[p].try /\ job'[p].ordinal = job[p].ordinal
      /\ StageOf(p)' = StageOf(p)
  BY ExecuteStep, DegradeStep, ReadStateStep DEF StageOf, ReadState
<1> SUFFICES ASSUME tail = "clean" PROVE JobAt(p)'
  BY <1>1, <1>2, StartKept
<1>3. JobAt(p)
  BY DEF StartInv
<1>4. NoneYet(p)' = NoneYet(p) /\ MayStart(p)' = MayStart(p) /\ IsNew(p)' = IsNew(p)
      /\ Licensed(p)' = Licensed(p) /\ IsLatest(p)' = IsLatest(p)
  BY <1>1, <1>2, SameKnown
<1>5. CASE Execute(p)
  <2>1. pc[p] = "execute" /\ pc'[p] = "record" /\ job'[p].event.status \in Terminal
    BY <1>5, ExecuteStep DEF Execute
  <2> QED BY <1>1, <1>2, <1>3, <1>4, <2>1 DEF JobAt, Reading, Attempting, Terminal
<1>6. CASE Degrade(p)
  <2>1. pc[p] = "record" /\ pc'[p] = "record" /\ job'[p].event.status = job[p].event.status
    BY <1>6, DegradeStep DEF Degrade
  <2> QED BY <1>1, <1>2, <1>3, <1>4, <2>1 DEF JobAt, Reading, Attempting
<1>7. CASE ReadState(p)
  <2>1. pc[p] = "readState" /\ pc'[p] = "writeState"
    BY <1>7, ReadStateStep DEF ReadState
  <2> QED BY <1>1, <1>2, <1>3, <1>4, <2>1 DEF JobAt, Reading, Attempting
<1> QED BY <1>5, <1>6, <1>7

LEMMA DieStarts ==
  ASSUME OneSession, Typed, StartInv, NEW p \in Proc, Die(p)
  PROVE  StartInv'
<1>1. pc'[p] = "idle" /\ job'[p] = NoJob /\ Typed' /\ UNCHANGED <<calls, decided>>
  BY DieStep
<1>2. \A q \in Proc : JobAt(q)'
  BY <1>1, IdleNow DEF OneSession
<1>3. LinesInv'
  <2>1. CASE UNCHANGED lines
    BY <1>1, <2>1, LinesKept DEF StartInv, CallsKept
  <2>2. CASE tail = "clean" /\ pc[p] = "record" /\ lines' = Append(lines, Stored(job[p].event))
    BY <1>1, <2>2, LinesAppend DEF StartInv
  <2>3. CASE tail = "whole" /\ lines' = SubSeq(lines, 1, Len(lines) - 1)
    <3>1. Len(lines) > PriorEvents /\ Logged(lines) /\ Len(lines) \in Nat
      BY <2>3, LinesTyped, LoggedAt DEF Typed, SharedTyped, LogTyped
    <3>2. Len(lines') = Len(lines) - 1 /\ \A i \in 1 .. Len(lines') : lines'[i] = lines[i]
      BY <2>3, <3>1, Shortened
    <3> QED BY <1>1, <3>1, <3>2, LinesOn DEF StartInv, CallsKept
  <2> QED BY <2>1, <2>2, <2>3 DEF Die, TornAppend
<1> QED BY <1>2, <1>3 DEF StartInv

LEMMA StartInit == Init => StartInv
<1> SUFFICES ASSUME Init PROVE StartInv
  OBVIOUS
<1>1. Len(lines) = PriorEvents /\ PriorEvents \in Nat /\ DOMAIN lines = 1 .. Len(lines) /\ Typed
  <2>1. Typed /\ PriorEvents \in Nat
    BY TypeInit, StageRunnerAssumption
  <2>2. DOMAIN lines = 1 .. PriorEvents
    BY DEF Init
  <2>3. DOMAIN lines = 1 .. Len(lines) /\ Len(lines) \in Nat /\ PriorEvents <= Len(lines)
    BY <2>1, LinesTyped, LoggedAt DEF Logged
  <2>4. \A m, n \in Nat : m <= n /\ 1 .. m = 1 .. n => m = n
    <3> SUFFICES ASSUME NEW m \in Nat, NEW n \in Nat, m < n PROVE n \in 1 .. n /\ n \notin 1 .. m
      OBVIOUS
    <3> QED OBVIOUS
  <2> QED BY <2>1, <2>2, <2>3, <2>4
<1>2. \A i \in Events : FALSE
  BY <1>1 DEF Events
<1>3. \A i \in DOMAIN lines : ~IsLifecycle(lines[i])
  BY <1>1, <1>2, EventsAt
<1>4. LinesInv
  BY <1>2, <1>3 DEF LinesInv, CallsNamed, Numbered, StartsAreLicensed, OnlyClaimableStagesStart,
                   RetriesAreLicensed, StartsAfter
<1>5. \A p \in Proc : JobAt(p)
  BY IdleJob, NoJobTyped DEF Init
<1> QED BY <1>4, <1>5 DEF StartInv

LEMMA StartStep == OneSession /\ Typed /\ CacheInv /\ StartInv /\ [Next]_vars => StartInv'
<1> SUFFICES ASSUME OneSession, Typed, CacheInv, StartInv, [Next]_vars PROVE StartInv'
  OBVIOUS
<1>0. Typed'
  BY TypeStep
<1>1. CASE UNCHANGED vars
  <2>1. LinesInv'
    BY <1>0, <1>1, LinesKept DEF vars, StartInv, CallsKept
  <2>2. ASSUME NEW p \in Proc PROVE JobAt(p)' = JobAt(p)
    BY <1>1, SameKnown DEF vars, JobAt, StageOf
  <2> QED BY <1>1, <2>1, <2>2 DEF vars, StartInv
<1>2. CASE DeleteCache
  <2>1. UNCHANGED <<lines, tail, calls, decided, pc, job>>
    BY <1>2, DeleteStep
  <2>2. LinesInv'
    BY <1>0, <2>1, LinesKept DEF StartInv, CallsKept
  <2>3. ASSUME NEW p \in Proc PROVE JobAt(p)' = JobAt(p)
    BY <2>1, SameKnown DEF JobAt, StageOf
  <2> QED BY <2>1, <2>2, <2>3 DEF StartInv
<1>3. ASSUME NEW s \in Stage, DecideGate(s) PROVE StartInv'
  <2>1. UNCHANGED <<lines, tail, calls, pc, job>> /\ decided \subseteq decided'
    BY <1>3, DecideStep
  <2>2. LinesInv'
    BY <1>0, <2>1, LinesKept DEF StartInv, CallsKept
  <2>3. ASSUME NEW p \in Proc, JobAt(p) PROVE JobAt(p)'
    <3>1. MayStart(p) => MayStart(p)'
      BY <2>1 DEF MayStart, LastOf, Events, StageOf, Forced
    <3> QED BY <2>1, <2>3, <3>1 DEF JobAt, NoneYet, IsNew, Licensed, IsLatest, Events, StageOf
  <2> QED BY <2>1, <2>2, <2>3 DEF StartInv
<1>4. ASSUME NEW p \in Proc, NEW s \in Stage, NEW force \in BOOLEAN, Run(p, s, force) PROVE StartInv'
  BY <1>4, RunStarts
<1>5. ASSUME NEW p \in Proc, ReportStatus(p) \/ RecordRefused(p) \/ Return(p)
      PROVE  StartInv'
  <2>1. UNCHANGED <<lines, tail, calls, decided>>
    BY <1>5 DEF ReportStatus, RecordRefused, Return
  <2>2. pc'[p] = "idle" /\ job'[p] = NoJob
    BY <1>5, ReportStep, RefusedStep, ReturnStep
  <2> QED BY <1>0, <2>1, <2>2, IdleNow, StartKept
<1>6. ASSUME NEW p \in Proc, Status(p) PROVE StartInv'
  <2>1. UNCHANGED <<lines, tail, calls, decided, job>> /\ pc[p] = "idle" /\ pc'[p] = "readCache" /\ job[p] = NoJob
    BY <1>6, StatusStep, Session DEF Status, SessionTyped, JobFits
  <2>2. JobAt(p)'
    BY <2>1, NoJobTyped DEF JobAt, Reading, Attempting
  <2> QED BY <1>0, <2>1, <2>2, StartKept
<1>7. ASSUME NEW p \in Proc, Abort(p) PROVE StartInv'
  <2>1. UNCHANGED <<lines, tail, calls, decided, pc, job>>
    BY <1>7, AbortStep DEF Abort
  <2>2. JobAt(p)' = JobAt(p)
    BY <2>1, SameKnown DEF JobAt, StageOf
  <2> QED BY <1>0, <2>1, <2>2, StartKept DEF StartInv
<1>8. ASSUME NEW p \in Proc, ReadCache(p) \/ Repair(p) PROVE StartInv'
  <2>1. UNCHANGED <<lines, tail, calls, decided>> /\ pc[p] \in Reading
    BY <1>8 DEF ReadCache, Repair, Reading
  <2>2. job'[p] = job[p] /\ pc'[p] \in Reading \cup {"status"}
    BY <1>8, ReadCacheStep, RepairStep, Session DEF SessionTyped, Job, Reading
  <2> QED BY <1>0, <2>1, <2>2, ReadsOn
<1>9. ASSUME NEW p \in Proc, ReadLog(p) PROVE StartInv'
  <2>1. UNCHANGED <<lines, tail, calls, decided>> /\ pc[p] \in Reading
    BY <1>9 DEF ReadLog, Reading
  <2>2. CASE pc'[p] = "idle" /\ job'[p] = NoJob
    BY <1>0, <2>1, <2>2, IdleNow, StartKept
  <2>3. CASE job'[p] = job[p] /\ pc'[p] \in {job[p].for, "repair"}
    <3>1. pc'[p] \in Reading \cup {"status"}
      BY <2>3, Session DEF SessionTyped, Job, Reading
    <3> QED BY <1>0, <2>1, <2>3, <3>1, ReadsOn
  <2> QED BY <1>9, <2>2, <2>3, ReadLogStep
<1> QED BY <1>1, <1>2, <1>3, <1>4, <1>5, <1>6, <1>7, <1>8, <1>9, ClaimStarts, OrdinalStarts, RetryStarts,
           RecordStarts, WriteStarts, AttemptStarts, DieStarts DEF Next

LEMMA Ordinals == Typed /\ LinesInv => OrdinalsAreUnique
<1> SUFFICES ASSUME Typed, LinesInv, NEW i \in DOMAIN lines, NEW j \in DOMAIN lines,
                    IsLifecycle(lines[i]), IsLifecycle(lines[j]),
                    lines[i].stage = lines[j].stage, lines[i].ordinal = lines[j].ordinal
             PROVE  SameAttempt(lines[i], lines[j])
  BY DEF OrdinalsAreUnique
<1>1. i \in Events /\ j \in Events
  BY EventsAt
<1> QED BY <1>1 DEF LinesInv, Numbered

(* However many sessions die and whatever they leave of an append, no two    *)
(* attempts of a stage are given one number (#nextOrdinal), and none starts  *)
(* but by a decision, by force or by the retry policy (#assertClaimable,     *)
(* #mayRetry).                                                               *)
LEMMA StartsHold == OneSession /\ PriorEvents > 0 /\ Spec => [](OrdinalsAreUnique /\ StartsAreLicensed)
<1> SUFFICES ASSUME OneSession, PriorEvents > 0 PROVE Spec => [](OrdinalsAreUnique /\ StartsAreLicensed)
  OBVIOUS
<1>1. Init => Typed /\ CacheInv /\ StartInv
  BY TypeInit, CacheInit, StartInit
<1>2. Typed /\ CacheInv /\ StartInv /\ [Next]_vars => (Typed /\ CacheInv /\ StartInv)'
  BY TypeStep, CacheStep, StartStep
<1>3. Typed /\ StartInv => OrdinalsAreUnique /\ StartsAreLicensed
  BY Ordinals DEF StartInv, LinesInv
<1> QED BY <1>1, <1>2, <1>3, PTL DEF Spec

(* With one session at work on a Run at a time, and however many of them die  *)
(* or tear an append, no attempt number of a stage is given out twice         *)
(* (#nextOrdinal).                                                            *)
THEOREM NumbersUnique == OneSession /\ PriorEvents > 0 /\ Spec => []OrdinalsAreUnique
BY StartsHold, PTL

(* And an attempt is started only where a decision, a force or the retry      *)
(* policy licenses it (#assertClaimable, #mayRetry).                          *)
THEOREM StartsLicensed == OneSession /\ PriorEvents > 0 /\ Spec => []StartsAreLicensed
BY StartsHold, PTL
=============================================================================
