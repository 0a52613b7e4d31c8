----------------------------- MODULE GateEngine -----------------------------
(***************************************************************************)
(* Gates over content that keeps changing (packages/aldus-gate-engine):     *)
(* decisions are recorded against the digests of what a gate binds, and a   *)
(* gate's state is derived afresh from the log whenever it is asked for.    *)
(*                                                                         *)
(* The log is only ever read for the latest decision of a gate, so that is  *)
(* what is kept.  A decision binds what subjectsFor returned before it was  *)
(* appended; only what it binds matters to anyone, not when it is appended, *)
(* so reading and appending are one step.                                   *)
(***************************************************************************)
EXTENDS Integers, Sequences, FiniteSets

CONSTANTS
  Gate,        \* gate ids
  Registry,    \* the order GateRegistry.list returns them in
  DependsOn,   \* DependsOn[g]: gates whose invalidation invalidates g
  Enforced,    \* gates whose enforcement is "blocking", not advisory
  HumanOnly,   \* gates that only a human may decide
  Binds,       \* Binds[g]: the subject keys g binds
  Grants,      \* Grants[g]: the authorities an approval of g confers
  Lasting,     \* gates whose approvals may be recorded as not expiring
  Key,         \* subject keys
  Values,      \* Values[k]: the digests k's value may have
  Missing,     \* the subjects provider supplies nothing for a key
  Verdicts     \* Verdicts[g]: the kinds of decision that are taken on g

ASSUME GateAssumption ==
  /\ Registry \in Seq(Gate) /\ \A g \in Gate : \E i \in DOMAIN Registry : Registry[i] = g
  /\ DependsOn \in [Gate -> SUBSET Gate]
  /\ Enforced \subseteq Gate /\ HumanOnly \subseteq Gate /\ Lasting \subseteq Gate
  /\ Binds \in [Gate -> (SUBSET Key) \ {{}}]
  /\ DOMAIN Values = Key /\ \A k \in Key : Missing \notin Values[k]
  /\ Verdicts \in [Gate -> SUBSET {"approved", "rejected", "changes_requested", "waived"}]

(* GateRegistry.from refuses a cycle.                                       *)
ASSUME AcyclicAssumption ==
  \A S \in SUBSET Gate : S # {} => \E g \in S : DependsOn[g] \cap S = {}

VARIABLES
  content,  \* content[k]: the digest of k's current value
  latest    \* latest[g]: the last decision recorded for g

gates == <<content, latest>>

ActorKind == {"human", "agent"}

(* GateDecision.subjectHashes and toSubjectHashes: the digests of the keys  *)
(* g binds, as a multiset; which key a digest belongs to is not kept.       *)
SubjectHashes(g, value) ==
  LET supplied == {k \in Binds[g] : value[k] # Missing}
  IN  [h \in {value[k] : k \in supplied} |-> Cardinality({k \in supplied : value[k] = h})]

NoDecision == [verdict |-> "none", subjects |-> <<>>, expires |-> TRUE]

GateInit ==
  /\ content = [k \in Key |-> Missing]
  /\ latest = [g \in Gate |-> NoDecision]

(* A stage produces a subject, or the adopter edits it, under the gates.    *)
Edit(k) ==
  /\ \E h \in Values[k] \ {content[k]} : content' = [content EXCEPT ![k] = h]
  /\ UNCHANGED latest

(* GateEngine.decide: refuses subjects that do not cover the gate, an actor *)
(* it does not permit, and a waiver that would not expire.                  *)
Decide(g, kind, verdict, expires) ==
  /\ \A k \in Binds[g] : content[k] # Missing
  /\ g \in HumanOnly => kind = "human"
  /\ verdict = "waived" => expires
  /\ ~expires => g \in Lasting
  /\ latest' = [latest EXCEPT ![g] =
                  [verdict |-> verdict, subjects |-> SubjectHashes(g, content),
                   expires |-> expires]]
  /\ UNCHANGED content

-----------------------------------------------------------------------------
(* detectDrift: the current multiset differs from the approved one.         *)
Drifted(g) == latest[g].subjects # SubjectHashes(g, content)

(* #evaluateOne: a gate's state from its own decision.                      *)
OwnState(g) ==
  LET d == latest[g]
  IN  IF d.verdict = "none" THEN "pending"
      ELSE IF d.verdict \in {"rejected", "changes_requested"} THEN d.verdict
      ELSE IF Drifted(g) /\ d.expires THEN "stale"
      ELSE IF d.verdict = "waived" THEN "waived" ELSE "satisfied"

Passing == {"satisfied", "waived"}

(* #applyCascade: from the gates that block on their own account, passes    *)
(* over the registry in its order, each gate seeing what the pass has done  *)
(* so far; at most one pass more than there are gates.                      *)
Visit(depends, enforced, blocking, g) ==
  IF g \in enforced /\ depends[g] \cap blocking # {} THEN blocking \cup {g} ELSE blocking

Pass(order, depends, enforced, blocking) ==
  LET last[n \in 0 .. Len(order)] ==
        [seen \in SUBSET Gate |->
           IF n = 0 THEN seen
           ELSE last[n - 1][Visit(depends, enforced, seen, order[Len(order) - n + 1])]]
  IN  last[Len(order)][blocking]

(* Mutant of Cascade: only what a gate depends on directly is looked at.    *)
CascadeDirect(order, depends, enforced, broken) == broken

Cascade(order, depends, enforced, broken) ==
  LET passes[n \in 0 .. Len(order) + 1] ==
        [seen \in SUBSET Gate |->
           IF n = 0 THEN seen ELSE passes[n - 1][Pass(order, depends, enforced, seen)]]
  IN  passes[Len(order) + 1][broken]

CurrentlyBlocking ==
  Cascade(Registry, DependsOn, Enforced, {g \in Enforced : OwnState(g) \notin Passing})

(* evaluateWith: a broken decision of the gate's own keeps its name.        *)
StateBehind(g, blocking) ==
  IF DependsOn[g] \cap blocking = {} THEN OwnState(g)
  ELSE IF OwnState(g) \in {"stale", "rejected", "changes_requested"} THEN OwnState(g)
  ELSE "blocked_upstream"

State(g) == StateBehind(g, CurrentlyBlocking)

(* GateEngine.authorize: some gate that grants it stands approved.          *)
Authorized(authority) ==
  \E g \in Gate :
    authority \in Grants[g] /\ State(g) = "satisfied" /\ latest[g].verdict = "approved"

GateNext ==
  \/ \E k \in Key : Edit(k)
  \/ \E g \in Gate, kind \in ActorKind, expires \in BOOLEAN :
       \E verdict \in Verdicts[g] : Decide(g, kind, verdict, expires)

GateTypeOK ==
  /\ \A k \in Key : content[k] \in Values[k] \cup {Missing}
  /\ \A g \in Gate : /\ latest[g].verdict \in Verdicts[g] \cup {"none"}
                     /\ latest[g].expires \in BOOLEAN
                     /\ DOMAIN latest[g].subjects \subseteq UNION {Values[k] : k \in Binds[g]}

-----------------------------------------------------------------------------
(* An approval authorizes only while what was approved is still there:      *)
(* whoever holds an authority holds it from the last decision of a gate, an *)
(* approval of exactly the digests the gate's subjects have now (or one     *)
(* recorded as not expiring), and on every path of enforced gates upstream  *)
(* of it each gate was approved likewise, or waived for digests it still    *)
(* has: a bypassed check never outlives what it was bypassed for.  The      *)
(* reference is the transitive closure; the code iterates.                  *)
Upstream(g) ==
  LET from[n \in 0 .. Len(Registry)] ==
        IF n = 0 THEN DependsOn[g] \cap Enforced
        ELSE from[n - 1] \cup ((UNION {DependsOn[u] : u \in from[n - 1]}) \cap Enforced)
  IN  from[Len(Registry)]

Stands(g) ==
  \/ latest[g].verdict = "approved" /\ (Drifted(g) => ~latest[g].expires)
  \/ latest[g].verdict = "waived" /\ ~Drifted(g)

AuthorityIsEarned ==
  \A g \in Gate : \A a \in Grants[g] :
    (\A f \in Gate \ {g} : a \notin Grants[f]) =>
      (Authorized(a) <=> /\ latest[g].verdict = "approved" /\ Stands(g)
                         /\ \A u \in Upstream(g) : Stands(u))
=============================================================================
