------------------------------ MODULE Knowledge ------------------------------
(***************************************************************************)
(* Knowledge packs (packages/aldus-core, knowledge/): a manifest is parsed, *)
(* placed on the precedence ladder and weighed against the other packs; who *)
(* holds a claim, which claims are contested and which dependencies make no *)
(* load order is reported.  What is read here is a set of packs that grows  *)
(* and is handed over in one order or another.                              *)
(*                                                                         *)
(* A decoded manifest is a record with the kind of its version ("text",     *)
(* "number" or "missing"), its schema version, pack id, authority, scope (a *)
(* function on the dimensions it declares), explicit precedence or          *)
(* NoPrecedence, the packs it depends on, in order, the claim keys it       *)
(* provides and the resources it lists.                                     *)
(***************************************************************************)
EXTENDS SchemaVersion, SequencesExt, TLC

CONSTANTS
  Documents,    \* manifests as decoded that an adopter may supply
  Rank,         \* Rank[id]: where localeCompare puts a pack id
  Ladder,       \* the precedence ladder: a sequence of sets of dimensions
  Context,      \* the scope in force: a function on dimensions
  Resources,    \* resources that exist
  NoPrecedence,
  MaxPacks

(* Precedences are integers, and localeCompare tells the pack ids apart.     *)
ASSUME KnowledgeAssumption ==
  /\ Ladder \in Seq(Range(Ladder))
  /\ \A doc \in Documents :
       /\ {"packId", "precedence", "dependencies"} \subseteq DOMAIN doc
       /\ Rank[doc.packId] \in Nat /\ doc.precedence \in Int \cup {NoPrecedence}
       /\ doc.dependencies \in Seq(Range(doc.dependencies))
  /\ \A doc, other \in Documents : Rank[doc.packId] = Rank[other.packId] => doc.packId = other.packId

VARIABLES
  supplied,  \* the manifests handed over, in order
  refused    \* documents that did not parse

packVars == <<supplied, refused>>

Stride == 100
AuthorityRank == [normative |-> 3, advisory |-> 2, example |-> 1, deprecated |-> 0]

(* normalizeManifestDocument: a number is accepted where a version is text. *)
Normalize(doc) == IF doc.version = "number" THEN [doc EXCEPT !.version = "text"] ELSE doc

(* parsePackManifestDocument, after normalisation: of the schema version    *)
(* only the form is asked, so that a manifest of another major is accepted.  *)
Parses(doc) ==
  LET normal == Normalize(doc)
  IN  normal.version = "text" /\ normal.schema # Malformed /\ normal.authority \in DOMAIN AuthorityRank

-----------------------------------------------------------------------------
(* placeOnLadder: the highest tier one of the pack's dimensions is on.      *)
TierIndex(pack) == Max({i \in DOMAIN Ladder : Ladder[i] \cap DOMAIN pack.scope # {}} \cup {1}) - 1

UnknownDimensions(pack) == DOMAIN pack.scope \ UNION Range(Ladder)

EffectivePrecedence(pack) ==
  IF pack.precedence = NoPrecedence THEN TierIndex(pack) * Stride ELSE pack.precedence

(* packApplies and isResolvable.                                            *)
Applies(pack) ==
  \A d \in DOMAIN pack.scope : d \in DOMAIN Context /\ Context[d] = pack.scope[d]
Resolvable(pack) == pack.authority # "deprecated"

(* Mutant of ComparePackStrength: nothing breaks a tie, so that the order   *)
(* in which equals were handed over decides.                                *)
CompareAsHandedOver(a, b) ==
  IF AuthorityRank[a.authority] # AuthorityRank[b.authority]
  THEN AuthorityRank[b.authority] - AuthorityRank[a.authority]
  ELSE EffectivePrecedence(b) - EffectivePrecedence(a)

(* comparePackStrength: negative when a comes first.                        *)
ComparePackStrength(a, b) ==
  IF AuthorityRank[a.authority] # AuthorityRank[b.authority]
  THEN AuthorityRank[b.authority] - AuthorityRank[a.authority]
  ELSE IF EffectivePrecedence(a) # EffectivePrecedence(b)
  THEN EffectivePrecedence(b) - EffectivePrecedence(a)
  ELSE Rank[a.packId] - Rank[b.packId]

(* Array.sort: the positions in I one after the other, by a linear order    *)
(* on them given as a set of pairs.                                         *)
Sorted(I, order) ==
  [n \in 1 .. Cardinality(I) |-> CHOOSE i \in I : Cardinality({j \in I : <<j, i>> \in order}) = n]

(* The packs at the positions in I, strongest first; the sort is stable.    *)
Strongest(packs, I) ==
  LET order == {pair \in I \X I :
                  LET c == ComparePackStrength(packs[pair[1]], packs[pair[2]])
                  IN  c < 0 \/ (c = 0 /\ pair[1] <= pair[2])}
  IN  [n \in 1 .. Cardinality(I) |-> packs[Sorted(I, order)[n]]]

(* resolveKnowledgePacks: what participates, and what of it claims a key.   *)
InForce(packs) == {i \in DOMAIN packs : Applies(packs[i]) /\ Resolvable(packs[i])}

Applicable(packs) == Strongest(packs, InForce(packs))

Contenders(packs, key) == Strongest(packs, {i \in InForce(packs) : key \in packs[i].provides})

Claimed(packs) == UNION {packs[i].provides : i \in InForce(packs)}

Winner(packs, key) == Contenders(packs, key)[1]

(* Mutant of NormativeTie: equal tiers are compared, not precedence.        *)
NormativeTieOfTiers(packs, key) ==
  {n \in DOMAIN Contenders(packs, key) :
    LET p == Contenders(packs, key)[n]
    IN  /\ p.authority = "normative" /\ Winner(packs, key).authority = "normative"
        /\ TierIndex(p) = TierIndex(Winner(packs, key))}

NormativeTie(packs, key) ==
  {n \in DOMAIN Contenders(packs, key) :
    LET p == Contenders(packs, key)[n]
    IN  /\ p.authority = "normative" /\ Winner(packs, key).authority = "normative"
        /\ EffectivePrecedence(p) = EffectivePrecedence(Winner(packs, key))}

Conflicts(packs) == {key \in Claimed(packs) : Cardinality(NormativeTie(packs, key)) > 1}

Claims(packs) ==
  [key \in Claimed(packs) |->
    [holder |-> Winner(packs, key).packId,
     overridden |-> [n \in 1 .. Len(Contenders(packs, key)) - 1 |-> Contenders(packs, key)[n + 1].packId]]]

-----------------------------------------------------------------------------
(* findDuplicates, findDependencyIssues and findResourceIssues.             *)
Ids(packs) == {p.packId : p \in Range(packs)}
Duplicates(packs) ==
  {packs[i].packId : i \in {j \in DOMAIN packs : \E k \in DOMAIN packs \ {j} : packs[k].packId = packs[j].packId}}
Unmet(packs) == {id \in UNION {Range(p.dependencies) : p \in Range(packs)} : id \notin Ids(packs)}
Unfound(packs) == (UNION {p.resources : p \in Range(packs)}) \ Resources

(* byId: of several packs of one id, the last handed over.                  *)
ById(packs, id) ==
  packs[CHOOSE i \in DOMAIN packs :
          packs[i].packId = id /\ \A j \in DOMAIN packs : packs[j].packId = id => j <= i]

(* The dependencies of a pack that were supplied, as it lists them.         *)
Edges(packs, id) ==
  LET listed == ById(packs, id).dependencies
      I      == {i \in DOMAIN listed : listed[i] \in Ids(packs)}
  IN  [n \in 1 .. Cardinality(I) |-> listed[Sorted(I, {pair \in I \X I : pair[1] <= pair[2]})[n]]]

Enter(s, id) == [s EXCEPT !.open = @ \cup {id}, !.stack = Append(@, [packId |-> id, next |-> 1])]

(* One turn of findCycles' loop: leave a pack whose dependencies are all    *)
(* looked at, report a dependency that is on the path, enter a new one.     *)
(* The path is the packs on the stack.                                      *)
Turn(packs, s) ==
  LET top   == Len(s.stack)
      frame == s.stack[top]
      edge  == Edges(packs, frame.packId)[frame.next]
      moved == [s EXCEPT !.stack[top].next = @ + 1]
      cycle == {s.stack[i].packId : i \in {j \in 1 .. top : \E k \in 1 .. j : s.stack[k].packId = edge}}
  IN  IF frame.next > Len(Edges(packs, frame.packId))
      THEN [s EXCEPT !.open = @ \ {frame.packId}, !.done = @ \cup {frame.packId}, !.stack = Front(@)]
      ELSE IF edge \in s.done THEN moved
      ELSE IF edge \in s.open THEN [moved EXCEPT !.cycles = @ \cup {cycle}]
      ELSE Enter(moved, edge)

(* The roots are walked in a fixed order, those that are done passed over.  *)
(* The code's compares code units; which order it is decides which packs a  *)
(* cycle is reported from, not whether there is one.                        *)
NextRoot(packs, s) ==
  CHOOSE id \in Ids(packs) \ s.done : \A other \in Ids(packs) \ s.done : Rank[id] <= Rank[other]

Onward(packs, s) ==
  IF s.stack # <<>> THEN Turn(packs, s)
  ELSE IF Ids(packs) \subseteq s.done THEN s ELSE Enter(s, NextRoot(packs, s))

(* Each pack is entered and left once and each of its edges looked at once. *)
Turns(packs) == UNION {{id} \X (0 .. Len(Edges(packs, id)) + 1) : id \in Ids(packs)}

FindCycles(packs) ==
  LET none == [open |-> {}, done |-> {}, stack |-> <<>>, cycles |-> {}]
      walk[n \in 0 .. Cardinality(Turns(packs))] == IF n = 0 THEN none ELSE Onward(packs, walk[n - 1])
  IN  walk[Cardinality(Turns(packs))].cycles

IsResolutionClean(packs) ==
  /\ Conflicts(packs) = {} /\ Duplicates(packs) = {} /\ Unmet(packs) = {}
  /\ FindCycles(packs) = {} /\ Unfound(packs) = {}

(* toKnowledgePackRefs: what a Run's manifest keeps.                        *)
Snapshot(packs) ==
  [i \in DOMAIN Applicable(packs) |->
    LET p == Applicable(packs)[i]
    IN  [packId |-> p.packId, authority |-> p.authority, scope |-> p.scope,
         precedence |-> EffectivePrecedence(p)]]

-----------------------------------------------------------------------------
PackInit == supplied = <<>> /\ refused = {}

(* A document is parsed and its manifest handed over with the others.       *)
Supply(doc) ==
  /\ Len(supplied) < MaxPacks
  /\ IF Parses(doc) THEN supplied' = Append(supplied, Normalize(doc)) /\ UNCHANGED refused
     ELSE refused' = refused \cup {doc} /\ UNCHANGED supplied

(* The adopter's loader lists the same packs in another order.              *)
Reorder(i) ==
  /\ i + 1 \in DOMAIN supplied
  /\ supplied' = [supplied EXCEPT ![i] = supplied[i + 1], ![i + 1] = supplied[i]]
  /\ UNCHANGED refused

PackNext == (\E doc \in Documents : Supply(doc)) \/ (\E i \in 1 .. MaxPacks : Reorder(i))

PackSpec == PackInit /\ [][PackNext]_packVars

-----------------------------------------------------------------------------
(* A Run's pack snapshot is compared and hashed (resolve.ts, toKnowledge-   *)
(* PackRefs; precedence.ts, comparePackStrength): handing over the same     *)
(* packs in another order changes neither it nor who holds a claim, unless  *)
(* two packs have one id, and that is reported either way.                  *)
OrderIsImmaterial ==
  [][(\E i \in 1 .. MaxPacks : Reorder(i)) =>
       \/ Duplicates(supplied) # {} /\ ~IsResolutionClean(supplied')
       \/ Snapshot(supplied') = Snapshot(supplied) /\ Claims(supplied') = Claims(supplied)]_packVars

(* Whoever acts on a clean resolution acts on no silent choice: among the   *)
(* packs in force that claim a key no two normative ones are as strong as   *)
(* the holder, nothing in force outranks it, and each pack can be loaded    *)
(* after all it depends on.                                                 *)
CleanIsUnambiguous ==
  IsResolutionClean(supplied) =>
    LET inForce(key) == {p \in Range(supplied) : Applies(p) /\ Resolvable(p) /\ key \in p.provides}
        byRank(p) == <<AuthorityRank[p.authority], EffectivePrecedence(p)>>
    IN  /\ \A key \in DOMAIN Claims(supplied) :
             LET holder == ById(supplied, Claims(supplied)[key].holder)
             IN  \A p \in inForce(key) \ {holder} :
                   \/ byRank(p)[1] < byRank(holder)[1]
                   \/ /\ byRank(p)[1] = byRank(holder)[1]
                      /\ \/ byRank(p)[2] < byRank(holder)[2]
                         \/ byRank(p)[2] = byRank(holder)[2] /\ p.authority # "normative"
        /\ \A C \in (SUBSET Ids(supplied)) \ {{}} :
             \E id \in C : Range(ById(supplied, id).dependencies) \cap C = {}
=============================================================================
