----------------------------- MODULE MCWorkflow -----------------------------
(* Workflow for TLC: a script is drafted, reviewed at a gate and then read   *)
(* out for money, behind a gate that waits for the first.  Candidate graphs: *)
(* no edges and no gates said; both said, with the gate the reading needs;   *)
(* one naming a gate nobody registered; a cycle; and a predecessor the graph *)
(* does not have.                                                            *)
EXTENDS Workflow

Said(st, after, requires) ==
  [stage |-> st, after |-> after, declares |-> TRUE, requires |-> requires]
Unsaid(st, after) ==
  [stage |-> st, after |-> after, declares |-> FALSE, requires |-> <<>>]

MCCandidates ==
  {<<Unsaid("draft", {}), Unsaid("read", {})>>,
   <<Said("draft", {}, <<>>), Said("read", {"draft"}, <<"take">>)>>,
   <<Said("draft", {}, <<>>), Said("read", {"draft"}, <<"script", "ghost">>)>>,
   <<Said("draft", {"read"}, <<>>), Said("read", {"draft"}, <<>>)>>,
   <<Unsaid("read", {"edit"})>>}

Undeclared == [declared |-> FALSE, gates |-> <<>>]
MCDefinitionGates == [st \in Stage |-> Undeclared]
MCRequests == {Default, {"read"}}
MCProduces == [st \in Stage |-> IF st = "draft" THEN {"text"} ELSE {}]
MCAsks == [st \in Stage |-> IF st = "draft" THEN {"script"} ELSE {}]

MCRegistry == <<"take", "script">>
MCDependsOn == [g \in Gate |-> IF g = "take" THEN {"script"} ELSE {}]
MCBinds == [g \in Gate |-> {"text"}]
MCGrants == [g \in Gate |-> {}]
MCValues == [k \in Key |-> {"h1", "h2"}]
MCVerdicts ==
  [g \in Gate |-> {"approved", IF g = "take" THEN "changes_requested" ELSE "rejected", "waived"}]
=============================================================================
