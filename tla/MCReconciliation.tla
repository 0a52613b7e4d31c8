-------------------------- MODULE MCReconciliation --------------------------
(* Reconciliation for TLC. *)
EXTENDS Reconciliation, TLC

Decide(id, resolution, obs) ==
  [id |-> id, resolution |-> resolution, obs |-> obs, attributed |-> TRUE]

(* A decision for each observation, a contradiction of one of them under    *)
(* the same identity, for the whole reservation, that does not say who      *)
(* charged, and an abandoned investigation.                                 *)
Several ==
  {Decide("a", "settled_with_amount", 1),
   Decide("b", "released_as_uncharged", 2),
   [Decide("b", "settled_with_amount", NoObs) EXCEPT !.attributed = FALSE],
   Decide("c", "investigation_ended", NoObs)}

(* Two operators, one observation each. *)
OnePerObs ==
  {Decide("a", "settled_with_amount", 1), Decide("b", "settled_with_amount", 2)}

OperatorSymmetry == Permutations(Operator)
=============================================================================
