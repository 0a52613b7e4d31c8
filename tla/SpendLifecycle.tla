--------------------------- MODULE SpendLifecycle ---------------------------
(***************************************************************************)
(* The lifecycle of one spend reservation (aldus-core/src/schema/           *)
(* reservation.ts).  A history is the sequence of the transitions of one    *)
(* reservation in the order they were committed; a transition is [kind, at, *)
(* ...].  Everything else about a reservation is derived from its history.  *)
(***************************************************************************)
EXTENDS Naturals, Sequences

Terminal == {"settled", "released"}

Kind == Terminal \cup
  {"reserved", "dispatch_prepared", "dispatch_identified", "billing_unknown",
   "investigation_recorded", "reconciled"}

AllowedAfter ==
  [none                   |-> {"reserved"},
   reserved               |-> {"dispatch_prepared", "dispatch_identified", "billing_unknown"} \cup Terminal,
   dispatch_prepared      |-> {"dispatch_identified", "billing_unknown"} \cup Terminal,
   dispatch_identified    |-> {"billing_unknown"} \cup Terminal,
   billing_unknown        |-> {"investigation_recorded", "reconciled"} \cup Terminal,
   investigation_recorded |-> {"investigation_recorded", "reconciled"} \cup Terminal,
   reconciled             |-> {"investigation_recorded", "reconciled"} \cup Terminal,
   settled                |-> {},
   released               |-> {}]

(* Mutant of IsLegalSuccessor: every order of transitions is accepted. *)
AnySuccessor(previous, next) == TRUE

IsLegalSuccessor(previous, next) == next \in AllowedAfter[previous]

LastKind(h) == IF h = <<>> THEN "none" ELSE h[Len(h)].kind

Has(h, kind) == \E i \in 1 .. Len(h) : h[i].kind = kind

(* reduceReservations: the last transition that carries a status decides;   *)
(* the others are annotations.                                              *)
Status(h) ==
  IF h = <<>> THEN "none"
  ELSE LET statuses == {i \in 1 .. Len(h) : h[i].kind \in Terminal \cup {"billing_unknown"}}
       IN  IF statuses = {} THEN "reserved"
           ELSE h[CHOOSE i \in statuses : \A j \in statuses : j <= i].kind

(* reservationIsActive *)
Active(h) == Status(h) \in {"reserved", "billing_unknown"}
=============================================================================
