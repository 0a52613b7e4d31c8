--------------------------- MODULE MCSpendService ---------------------------
(* SpendService for TLC, in two instances, and what uses it.  In the first,  *)
(* two processes reserve and dispatch two effects under a grant that has     *)
(* room for one and a half; in the second, three processes whose clocks      *)
(* agree race for one effect and may change their minds before the dispatch. *)
(* The third is a stage that calls Workers and agents through Invocations.   *)
EXTENDS SpendService, Invocations, TLC

CONSTANTS
  Racers      \* the processes of the second instance, those of the first among them

VARIABLES
  part   \* which instance a behaviour is of

ASSUME StageAssumption == InvocationsAssumption

mcVars == <<part, vars, invocationVars>>

(* One effect is always estimated alike. *)
Estimates == [e \in Effect |-> IF e \in Identified THEN {2} ELSE {1, 2}]

(* No two clocks read the same millisecond. *)
Distinct == [p \in Proc |-> p]

Raced == CHOOSE e \in Identified : TRUE

Race == INSTANCE SpendService WITH
          Proc <- Racers, Effect <- {Raced}, Instant <- [p \in Racers |-> 0],
          Amount <- [e \in {Raced} |-> {1, 2}], Charge <- {1}, MaxTotal <- 2, MaxPerRequest <- 2,
          Capped <- {}, Identified <- {Raced}, Releasing <- TRUE

(* The third keeps the variables of the others as they are, and conversely.  *)
MCInit ==
  /\ \/ part = "dispatch" /\ Init
     \/ part = "race" /\ Race!Init
     \/ part = "stage" /\ Init
  /\ InvocationsInit
  /\ part # "stage" => scope = "stage"

(* Every attempt is over, and every call.                                    *)
IsOver ==
  /\ ~running /\ ordinal = Attempts
  /\ \A c \in Call : at[c] \in {"idle", "done"}
  /\ UNCHANGED invocationVars

MCNext ==
  /\ \/ part = "dispatch" /\ Next /\ UNCHANGED invocationVars
     \/ part = "race" /\ Race!Next /\ UNCHANGED invocationVars
     \/ part = "stage" /\ (InvocationsNext \/ IsOver) /\ UNCHANGED vars
  /\ UNCHANGED part

MCSpec == MCInit /\ [][MCNext]_mcVars

(* A permutation of the racers that moves those of the first instance among  *)
(* themselves is one of them as well, and no other relates two of its states. *)
Symmetry == Permutations(Res) \cup Permutations(Racers)

-----------------------------------------------------------------------------
(* What holds of the first instance only: in the second, callers announce    *)
(* one dispatch in the same millisecond, or release under a live call.       *)

(* SpendService: no second provider call under one reservation; Invocations: *)
(* none for one billing key, by any call or attempt of the stage.            *)
NoSecondCall ==
  /\ part = "dispatch" => DispatchedOnce
  /\ part = "stage" => BilledOnce

(* SpendService: every provider charge is on record or still authorized;     *)
(* Invocations: nothing is settled or released but over one charge on record *)
(* or none at all, and an undeclared charge fails its call.                  *)
NoChargeIsLost ==
  /\ part = "dispatch" => ChargeAccounted
  /\ part = "stage" => ChargesAreKept

(* SpendService: a provider call under way holds its authorization;          *)
(* Invocations: and is within what its stage declared, and on its record.    *)
CallsAreCovered ==
  /\ part = "dispatch" => LiveCallIsCovered
  /\ part = "stage" => CallsAreDeclared
=============================================================================
