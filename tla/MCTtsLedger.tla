---------------------------- MODULE MCTtsLedger ----------------------------
(* TtsLedger for TLC, in three instances.  In the first, two processes, one  *)
(* of them a person's, work on two segments under one approval of a plan, or *)
(* of another one; in the second, two gateways work on one segment while the *)
(* plan is recorded and approved again, so that grants follow one another;   *)
(* in the third, two people record three takes, so that one take may be      *)
(* superseded by two.                                                       *)
EXTENDS TtsLedger

VARIABLE part

Symmetry == Permutations(Scope) \cup Permutations(Segment)

Only == CHOOSE segment \in Segment : TRUE

Again == INSTANCE TtsLedger WITH
           Segment <- {Only}, Operator <- {}, Outcome <- {"charged", "unconfirmed", "free"},
           Local <- {}, Verdict <- {}, MaxDecisions <- 2, MaxPlans <- 2

People == INSTANCE TtsLedger WITH
            Operator <- Session, Outcome <- {}, Local <- {}, Verdict <- {},
            MaxDecisions <- 0, MaxTakes <- 3

MCInit ==
  \/ part = "approved once" /\ Init
  \/ part = "people's takes" /\ People!Init
  \/ part = "approved again" /\ Again!Init

MCNext ==
  /\ \/ part = "approved once" /\ Next
     \/ part = "people's takes" /\ People!Next
     \/ part = "approved again" /\ Again!Next
  /\ UNCHANGED part

MCSpec == MCInit /\ [][MCNext]_<<part, vars>>
=============================================================================
