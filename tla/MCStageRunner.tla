--------------------------- MODULE MCStageRunner ---------------------------
(* Instances of StageRunner for TLC.                                       *)
EXTENDS StageRunner

CONSTANTS s1, s2

(* s1 may be retried once, s2 never although its policy allows it.         *)
MCMaxAttempts == [s \in Stage |-> 2]
=============================================================================
