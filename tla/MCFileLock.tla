----------------------------- MODULE MCFileLock -----------------------------
(* FileLock for TLC: sessions as model values, all on one host or each on   *)
(* its own.                                                                 *)
EXTENDS FileLock, TLC

CONSTANTS
  OneHost,   \* whether the sessions share a machine
  Alike      \* a set of interchangeable sessions

Symmetry == Permutations(Id) \cup Permutations(Alike)
HostOf == [p \in Proc |-> IF OneHost THEN "h" ELSE p]
=============================================================================
