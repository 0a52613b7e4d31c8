------------------------- MODULE MCArtifactRegistry -------------------------
(* ArtifactRegistry for TLC, in two parts.  In the first, a take that cannot *)
(* be made again and a mix are registered, superseded, archived and deleted  *)
(* by two processes, in working files that both change.  In the second,      *)
(* three artifacts are only registered: a master two steps from the take it  *)
(* came from, or one step and two, and below a cycle of take and mix.        *)
EXTENDS ArtifactRegistry, TLC

VARIABLE part

Paths == Permutations(Path)

MCDerivations ==
  [a \in Artifact |-> CASE a = "take" -> {{}, {"b2"}}
                        [] a = "mix" -> {{"b1"}}
                        [] a = "master" -> {{"b1", "b2"}, {"b2"}}]

Custody == INSTANCE ArtifactRegistry WITH
             Bytes <- {"b1", "b2"}, MaxWrites <- 2,
             Derivations <- [a \in Artifact |-> CASE a = "take" -> {{}}
                                                   [] a = "mix" -> {{"b1"}}
                                                   [] a = "master" -> {}]

(* All artifacts pass through one working file.                              *)
Registers ==
  \/ \E p \in Path : Write(p) /\ \A q \in Path \ {p} : files[q] = Absent
  \/ \E s \in Archivers : Add(s) \/ \E a \in Artifact, p \in Path : Register(s, a, p)

MCInit ==
  \/ part = "custody" /\ Custody!Init
  \/ part = "lineage" /\ Init

MCNext ==
  /\ \/ part = "custody" /\ Custody!Next
     \/ part = "lineage" /\ Registers
  /\ UNCHANGED part

MCSpec == MCInit /\ [][MCNext]_<<part, vars>>
=============================================================================
