--------------------------- MODULE ArtifactLineage ---------------------------
(***************************************************************************)
(* Where an artifact came from (packages/aldus-artifact-registry,           *)
(* lineage.ts): edges are digests, so that bytes registered again under a   *)
(* new id keep what was derived from them.  The order in which the code     *)
(* lists what it reaches is left out; what it reaches, and what it reports  *)
(* as a cycle, is not.                                                      *)
(***************************************************************************)
EXTENDS Integers, Sequences, FiniteSets

CONSTANTS
  Artifact,  \* artifact ids
  Bytes,     \* the digests content may have
  NoRecord

Known(records) == {a \in Artifact : records[a] # NoRecord}

(* Mutant of ByDigest: of the records of one digest, one is kept.           *)
ByDigestOne(records, b) ==
  LET all == {a \in Known(records) : records[a].bytes = b}
  IN  IF all = {} THEN {} ELSE {CHOOSE a \in all : TRUE}

ByDigest(records, b) == {a \in Known(records) : records[a].bytes = b}

(* inputsOf and the step of ancestorsOf.                                    *)
StepUp(records, a) == UNION {ByDigest(records, b) : b \in records[a].inputs}

(* consumersOf and the step of descendantsOf.                               *)
StepDown(records, a) == {c \in Known(records) : records[a].bytes \in records[c].inputs}

(* Mutant of Traverse: one wave, what is next to the start.                 *)
TraverseOnce(start, next) == next[start] \ {start}

(* #traverse: breadth first, each node once; the start is not reported.     *)
(* The frontier is empty after as many waves as there are artifacts.         *)
Traverse(start, next) ==
  LET wave[n \in 0 .. Cardinality(Artifact)] ==
        IF n = 0 THEN [visited |-> {start}, frontier |-> {start}]
        ELSE LET found == (UNION {next[a] : a \in wave[n - 1].frontier}) \ wave[n - 1].visited
             IN  [visited |-> wave[n - 1].visited \cup found, frontier |-> found]
  IN  wave[Cardinality(Artifact)].visited \ {start}

Ancestors(records, a) ==
  Traverse(a, [c \in Artifact |-> IF c \in Known(records) THEN StepUp(records, c) ELSE {}])

Descendants(records, a) ==
  Traverse(a, [c \in Artifact |-> IF c \in Known(records) THEN StepDown(records, c) ELSE {}])

(* unresolvedDigests: inputs on the way up that nobody ever registered.     *)
Unresolved(records, a) ==
  {b \in UNION {records[c].inputs : c \in {a} \cup Ancestors(records, a)} :
     ByDigest(records, b) = {}}

(* #findCycles: depth first, a node met again while it is on the path; what *)
(* is finished is not entered again.  A frame of the path is a node and the  *)
(* neighbours still to visit.  Which nodes are reported depends on the order *)
(* of the edges, here that of CHOOSE; whether any is does not.               *)
Entered(next, s, a) == [s EXCEPT !.path = Append(@, [node |-> a, todo |-> next[a]])]

Visit(next, s) ==
  LET top   == Len(s.path)
      frame == s.path[top]
      edge  == CHOOSE b \in frame.todo : TRUE
      taken == [s EXCEPT !.path[top].todo = @ \ {edge}]
  IN  IF s.path = <<>> THEN s
      ELSE IF frame.todo = {}
      THEN [s EXCEPT !.path = SubSeq(@, 1, top - 1), !.finished = @ \cup {frame.node}]
      ELSE IF edge \in s.finished THEN taken
      ELSE IF \E i \in 1 .. top : s.path[i].node = edge THEN [taken EXCEPT !.cycles = @ \cup {edge}]
      ELSE Entered(next, taken, edge)

(* Each node is left once, and each of its edges taken once.                 *)
FindCycles(start, next) ==
  LET none  == [path |-> <<>>, finished |-> {}, cycles |-> {}]
      turns == Cardinality(Artifact \X Artifact) + Cardinality(Artifact)
      search[n \in 0 .. turns] == IF n = 0 THEN Entered(next, none, start) ELSE Visit(next, search[n - 1])
  IN  search[turns].cycles
=============================================================================
