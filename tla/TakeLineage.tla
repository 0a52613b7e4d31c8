---------------------------- MODULE TakeLineage ----------------------------
(***************************************************************************)
(* What is read off a list of takes (packages/aldus-tts-ledger): the order  *)
(* in which a segment's takes replaced one another, and whether a human has *)
(* accepted one.                                                            *)
(*                                                                         *)
(* A list of takes is a sequence of records with an id, the segment, the    *)
(* attempt, the id of the take it supersedes (or NoTake) and the verdict of *)
(* a human ("none" before there is one).  A take is named by its position   *)
(* in the list; 0 is no take.                                               *)
(***************************************************************************)
EXTENDS SequencesExt

CONSTANT NoTake

OfSegment(takes, segment) == {i \in DOMAIN takes : takes[i].segment = segment}

(* byId: which of P is the take that takes[i] supersedes; there may be none. *)
Before(takes, P, i) ==
  LET held == {j \in P : takes[j].id = takes[i].supersedes}
  IN  IF held = {} THEN 0 ELSE CHOOSE j \in held : TRUE

Heads(takes, P) == {i \in P : \A j \in P : takes[j].supersedes # takes[i].id}

(* walkFrom: i, what it supersedes, and so on back, then 0.                 *)
Chain(takes, P, i) ==
  LET back[n \in 0 .. Len(takes)] ==
        IF n = 0 THEN i ELSE IF back[n - 1] = 0 THEN 0 ELSE Before(takes, P, back[n - 1])
  IN  back

(* After as many steps as there are takes a chain has ended, or it loops.   *)
Loops(takes, P) == \E i \in P : Chain(takes, P, i)[Len(takes)] # 0

(* Mutant of Placed: what two later takes superseded is listed twice.       *)
PlacedAgain(ordered, i) == IF i = 0 THEN ordered ELSE Append(ordered, i)

Placed(ordered, i) == IF i = 0 \/ i \in ToSet(ordered) THEN ordered ELSE Append(ordered, i)

(* Mutant of Place: the chain is left newest first.                         *)
PlaceNewestFirst(takes, P, ordered, i) ==
  LET chain == Chain(takes, P, i)
      place[n \in 0 .. Len(takes)] == IF n = 0 THEN ordered ELSE Placed(place[n - 1], chain[n - 1])
  IN  place[Len(takes)]

(* A chain joins what is ordered already, oldest first, each take once.     *)
Place(takes, P, ordered, i) ==
  LET chain == Chain(takes, P, i)
      place[n \in 0 .. Len(takes)] == IF n = 0 THEN ordered ELSE Placed(place[n - 1], chain[Len(takes) - n])
  IN  place[Len(takes)]

(* Where a walk starts: from the heads as they are listed, then from what   *)
(* no head led to, by attempt.                                              *)
NextStart(takes, P, ordered) ==
  LET left  == P \ ToSet(ordered)
      heads == left \cap Heads(takes, P)
  IN  IF heads # {} THEN CHOOSE i \in heads : \A j \in heads : i <= j
      ELSE CHOOSE i \in left : \A j \in left :
             \/ takes[i].attempt < takes[j].attempt
             \/ takes[i].attempt = takes[j].attempt /\ i <= j

(* orderChain: walks, until each take of P has its place.                   *)
OrderChain(takes, P) ==
  LET order[n \in 0 .. Len(takes)] ==
        IF n = 0 THEN <<>>
        ELSE IF P \subseteq ToSet(order[n - 1]) THEN order[n - 1]
        ELSE Place(takes, P, order[n - 1], NextStart(takes, P, order[n - 1]))
  IN  order[Len(takes)]

IsAccepted(t) == t.verdict = "accepted"

(* segmentsAwaitingAcceptance: no take of the segment is accepted.          *)
AwaitsAcceptance(takes, segment) == \A i \in DOMAIN takes : takes[i].segment = segment => ~IsAccepted(takes[i])
=============================================================================
