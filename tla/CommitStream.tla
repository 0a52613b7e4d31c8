---------------------------- MODULE CommitStream ----------------------------
(***************************************************************************)
(* What a grant's reservation stream promises its writers: an append-only   *)
(* sequence of batches and one atomic conditional append.  A caller that    *)
(* read the stream at revision e either places its batch right after it, or *)
(* learns that the stream moved on, or that its transitions were there.     *)
(* The promise ends when the machine loses power.                           *)
(* (The interface SpendReservationStore of reservation-store.ts.)           *)
(***************************************************************************)
EXTENDS Naturals, Sequences

CONSTANTS Writer, Batch

VARIABLES
  failed,    \* the machine has lost power
  log,       \* the committed batches
  asked,     \* writers with a compareAndAppend outstanding
  batch,     \* what each writer proposes
  expected,  \* the revision it read
  won,       \* whether this call committed its batch
  answer     \* how its latest call ended

vars == <<failed, log, asked, batch, expected, won, answer>>

Committed == UNION {log[r] : r \in 1 .. Len(log)}

Init ==
  /\ failed = FALSE
  /\ log = <<>>
  /\ asked = {}
  /\ batch \in [Writer -> Batch]
  /\ expected = [w \in Writer |-> 0]
  /\ won = [w \in Writer |-> FALSE]
  /\ answer = [w \in Writer |-> "none"]

Ask(w) ==
  /\ w \notin asked
  /\ asked' = asked \cup {w}
  /\ \E b \in Batch, e \in 0 .. Len(log) :
       batch' = [batch EXCEPT ![w] = b] /\ expected' = [expected EXCEPT ![w] = e]
  /\ won' = [won EXCEPT ![w] = FALSE]
  /\ answer' = [answer EXCEPT ![w] = "none"]
  /\ UNCHANGED log

Commit(w) ==
  /\ w \in asked
  /\ Len(log) = expected[w]
  /\ log' = Append(log, batch[w])
  /\ won' = [won EXCEPT ![w] = TRUE]
  /\ UNCHANGED <<asked, batch, expected, answer>>

Justified(w, a) ==
  CASE a = "appended"        -> won[w]
    [] a = "already_present" -> batch[w] \subseteq Committed
    [] a = "conflict"        -> ~won[w] /\ Len(log) # expected[w]
    [] a = "refused"         -> ~won[w] /\ ~(batch[w] \subseteq Committed)
    [] a = "lock_lost"       -> ~won[w]
    [] a = "none"            -> TRUE

Answer(w, a) ==
  /\ w \in asked
  /\ Justified(w, a)
  /\ asked' = asked \ {w}
  /\ answer' = [answer EXCEPT ![w] = a]
  /\ UNCHANGED <<log, batch, expected, won>>

Request(w) ==
  \/ Ask(w) \/ Commit(w)
  \/ \E a \in {"none", "appended", "already_present", "conflict", "refused", "lock_lost"} :
       Answer(w, a)

Next ==
  \/ ~failed /\ ~failed' /\ \E w \in Writer : Request(w)
  \/ failed'

Spec == Init /\ [][Next]_vars
=============================================================================
