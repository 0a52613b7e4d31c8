-------------------------- MODULE ReservationStore --------------------------
(***************************************************************************)
(* FileSpendReservationStore (aldus-file-store/src/reservation-store.ts)    *)
(* for one grant: commit files numbered by revision, installed by link(),   *)
(* which refuses to replace an existing name.                               *)
(*                                                                         *)
(* The directory is the function `dir' from the revisions on disk to the    *)
(* batches in them, a sequence exactly while it has no gap.  A commit file  *)
(* is written and synced under a private name first, so it is visible whole *)
(* or not at all and never changes; a read of the directory is one step.    *)
(* The lock around the body is not modelled as exclusion, which the store   *)
(* does not rely on; losing it can turn any answer into LOCK_LOST.          *)
(***************************************************************************)
EXTENDS Naturals, Sequences

CONSTANTS
  Writer,       \* callers of compareAndAppend
  Batch,        \* what they may propose: sets of transitions [id, body]
  MaxRevision,  \* bound: no call starts at this revision
  Leased        \* TRUE when a LockManager is configured

ASSUME BatchAssumption == \A b \in Batch : b # {} /\ \A t, u \in b : t.id = u.id => t = u
ASSUME BoundAssumption == MaxRevision \in Nat
ASSUME FlagAssumption == Leased \in BOOLEAN

VARIABLES
  dir,       \* dir[r]: the batch of commit file r
  synced,    \* revisions whose directory entry a power loss cannot undo
  outage,    \* history: the machine has lost power
  pc,        \* where each caller is
  batch,     \* what it proposes
  expected,  \* the revision it read before
  answer,    \* how its latest call ended
  won,       \* history: whether the latest call linked its commit file
  appended   \* history: batches a caller was told it appended

caller == <<pc, batch, expected, won>>
told == <<answer, appended>>
vars == <<dir, synced, outage, caller, told>>

Revisions == DOMAIN dir

Gap == \E r \in Revisions : \E s \in 1 .. r : s \notin Revisions

Committed == UNION {dir[r] : r \in Revisions}

(* Mutant of Clashes: rule 2 is dropped. *)
ClashesIgnored(b) == FALSE

(* #checkIdentities, rule 2 and rule 1. *)
Clashes(b) == \E t \in b, u \in Committed : t.id = u.id /\ t # u
AllPresent(b) == b \subseteq Committed

Answers(w, a) ==
  /\ pc' = [pc EXCEPT ![w] = "idle"]
  /\ answer' = [answer EXCEPT ![w] = a]
  /\ appended' = IF a = "appended" THEN appended \cup {batch[w]} ELSE appended

(* withLock returns the body's answer, or finds the lease gone. *)
Returns(w, a) ==
  \/ Answers(w, a)
  \/ /\ Leased
     /\ pc' = [pc EXCEPT ![w] = "recheck"]
     /\ UNCHANGED told

Init ==
  /\ dir = <<>>
  /\ synced = {}
  /\ outage = FALSE
  /\ pc = [w \in Writer |-> "idle"]
  /\ batch \in [Writer -> Batch]
  /\ expected = [w \in Writer |-> 0]
  /\ answer = [w \in Writer |-> "none"]
  /\ won = [w \in Writer |-> FALSE]
  /\ appended = {}

(* readGrant: the revision a caller computes its proposal from. *)
ReadGrant(w, b) ==
  /\ pc[w] = "idle"
  /\ ~Gap
  /\ Len(dir) < MaxRevision
  /\ batch' = [batch EXCEPT ![w] = b]
  /\ expected' = [expected EXCEPT ![w] = Len(dir)]
  /\ pc' = [pc EXCEPT ![w] = "check"]
  /\ won' = [won EXCEPT ![w] = FALSE]
  /\ answer' = [answer EXCEPT ![w] = "none"]
  /\ UNCHANGED <<dir, synced, outage, appended>>

(* A retry of the same call: same transitions, same expected revision. *)
Retry(w) ==
  /\ pc[w] = "idle"
  /\ answer[w] # "none"
  /\ pc' = [pc EXCEPT ![w] = "check"]
  /\ won' = [won EXCEPT ![w] = FALSE]
  /\ answer' = [answer EXCEPT ![w] = "none"]
  /\ UNCHANGED <<dir, synced, outage, batch, expected, appended>>

(* commit(): #readCommits refuses a stream with a gap ... *)
CheckCorrupt(w) ==
  /\ pc[w] = "check"
  /\ Gap
  /\ Answers(w, "corrupt")
  /\ UNCHANGED <<dir, synced, outage, batch, expected, won>>

(* ... then the decision order. *)
CheckRefused(w) ==
  /\ pc[w] = "check"
  /\ ~Gap
  /\ Clashes(batch[w])
  /\ Answers(w, "refused")
  /\ UNCHANGED <<dir, synced, outage, batch, expected, won>>

CheckPresent(w) ==
  /\ pc[w] = "check"
  /\ ~Gap
  /\ ~Clashes(batch[w])
  /\ AllPresent(batch[w])
  /\ Returns(w, "already_present")
  /\ UNCHANGED <<dir, synced, outage, batch, expected, won>>

CheckStale(w) ==
  /\ pc[w] = "check"
  /\ ~Gap
  /\ ~Clashes(batch[w])
  /\ ~AllPresent(batch[w])
  /\ Len(dir) # expected[w]
  /\ Returns(w, "conflict")
  /\ UNCHANGED <<dir, synced, outage, batch, expected, won>>

CheckCurrent(w) ==
  /\ pc[w] = "check"
  /\ ~Gap
  /\ ~Clashes(batch[w])
  /\ ~AllPresent(batch[w])
  /\ Len(dir) = expected[w]
  /\ pc' = [pc EXCEPT ![w] = "link"]
  /\ UNCHANGED <<dir, synced, outage, batch, expected, won, told>>

(* Mutants of Link: the number is one too high; rename() instead of link(). *)
LinkSkipping(w) ==
  /\ pc[w] = "link"
  /\ expected[w] + 2 \notin Revisions
  /\ dir' = [r \in Revisions \cup {expected[w] + 2} |->
               IF r = expected[w] + 2 THEN batch[w] ELSE dir[r]]
  /\ won' = [won EXCEPT ![w] = TRUE]
  /\ pc' = [pc EXCEPT ![w] = "sync"]
  /\ UNCHANGED <<synced, outage, batch, expected, told>>

LinkReplacing(w) ==
  /\ pc[w] = "link"
  /\ dir' = [r \in Revisions \cup {expected[w] + 1} |->
               IF r = expected[w] + 1 THEN batch[w] ELSE dir[r]]
  /\ won' = [won EXCEPT ![w] = TRUE]
  /\ pc' = [pc EXCEPT ![w] = "sync"]
  /\ UNCHANGED <<synced, outage, batch, expected, told>>

(* #install: link() takes the name after the revision that was read ... *)
Link(w) ==
  /\ pc[w] = "link"
  /\ expected[w] + 1 \notin Revisions
  /\ dir' = [r \in Revisions \cup {expected[w] + 1} |->
               IF r = expected[w] + 1 THEN batch[w] ELSE dir[r]]
  /\ won' = [won EXCEPT ![w] = TRUE]
  /\ pc' = [pc EXCEPT ![w] = "sync"]
  /\ UNCHANGED <<synced, outage, batch, expected, told>>

(* ... or finds it taken, and reads the directory again for the revision. *)
LinkExists(w) ==
  /\ pc[w] = "link"
  /\ expected[w] + 1 \in Revisions
  /\ IF Gap THEN Answers(w, "corrupt") ELSE Returns(w, "conflict")
  /\ UNCHANGED <<dir, synced, outage, batch, expected, won>>

(* Mutants of Sync: the directory is not synced; one entry too many is      *)
(* taken for durable.                                                       *)
SyncSkipped(w) ==
  /\ pc[w] = "sync"
  /\ Returns(w, "appended")
  /\ UNCHANGED <<dir, synced, outage, batch, expected, won>>

(* fsync of the directory: every entry in it is durable from now on. *)
Sync(w) ==
  /\ pc[w] = "sync"
  /\ synced' = Revisions
  /\ Returns(w, "appended")
  /\ UNCHANGED <<dir, outage, batch, expected, won>>

(* LOCK_LOST: the identities say whether the commit landed. *)
Recheck(w) ==
  /\ pc[w] = "recheck"
  /\ Answers(w, IF Gap THEN "corrupt"
                ELSE IF Clashes(batch[w]) THEN "refused"
                ELSE IF AllPresent(batch[w]) THEN "already_present"
                ELSE "lock_lost")
  /\ UNCHANGED <<dir, synced, outage, batch, expected, won>>

(* The caller's process dies; its successor may retry the call. *)
Crash(w) ==
  /\ pc[w] # "idle"
  /\ Answers(w, "crashed")
  /\ UNCHANGED <<dir, synced, outage, batch, expected, won>>

(* Every process dies, and any directory entry not synced may be gone. *)
PowerLoss ==
  /\ \E kept \in SUBSET Revisions :
       /\ synced \subseteq kept
       /\ dir' = [r \in kept |-> dir[r]]
       /\ synced' = kept
  /\ outage' = TRUE
  /\ pc' = [w \in Writer |-> "idle"]
  /\ answer' = [w \in Writer |-> IF pc[w] = "idle" THEN answer[w] ELSE "crashed"]
  /\ UNCHANGED <<batch, expected, won, appended>>

Step(w) ==
  \/ CheckCorrupt(w) \/ CheckRefused(w) \/ CheckPresent(w) \/ CheckStale(w) \/ CheckCurrent(w)
  \/ Link(w) \/ LinkExists(w) \/ Sync(w) \/ Recheck(w)

Next ==
  \/ \E w \in Writer : \/ \E b \in Batch : ReadGrant(w, b)
                       \/ Retry(w) \/ Step(w) \/ Crash(w)
  \/ PowerLoss

Spec == Init /\ [][Next]_vars

-----------------------------------------------------------------------------
TypeOK ==
  /\ Revisions \subseteq Nat /\ \A r \in Revisions : dir[r] \in Batch
  /\ synced \subseteq Revisions
  /\ outage \in BOOLEAN
  /\ pc \in [Writer -> {"idle", "check", "link", "sync", "recheck"}]
  /\ batch \in [Writer -> Batch]
  /\ expected \in [Writer -> Nat]
  /\ answer \in [Writer -> {"none", "appended", "already_present", "conflict", "refused",
                            "corrupt", "lock_lost", "crashed"}]
  /\ won \in [Writer -> BOOLEAN]
  /\ appended \subseteq Batch

(* The commit files are numbered without a hole, whoever races for a name   *)
(* and dies where: "A gap cannot be produced by a correct writer".  A power *)
(* loss can produce one: a later entry may be durable before an earlier.    *)
NoGap == ~outage => ~Gap

(* Rule 2: two different facts never stand under one transition identity,   *)
(* not even when two callers propose them at the same revision.             *)
OneFactPerIdentity == \A t, u \in Committed : t.id = u.id => t = u

(* "Only after this may the commit be acknowledged": no power loss takes    *)
(* back a batch whose caller was told "appended".                           *)
AppendedSurvives == \A b \in appended : \E r \in Revisions : dir[r] = b

(* Why it holds.  Without power loss the directory only grows, one name     *)
(* after the last; a caller about to link read the directory as it still is *)
(* or will find its name taken.                                             *)
StreamInv ==
  ~outage => /\ dir \in Seq(Batch)
             /\ \A w \in Writer : expected[w] <= Len(dir)

CallInv ==
  /\ \A w \in Writer : pc[w] \in {"check", "link"} => ~won[w]
  /\ \A w \in Writer : pc[w] = "sync" => won[w]
  /\ \A w \in Writer : won[w] => AllPresent(batch[w])
  /\ \A w \in Writer : pc[w] = "link" /\ expected[w] = Len(dir) => ~Clashes(batch[w])

(* The link() race implements the atomic conditional append of              *)
(* CommitStream.                                                            *)
Stream == INSTANCE CommitStream WITH
  log <- dir,
  failed <- outage,
  asked <- {w \in Writer : pc[w] # "idle"},
  answer <- [w \in Writer |-> IF answer[w] = "crashed" THEN "none" ELSE answer[w]]

StreamSpec == Stream!Spec
=============================================================================
