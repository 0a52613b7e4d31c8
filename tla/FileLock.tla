------------------------------ MODULE FileLock ------------------------------
(***************************************************************************)
(* The advisory file lock of aldus-file-store (src/lock.ts, src/atomic.ts)  *)
(* for one resource.                                                        *)
(*                                                                         *)
(* A lock is a JSON file created with O_CREAT | O_EXCL.  The create and the *)
(* write of the record are two system calls, so the file is on disk, empty, *)
(* between them; a check (#holds, #read) and the unlink or the write that   *)
(* follows it are separate calls too.  Every such call is one action here,  *)
(* and the processes interleave between them.                               *)
(*                                                                         *)
(* A file is named by the lockId of the acquisition that created it: `file' *)
(* is the one the path leads to and `text' what each holds.  A write goes   *)
(* to the file that was opened, on the path or not.                         *)
(***************************************************************************)
EXTENDS Naturals

CONSTANTS
  Proc,      \* sessions, each running at most one withLock at a time
  Id,        \* lockIds; newUlid never returns one twice
  NoId,      \* no lockId: no file on the path, or an empty or unparseable one
  Host,      \* Host[p]: the machine p runs on
  Mortal,    \* the sessions that may be killed
  Expiring,  \* TRUE when a lease may outlive its TTL
  Renewing   \* TRUE when a body may call lease.renew()

ASSUME NoIdAssumption == NoId \notin Id
ASSUME LockFlagAssumption == Mortal \subseteq Proc /\ Expiring \in BOOLEAN /\ Renewing \in BOOLEAN

VARIABLES
  file,      \* the file on the lock's path, or NoId
  text,      \* text[i]: the lockId written in file i, NoId while it is empty
  used,      \* lockIds ever put on disk
  expired,   \* lockIds whose record is older than its TTL
  orphan,    \* <<i, h>>: lockId i's process is gone from host h (kill says ESRCH)
  at,        \* where each session is
  mine,      \* the lockId of each session's latest acquisition
  seen,      \* the lockId each session is reclaiming, or the file it renews
  late,      \* whether the acquisition deadline has passed
  threw,     \* whether the body threw
  robbed,    \* history: whether another session took this one's file away
  overlap,   \* history: overlap[i], the sections that ran while i's did
  succeeded  \* history: the sections withLock returned normally from

disk == <<file, text, used>>
signs == <<expired, orphan>>
session == <<at, mine, seen, late, threw, robbed>>
history == <<overlap, succeeded>>
lockVars == <<disk, signs, session, history>>

Contending == {"open", "read", "recheck", "unlink"}
InBody == {"body", "truncate", "rewrite"}
Holding == {"write", "readback", "release", "remove"} \cup InBody

(* What JSON.parse finds behind the path: a lockId or nothing usable. *)
Record == IF file = NoId THEN NoId ELSE text[file]

Holds(p) == Record = mine[p]

(* #isDead as p computes it: the TTL, or a probe of a pid on p's own host. *)
Dead(p, i) == \/ i \in expired
              \/ <<i, Host[p]>> \in orphan

Goto(p, label) == at' = [at EXCEPT ![p] = label]

(* The call returned, threw or died: its locals are gone. *)
Leave(p) ==
  /\ Goto(p, "idle")
  /\ mine' = [mine EXCEPT ![p] = NoId]
  /\ seen' = [seen EXCEPT ![p] = NoId]
  /\ late' = [late EXCEPT ![p] = FALSE]
  /\ threw' = [threw EXCEPT ![p] = FALSE]

(* removeIfPresent: whatever the path leads to goes, whoever owns it. *)
Unlinks(p) ==
  /\ file' = NoId
  /\ robbed' = [q \in Proc |-> /\ q # p
                               /\ robbed[q] \/ (file # NoId /\ mine[q] = file)]
  /\ UNCHANGED <<text, used>>

LockInit ==
  /\ file = NoId
  /\ text = [i \in Id |-> NoId]
  /\ used = {}
  /\ expired = {}
  /\ orphan = {}
  /\ at = [p \in Proc |-> "idle"]
  /\ mine = [p \in Proc |-> NoId]
  /\ seen = [p \in Proc |-> NoId]
  /\ late = [p \in Proc |-> FALSE]
  /\ threw = [p \in Proc |-> FALSE]
  /\ robbed = [p \in Proc |-> FALSE]
  /\ overlap = [i \in Id |-> {}]
  /\ succeeded = {}

-----------------------------------------------------------------------------
(* acquire *)

Begin(p) ==
  /\ at[p] = "idle"
  /\ Goto(p, "open")
  /\ UNCHANGED <<disk, signs, mine, seen, late, threw, robbed, history>>

(* Real time reaches the deadline of an acquisition in progress. *)
Deadline(p) ==
  /\ at[p] \in Contending
  /\ ~late[p]
  /\ late' = [late EXCEPT ![p] = TRUE]
  /\ UNCHANGED <<disk, signs, at, mine, seen, threw, robbed, history>>

(* createExclusive, first half: open(O_CREAT | O_EXCL) succeeds. *)
OpenNew(p, i) ==
  /\ at[p] = "open"
  /\ file = NoId
  /\ i \notin used
  /\ file' = i
  /\ used' = used \cup {i}
  /\ mine' = [mine EXCEPT ![p] = i]
  /\ Goto(p, "write")
  /\ UNCHANGED <<text, signs, seen, late, threw, robbed, history>>

(* createExclusive fails with EEXIST. *)
OpenExisting(p) ==
  /\ at[p] = "open"
  /\ file # NoId
  /\ Goto(p, "read")
  /\ UNCHANGED <<disk, signs, mine, seen, late, threw, robbed, history>>

(* createExclusive, second half: the record goes into the file it opened. *)
WriteRecord(p) ==
  /\ at[p] = "write"
  /\ text' = [text EXCEPT ![mine[p]] = mine[p]]
  /\ Goto(p, "readback")
  /\ UNCHANGED <<file, used, signs, mine, seen, late, threw, robbed, history>>

(* Read back before trusting the acquisition: a lease, or another turn. *)
ReadBackOwn(p) ==
  /\ at[p] = "readback"
  /\ Holds(p)
  /\ Goto(p, "body")
  /\ LET others == {mine[q] : q \in {r \in Proc \ {p} : at[r] \in InBody}}
     IN overlap' = [i \in Id |-> IF i = mine[p] THEN others
                                 ELSE IF i \in others THEN overlap[i] \cup {mine[p]}
                                 ELSE overlap[i]]
  /\ late' = [late EXCEPT ![p] = FALSE]
  /\ UNCHANGED <<disk, signs, mine, seen, threw, robbed, succeeded>>

ReadBackOther(p) ==
  /\ at[p] = "readback"
  /\ ~Holds(p)
  /\ mine' = [mine EXCEPT ![p] = NoId]
  /\ robbed' = [robbed EXCEPT ![p] = FALSE]
  /\ Goto(p, "open")
  /\ UNCHANGED <<disk, signs, seen, late, threw, history>>

(* #read found nothing usable: #reclaim(path, undefined) does not look again. *)
ReadUnusable(p) ==
  /\ at[p] = "read"
  /\ Record = NoId
  /\ Goto(p, "unlink")
  /\ UNCHANGED <<disk, signs, mine, seen, late, threw, robbed, history>>

ReadDead(p) ==
  /\ at[p] = "read"
  /\ Record # NoId
  /\ Dead(p, Record)
  /\ seen' = [seen EXCEPT ![p] = Record]
  /\ Goto(p, "recheck")
  /\ UNCHANGED <<disk, signs, mine, late, threw, robbed, history>>

(* Mutant of ReadLive: the deadline is not looked at. *)
ReadLiveForever(p) ==
  /\ at[p] = "read"
  /\ Record # NoId
  /\ ~Dead(p, Record)
  /\ Goto(p, "open")
  /\ UNCHANGED <<disk, signs, mine, seen, late, threw, robbed, history>>

(* A live record: LOCK_TIMEOUT past the deadline, else sleep and try again. *)
ReadLive(p) ==
  /\ at[p] = "read"
  /\ Record # NoId
  /\ ~Dead(p, Record)
  /\ IF late[p]
     THEN Leave(p)
     ELSE Goto(p, "open") /\ UNCHANGED <<mine, seen, late, threw>>
  /\ UNCHANGED <<disk, signs, robbed, history>>

(* Mutant of ReclaimCheck: the comparison is the wrong way round. *)
ReclaimCheckInverted(p) ==
  /\ at[p] = "recheck"
  /\ IF Record # seen[p]
     THEN Goto(p, "unlink") /\ UNCHANGED seen
     ELSE Goto(p, "open") /\ seen' = [seen EXCEPT ![p] = NoId]
  /\ UNCHANGED <<disk, signs, mine, late, threw, robbed, history>>

(* #reclaim re-reads and compares ... *)
ReclaimCheck(p) ==
  /\ at[p] = "recheck"
  /\ IF Record = seen[p]
     THEN Goto(p, "unlink") /\ UNCHANGED seen
     ELSE Goto(p, "open") /\ seen' = [seen EXCEPT ![p] = NoId]
  /\ UNCHANGED <<disk, signs, mine, late, threw, robbed, history>>

(* ... and unlinks by path. *)
Reclaim(p) ==
  /\ at[p] = "unlink"
  /\ Unlinks(p)
  /\ seen' = [seen EXCEPT ![p] = NoId]
  /\ Goto(p, "open")
  /\ UNCHANGED <<signs, mine, late, threw, history>>

-----------------------------------------------------------------------------
(* withLock's body, renewal and release *)

(* Mutant of EndBody: a body that throws also removes the lock file. *)
EndBodyCleaningUp(p, failed) ==
  /\ at[p] = "body"
  /\ threw' = [threw EXCEPT ![p] = failed]
  /\ file' = IF failed THEN NoId ELSE file
  /\ Goto(p, "release")
  /\ UNCHANGED <<text, used, signs, mine, seen, late, robbed, history>>

(* The body returns, or throws (a nested acquire throws LOCK_REENTRANT). *)
EndBody(p, failed) ==
  /\ at[p] = "body"
  /\ threw' = [threw EXCEPT ![p] = failed]
  /\ Goto(p, "release")
  /\ UNCHANGED <<disk, signs, mine, seen, late, robbed, history>>

(* Mutant of ReleaseHeld: the lock is released without looking. *)
ReleaseUnchecked(p) ==
  /\ at[p] = "release"
  /\ Goto(p, "remove")
  /\ UNCHANGED <<disk, signs, mine, seen, late, threw, robbed, history>>

(* release: #holds, then unlink; a lease already lost makes withLock throw  *)
(* LOCK_LOST, or is ignored in favour of the body's own error.              *)
ReleaseHeld(p) ==
  /\ at[p] = "release"
  /\ Holds(p)
  /\ Goto(p, "remove")
  /\ UNCHANGED <<disk, signs, mine, seen, late, threw, robbed, history>>

ReleaseLost(p) ==
  /\ at[p] = "release"
  /\ ~Holds(p)
  /\ Leave(p)
  /\ robbed' = [robbed EXCEPT ![p] = FALSE]
  /\ UNCHANGED <<disk, signs, history>>

(* Mutant of Remove: no release when the body threw. *)
RemoveOnSuccess(p) ==
  /\ at[p] = "remove"
  /\ IF threw[p] THEN UNCHANGED <<disk, robbed>> ELSE Unlinks(p)
  /\ succeeded' = IF threw[p] THEN succeeded ELSE succeeded \cup {mine[p]}
  /\ Leave(p)
  /\ UNCHANGED <<signs, overlap>>

Remove(p) ==
  /\ at[p] = "remove"
  /\ Unlinks(p)
  /\ succeeded' = IF threw[p] THEN succeeded ELSE succeeded \cup {mine[p]}
  /\ Leave(p)
  /\ UNCHANGED <<signs, overlap>>

(* renew: #holds; then overwrite = open(O_CREAT | O_TRUNC), write. *)
RenewCheck(p) ==
  /\ Renewing
  /\ at[p] = "body"
  /\ Holds(p)
  /\ Goto(p, "truncate")
  /\ UNCHANGED <<disk, signs, mine, seen, late, threw, robbed, history>>

RenewTruncate(p) ==
  /\ at[p] = "truncate"
  /\ LET f == IF file = NoId THEN mine[p] ELSE file
     IN /\ file' = f
        /\ text' = [text EXCEPT ![f] = NoId]
        /\ seen' = [seen EXCEPT ![p] = f]
  /\ Goto(p, "rewrite")
  /\ UNCHANGED <<used, signs, mine, late, threw, robbed, history>>

RenewWrite(p) ==
  /\ at[p] = "rewrite"
  /\ text' = [text EXCEPT ![seen[p]] = mine[p]]
  /\ expired' = expired \ {mine[p]}
  /\ seen' = [seen EXCEPT ![p] = NoId]
  /\ Goto(p, "body")
  /\ UNCHANGED <<file, used, orphan, mine, late, threw, robbed, history>>

-----------------------------------------------------------------------------
(* The environment *)

(* now - renewedAt > ttl becomes true of a record, its holder alive or not. *)
Expire(i) ==
  /\ Expiring
  /\ i \in used \ expired
  /\ expired' = expired \cup {i}
  /\ UNCHANGED <<disk, orphan, session, history>>

(* The process is killed; the session starts over later under a new pid. *)
Kill(p) ==
  /\ p \in Mortal
  /\ at[p] # "idle"
  /\ orphan' = IF at[p] \in Holding THEN orphan \cup {<<mine[p], Host[p]>>}
               ELSE orphan
  /\ Leave(p)
  /\ robbed' = [robbed EXCEPT ![p] = FALSE]
  /\ UNCHANGED <<disk, expired, history>>

LockStep(p) ==
  \/ \E i \in Id : OpenNew(p, i)
  \/ OpenExisting(p) \/ WriteRecord(p)
  \/ ReadBackOwn(p) \/ ReadBackOther(p)
  \/ ReadUnusable(p) \/ ReadDead(p) \/ ReadLive(p)
  \/ ReclaimCheck(p) \/ Reclaim(p)
  \/ ReleaseHeld(p) \/ ReleaseLost(p) \/ Remove(p)
  \/ RenewTruncate(p) \/ RenewWrite(p)

LockNext ==
  \/ \E p \in Proc : \/ Begin(p) \/ Deadline(p) \/ LockStep(p)
                     \/ \E failed \in BOOLEAN : EndBody(p, failed)
                     \/ RenewCheck(p) \/ Kill(p)
  \/ \E i \in Id : Expire(i)

LockSpec == LockInit /\ [][LockNext]_lockVars

(* A scheduled session takes its next step and time passes.  Nothing makes  *)
(* a caller ask for the lock or a body end.                                 *)
LockFairSpec == LockSpec /\ \A p \in Proc : WF_lockVars(LockStep(p)) /\ WF_lockVars(Deadline(p))

-----------------------------------------------------------------------------
LockTypeOK ==
  /\ file \in Id \cup {NoId}
  /\ text \in [Id -> Id \cup {NoId}]
  /\ used \subseteq Id
  /\ expired \subseteq Id
  /\ orphan \subseteq Id \X {Host[p] : p \in Proc}
  /\ at \in [Proc -> {"idle"} \cup Contending \cup Holding]
  /\ mine \in [Proc -> Id \cup {NoId}]
  /\ \A p \in Proc : at[p] \in Holding => mine[p] \in Id
  /\ seen \in [Proc -> Id \cup {NoId}]
  /\ late \in [Proc -> BOOLEAN]
  /\ threw \in [Proc -> BOOLEAN]
  /\ robbed \in [Proc -> BOOLEAN]
  /\ overlap \in [Id -> SUBSET Id]
  /\ succeeded \subseteq Id

(* withLock never reports success to two sections whose bodies ran at the  *)
(* same time: LOCK_LOST ("reporting success would be a lie") reaches all    *)
(* but one of them, whatever was reclaimed, expired or killed meanwhile.    *)
SuccessIsExclusive == \A i, j \in succeeded : j \notin overlap[i]

(* No lock without a way out: the record on disk names a session that is    *)
(* still going to release it, or one whose process a contender can find     *)
(* dead.  (A file without a record is removed on sight.)                    *)
NoLeak ==
  Record # NoId =>
    \/ \E p \in Proc : <<Record, Host[p]>> \in orphan
    \/ \E p \in Proc : mine[p] = Record /\ at[p] \in Holding

(* No spurious LOCK_LOST: a release finds its lease lost only when another  *)
(* session took the file away while its owner held it.                      *)
LostOnlyToAnother ==
  \A p \in Proc : at[p] \in {"body", "release"} /\ ~Holds(p) => robbed[p]

(* A contender is never shut out by a record it can tell is dead.           *)
DeadRecordYields ==
  \A p \in Proc \ Mortal, i \in Id :
    (file = i /\ text[i] = i /\ Dead(p, i) /\ at[p] \in Contending)
      ~> (file # i \/ ~Dead(p, i))

(* An acquisition facing live records ends at its deadline: LOCK_TIMEOUT,   *)
(* never an endless wait.  Two provisos.  A turn that finds a record dead,  *)
(* or empty in the middle of a renewal, does not look at the deadline, so   *)
(* nobody may renew for ever; and turns that create a file use up a lockId, *)
(* so the property says nothing once the finite supply is spent.            *)
AcquireEnds ==
  <>[](\A q \in Proc : at[q] # "truncate") =>
    \A p \in Proc \ Mortal :
      (at[p] \in Contending) ~> (at[p] \notin Contending \/ used = Id)

(* Why success is exclusive, as invariants of a system without renewal.     *)
(* A lockId taken off disk never comes back, so a section that found its    *)
(* own record at both ends had it there all along; of two that overlapped,  *)
(* the one that confirms first finds the other's record gone for good.      *)
Confirmed == succeeded \cup {mine[p] : p \in {q \in Proc : at[q] = "remove"}}

DiskInv ==
  /\ file \in used \cup {NoId}
  /\ \A i \in Id : i \notin used => text[i] = NoId
  /\ \A p \in Proc : at[p] \in Holding => mine[p] \in used
  /\ \A p \in Proc : at[p] = "rewrite" => seen[p] \in used

LeaseInv ==
  /\ succeeded \subseteq used
  /\ \A i \in Id : text[i] \in {NoId, i}
  /\ \A p \in Proc : at[p] \notin {"truncate", "rewrite"}
  /\ \A p \in Proc : at[p] \in Holding => mine[p] \notin succeeded
  /\ \A p, q \in Proc :
        at[p] \in Holding /\ at[q] \in Holding /\ mine[p] = mine[q] => p = q

OverlapInv ==
  /\ \A i \in Id : overlap[i] \subseteq used \ {i}
  /\ \A i \in Id : i \notin used => overlap[i] = {}
  /\ \A i, j \in Id : j \in overlap[i] => i \in overlap[j]
  /\ \A p \in Proc : at[p] \in {"write", "readback"} => overlap[mine[p]] = {}

GoneInv == \A i \in Confirmed : \A j \in overlap[i] : j \notin Confirmed /\ j # file

HeldInv ==
  \A p \in Proc : at[p] \in {"body", "release"} /\ ~robbed[p]
                    => file = mine[p] /\ text[mine[p]] = mine[p]

(* What the class doc says of the exclusive create: "two processes racing   *)
(* cannot both believe they won".                                           *)
OneWinner == \A p, q \in Proc : at[p] \in InBody /\ at[q] \in InBody => p = q
=============================================================================
