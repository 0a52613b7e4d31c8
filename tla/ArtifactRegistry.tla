-------------------------- MODULE ArtifactRegistry --------------------------
(***************************************************************************)
(* The artifacts of a workspace (packages/aldus-artifact-registry): records *)
(* in one index, working files that producers overwrite, an archive that    *)
(* addresses objects by what they hold, and cleanups that delete files.     *)
(*                                                                         *)
(* The index is read and rewritten under its lock (FileLock.tla), so each   *)
(* change of it is one step.  Nothing else is locked: hashing a file,       *)
(* copying it, reading the copy back, verifying a plan and unlinking what   *)
(* it names are steps of their own, between which files change.             *)
(***************************************************************************)
EXTENDS ArtifactLineage, FiniteSetsExt

CONSTANTS
  Path,        \* working paths
  Session,     \* processes that use the registry
  Archivers,   \* those of them that archive
  Irreplaceable, \* the artifacts whose reconstructability is "irreplaceable"
  Derivations, \* Derivations[a]: what a's producer may declare as its inputs
  Absent,
  MaxWrites    \* how often producers write their files

(* What is kept of an artifact (record.ts, artifactRecordSchema).           *)
Records ==
  [path : Path, bytes : Bytes, inputs : SUBSET Bytes, archived : BOOLEAN,
   supersededBy : Artifact \cup {Absent}]

ASSUME RegistryAssumption ==
  /\ IsFiniteSet(Artifact) /\ Archivers \subseteq Session /\ Irreplaceable \subseteq Artifact
  /\ NoRecord \notin Records
  /\ Absent \notin Bytes /\ MaxWrites \in Nat
  /\ \A a \in Artifact : Derivations[a] \subseteq SUBSET Bytes

VARIABLES
  files,    \* files[p]: what the file at p holds
  index,    \* index.json: one record per artifact id, or NoRecord
  objects,  \* objects[b]: what the archive's object addressed as b holds
  session,  \* session[s]: where in which operation a process is
  exposed,  \* exposed[s]: paths written after the cleanup of s verified them
  writes

vars == <<files, index, objects, session, exposed, writes>>

Idle == [pc |-> "idle"]

(* What a record says that matters here; LocalDirectoryArchive issues no    *)
(* receipt it has not verified, so having one is what isArchived asks.      *)
Record(path, bytes, inputs) ==
  [path |-> path, bytes |-> bytes, inputs |-> inputs, archived |-> FALSE, supersededBy |-> Absent]

Recorded(a) == index[a] # NoRecord

(* The artifacts whose files a cleanup has verified and not yet unlinked.   *)
Verified(s) ==
  CASE session[s].pc = "verifying" -> session[s].targets
    [] session[s].pc = "unlinking" -> session[s].left
    [] OTHER -> {}

(* store.update: one record is read, changed and written under the lock.    *)
Update(a, record) == index' = [index EXCEPT ![a] = record]

Goto(s, next) == session' = [session EXCEPT ![s] = next]

Init ==
  /\ files = [p \in Path |-> Absent]
  /\ index = [a \in Artifact |-> NoRecord]
  /\ objects = [b \in Bytes |-> Absent]
  /\ session = [s \in Session |-> Idle]
  /\ exposed = [s \in Session |-> {}]
  /\ writes = 0

(* A producer writes its working file, under whatever name it always uses.  *)
Write(p) ==
  /\ writes < MaxWrites /\ writes' = writes + 1
  /\ \E b \in Bytes \ {files[p]} : files' = [files EXCEPT ![p] = b]
  /\ exposed' = [s \in Session |-> exposed[s] \cup ({p} \cap {index[a].path : a \in Verified(s)})]
  /\ UNCHANGED <<index, objects, session>>

-----------------------------------------------------------------------------
(* register: the file is hashed, then the record is added under the lock.   *)
Register(s, a, p) ==
  /\ session[s] = Idle /\ files[p] # Absent
  /\ \E inputs \in Derivations[a] :
       Goto(s, [pc |-> "adding", artifact |-> a, record |-> Record(p, files[p], inputs)])
  /\ UNCHANGED <<files, index, objects, exposed, writes>>

(* store.add: an id that is known keeps what it has; the same content again *)
(* is a retry, other content a conflict.                                    *)
Add(s) ==
  /\ session[s].pc = "adding"
  /\ index' = IF Recorded(session[s].artifact) THEN index
              ELSE [index EXCEPT ![session[s].artifact] = session[s].record]
  /\ Goto(s, Idle)
  /\ UNCHANGED <<files, objects, exposed, writes>>

(* supersede: an edge, and nothing is deleted.                              *)
Supersede(s, a, b) ==
  /\ session[s] = Idle /\ Recorded(a) /\ Recorded(b)
  /\ Update(a, [index[a] EXCEPT !.supersededBy = b])
  /\ UNCHANGED <<files, objects, session, exposed, writes>>

-----------------------------------------------------------------------------
(* archiveIrreplaceable: what is irreplaceable and has no receipt, one by   *)
(* one, until one of them fails.                                            *)
ArchiveIrreplaceable(s) ==
  /\ session[s] = Idle /\ s \in Archivers
  /\ LET pending == {a \in Irreplaceable : Recorded(a) /\ ~index[a].archived}
     IN  pending # {} /\ Goto(s, [pc |-> "archiving", pending |-> pending])
  /\ UNCHANGED <<files, index, objects, exposed, writes>>

(* archiveArtifact and put up to the copy: an artifact with a receipt is    *)
(* left alone; a source that is gone or changed fails the whole call; an    *)
(* object that is there already is verified instead of written again.       *)
BeginPut(s, a) ==
  /\ session[s].pc = "archiving" /\ a \in session[s].pending
  /\ LET b == index[a].bytes
         at(pc) == [pc |-> pc, pending |-> session[s].pending, artifact |-> a, copy |-> Absent]
     IN  Goto(s, IF index[a].archived
                 THEN [session[s] EXCEPT !.pending = @ \ {a}]
                 ELSE IF files[index[a].path] # b THEN Idle
                 ELSE at(IF objects[b] # Absent THEN "checking" ELSE "copying"))
  /\ UNCHANGED <<files, index, objects, exposed, writes>>

(* copyFile to a temporary file of the process.                             *)
Copy(s) ==
  /\ session[s].pc = "copying"
  /\ LET source == files[index[session[s].artifact].path]
     IN  Goto(s, IF source = Absent THEN Idle
                 ELSE [session[s] EXCEPT !.pc = "renaming", !.copy = source])
  /\ UNCHANGED <<files, index, objects, exposed, writes>>

(* rename, over whatever the archive has come to hold there.                *)
Rename(s) ==
  /\ session[s].pc = "renaming"
  /\ objects' = [objects EXCEPT ![index[session[s].artifact].bytes] = session[s].copy]
  /\ Goto(s, [session[s] EXCEPT !.pc = "checking", !.copy = Absent])
  /\ UNCHANGED <<files, index, exposed, writes>>

(* Mutant of VerifyStored: what was just copied is taken to be right.       *)
VerifyNothing(s) ==
  /\ session[s].pc = "checking"
  /\ Goto(s, [session[s] EXCEPT !.pc = "recording"])
  /\ UNCHANGED <<files, index, objects, exposed, writes>>

(* #verifyStored: no receipt without the bytes having been read back.       *)
VerifyStored(s) ==
  /\ session[s].pc = "checking"
  /\ LET b == index[session[s].artifact].bytes
     IN  Goto(s, IF objects[b] = b THEN [session[s] EXCEPT !.pc = "recording"] ELSE Idle)
  /\ UNCHANGED <<files, index, objects, exposed, writes>>

(* The receipt goes into the record, and the next artifact is taken up.     *)
RecordReceipt(s) ==
  /\ session[s].pc = "recording"
  /\ LET a == session[s].artifact
         left == session[s].pending \ {a}
     IN  /\ Update(a, [index[a] EXCEPT !.archived = TRUE])
         /\ Goto(s, IF left = {} THEN Idle ELSE [pc |-> "archiving", pending |-> left])
  /\ UNCHANGED <<files, objects, exposed, writes>>

-----------------------------------------------------------------------------
RequiresArchiveBeforeCleanup(a) == a \in Irreplaceable

IsArchived(a) == index[a].archived

(* Mutant of Blocks: what has been superseded is not wanted any more.       *)
BlocksCurrent(a) ==
  RequiresArchiveBeforeCleanup(a) /\ ~IsArchived(a) /\ index[a].supersededBy = Absent

Blocks(a) == RequiresArchiveBeforeCleanup(a) /\ ~IsArchived(a)

(* planCleanup, over the records as they are; the caller may keep the plan. *)
PlanCleanup(s) ==
  /\ session[s] = Idle
  /\ \E candidates \in SUBSET {a \in Artifact : Recorded(a)} :
       /\ candidates # {}
       /\ Goto(s, [pc |-> "planned", safe |-> \A a \in candidates : ~Blocks(a),
                   removable |-> {a \in candidates : ~Blocks(a)}])
  /\ UNCHANGED <<files, index, objects, exposed, writes>>

(* executeCleanup refuses a plan with anything blocked.                     *)
ExecuteCleanup(s) ==
  /\ session[s].pc = "planned"
  /\ Goto(s, IF ~session[s].safe THEN Idle
             ELSE [pc |-> "verifying", left |-> session[s].removable, targets |-> {},
                   suspect |-> {}])
  /\ exposed' = [exposed EXCEPT ![s] = {}]
  /\ UNCHANGED <<files, index, objects, writes>>

(* First each file is hashed: gone is fine, other bytes or unreadable not.  *)
VerifyTarget(s, a) ==
  /\ session[s].pc = "verifying" /\ a \in session[s].left
  /\ LET held == files[index[a].path]
     IN  \E readable \in BOOLEAN :
           Goto(s, [session[s] EXCEPT
                      !.left = @ \ {a},
                      !.targets = IF readable /\ held = index[a].bytes THEN @ \cup {a} ELSE @,
                      !.suspect = IF held = Absent \/ (readable /\ held = index[a].bytes)
                                  THEN @ ELSE @ \cup {a}])
  /\ UNCHANGED <<files, index, objects, exposed, writes>>

(* Any doubt refuses the whole plan before a file is removed.               *)
Cleared(s) ==
  /\ session[s].pc = "verifying" /\ session[s].left = {}
  /\ Goto(s, IF session[s].suspect # {} THEN Idle
             ELSE [pc |-> "unlinking", left |-> session[s].targets])
  /\ UNCHANGED <<files, index, objects, exposed, writes>>

(* Then each is unlinked, by its path; the file system may refuse.          *)
Unlink(s, a) ==
  /\ session[s].pc = "unlinking" /\ a \in session[s].left
  /\ files' \in {files, [files EXCEPT ![index[a].path] = Absent]}
  /\ LET left == session[s].left \ {a}
     IN  Goto(s, IF left = {} THEN Idle ELSE [session[s] EXCEPT !.left = left])
  /\ UNCHANGED <<index, objects, exposed, writes>>

(* A plan that has nothing to unlink, and a call that archived everything.  *)
Return(s) ==
  /\ \/ session[s].pc = "unlinking" /\ session[s].left = {}
     \/ session[s].pc = "archiving" /\ session[s].pending = {}
  /\ Goto(s, Idle)
  /\ UNCHANGED <<files, index, objects, exposed, writes>>

Crash(s) ==
  /\ session[s] # Idle /\ Goto(s, Idle)
  /\ UNCHANGED <<files, index, objects, exposed, writes>>

Next ==
  \/ \E p \in Path : Write(p)
  \/ \E s \in Session :
       \/ \E a \in Artifact :
            \/ \E p \in Path : Register(s, a, p)
            \/ BeginPut(s, a) \/ VerifyTarget(s, a) \/ Unlink(s, a)
            \/ \E b \in Artifact \ {a} : Supersede(s, a, b)
       \/ Add(s) \/ ArchiveIrreplaceable(s)
       \/ Copy(s) \/ Rename(s) \/ VerifyStored(s) \/ RecordReceipt(s)
       \/ PlanCleanup(s) \/ ExecuteCleanup(s) \/ Cleared(s) \/ Return(s) \/ Crash(s)

Spec == Init /\ [][Next]_vars

-----------------------------------------------------------------------------
TypeOK ==
  /\ files \in [Path -> Bytes \cup {Absent}] /\ objects \in [Bytes -> Bytes \cup {Absent}]
  /\ \A a \in Artifact : Recorded(a) =>
       /\ index[a] \in Records /\ index[a].inputs \in Derivations[a]
       /\ index[a].archived => a \in Irreplaceable
  /\ \A s \in Session : exposed[s] \subseteq Path /\ Verified(s) \subseteq {a \in Artifact : Recorded(a)}
  /\ writes \in 0 .. MaxWrites

(* A receipt stands for bytes the archive holds, from the moment it is in   *)
(* the record and ever after: however sources are rewritten between the     *)
(* hash and the copy, and wherever an archiver dies.                        *)
CustodyHolds ==
  \A a \in Artifact : Recorded(a) /\ index[a].archived => objects[index[a].bytes] = index[a].bytes

(* What a cleanup may delete (contract 8.1), though its plan may be old and *)
(* other processes register, supersede, archive and write meanwhile: of an  *)
(* irreplaceable artifact only bytes the archive holds, and nothing its     *)
(* plan has not examined, unless a producer wrote the file after that.      *)
RemovedIsHeld(a) == a \in Irreplaceable => objects[index[a].bytes] = index[a].bytes
RemovedIsExamined(s, a) == files[index[a].path] = index[a].bytes \/ index[a].path \in exposed[s]

RemovalIsSafe ==
  [][\A s \in Session : \A a \in Artifact :
       Unlink(s, a) /\ files' # files => RemovedIsHeld(a) /\ RemovedIsExamined(s, a)]_vars

(* Lineage is the closure of the declared inputs, the same read upwards as  *)
(* downwards, whatever ids share their bytes; and a cycle is reported just  *)
(* when one can be reached, never for two ways to one artifact.             *)
ReachableFrom(next, a) ==
  {b \in Artifact : \A S \in SUBSET Artifact :
     next[a] \subseteq S /\ (\A c \in S : next[c] \subseteq S) => b \in S}

LineageIsClosure ==
  LET up == [c \in Artifact |-> IF Recorded(c) THEN StepUp(index, c) ELSE {}]
  IN  \A a \in Known(index) :
        /\ Ancestors(index, a) = ReachableFrom(up, a) \ {a}
        /\ \A b \in Known(index) \ {a} :
             b \in Ancestors(index, a) <=> a \in Descendants(index, b)
        /\ FindCycles(a, up) # {} <=>
             \E b \in {a} \cup ReachableFrom(up, a) : b \in ReachableFrom(up, b)

(* archive.ts: "the bytes are stored addressed by their own digest, so      *)
(* nothing else can overwrite them".  Two archivers that both found no      *)
(* object both rename one into place, and the second copy may have been     *)
(* taken after its source was rewritten.                                    *)
NothingOverwrites ==
  [][\A b \in Bytes : objects[b] = b => objects'[b] = b]_vars
=============================================================================
