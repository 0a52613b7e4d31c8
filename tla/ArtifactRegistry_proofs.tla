----------------------- MODULE ArtifactRegistry_proofs -----------------------
(***************************************************************************)
(* Proofs about ArtifactRegistry, for any artifacts, derivations, paths,    *)
(* sessions and writes.  Types are proved for any number of archivers; that *)
(* the archive holds what a receipt says, and that a cleanup takes nothing  *)
(* else, for one archiver (OneArchiver): of two that both found no object,  *)
(* the second to rename may put a copy of later bytes over the first's.     *)
(* Last, what lineage finds: the two searches of ArtifactLineage reach what *)
(* can be reached, and report a cycle just when there is one, whatever the  *)
(* edges are.                                                               *)
(***************************************************************************)
EXTENDS ArtifactRegistry, FiniteSetTheorems, NaturalsInduction, WellFoundedInduction, SequenceTheorems, TLAPS

Putting == {"copying", "renaming", "checking", "recording"}

Archiving == {"archiving"} \cup Putting

(* What a process may hold at each place of its operation.                  *)
Jobs ==
  UNION {{Idle},
         [pc : {"adding"}, artifact : Artifact, record : Records],
         [pc : {"archiving"}, pending : SUBSET Irreplaceable],
         [pc : Putting, pending : SUBSET Irreplaceable, artifact : Artifact, copy : Bytes \cup {Absent}],
         [pc : {"planned"}, safe : BOOLEAN, removable : SUBSET Artifact],
         [pc : {"verifying"}, left : SUBSET Artifact, targets : SUBSET Artifact, suspect : SUBSET Artifact],
         [pc : {"unlinking"}, left : SUBSET Artifact]}

(* What a cleanup is about.                                                 *)
Marked(job) ==
  CASE job.pc = "planned" -> job.removable
    [] job.pc = "verifying" -> job.left \cup job.targets
    [] job.pc = "unlinking" -> job.left
    [] OTHER -> {}

Named(job) == IF job.pc \in Archiving THEN job.pending ELSE Marked(job)

JobTyped(s, job) ==
  /\ job \in Jobs
  /\ job.pc \in Archiving => s \in Archivers
  /\ job.pc \in Putting => job.artifact \in job.pending
  /\ job.pc = "adding" => job.record.inputs \in Derivations[job.artifact] /\ ~job.record.archived

IndexTyped ==
  /\ index \in [Artifact -> Records \cup {NoRecord}]
  /\ \A a \in Artifact : Recorded(a) =>
       /\ index[a].inputs \in Derivations[a]
       /\ index[a].archived => a \in Irreplaceable

StoreTyped ==
  /\ files \in [Path -> Bytes \cup {Absent}] /\ objects \in [Bytes -> Bytes \cup {Absent}]
  /\ exposed \in [Session -> SUBSET Path] /\ writes \in 0 .. MaxWrites

Typed ==
  /\ StoreTyped /\ IndexTyped
  /\ session \in [Session -> Jobs]
  /\ \A s \in Session : JobTyped(s, session[s]) /\ Named(session[s]) \subseteq Known(index)

(* A record that is there stays, with its path and its bytes, and a receipt *)
(* in it stays too (store.update).                                          *)
RecordsStay ==
  \A a \in Artifact : Recorded(a) =>
    /\ (index[a] # NoRecord)'
    /\ index'[a].path = index[a].path /\ index'[a].bytes = index[a].bytes
    /\ index[a].archived => index'[a].archived

-----------------------------------------------------------------------------
(* What a process at a place of an archiving or of an adding holds.         *)
LEMMA JobsAt ==
  ASSUME NEW job \in Jobs
  PROVE  /\ job.pc = "adding" => job \in [pc : {"adding"}, artifact : Artifact, record : Records]
         /\ job.pc = "archiving" => job \in [pc : {"archiving"}, pending : SUBSET Irreplaceable]
         /\ job.pc \in Putting =>
              job \in [pc : Putting, pending : SUBSET Irreplaceable, artifact : Artifact, copy : Bytes \cup {Absent}]
         /\ job.pc = "planned" => job \in [pc : {"planned"}, safe : BOOLEAN, removable : SUBSET Artifact]
         /\ job.pc = "verifying" =>
              job \in [pc : {"verifying"}, left : SUBSET Artifact, targets : SUBSET Artifact, suspect : SUBSET Artifact]
         /\ job.pc = "unlinking" => job \in [pc : {"unlinking"}, left : SUBSET Artifact]
         /\ job.pc \in {"idle", "adding", "planned", "verifying", "unlinking"} \cup Archiving
BY DEF Jobs, Idle, Putting, Archiving

LEMMA IndexChanges ==
  ASSUME [Next]_vars
  PROVE  \/ UNCHANGED index
         \/ \E s \in Session : Add(s) \/ RecordReceipt(s)
         \/ \E s \in Session : \E a, b \in Artifact : Supersede(s, a, b)
<1>1. ASSUME NEW s \in Session, NEW a \in Artifact,
             (\E p \in Path : Register(s, a, p)) \/ BeginPut(s, a) \/ VerifyTarget(s, a) \/ Unlink(s, a)
      PROVE  UNCHANGED index
  BY <1>1 DEF Register, BeginPut, VerifyTarget, Unlink
<1>2. ASSUME NEW s \in Session,
             \/ ArchiveIrreplaceable(s) \/ Copy(s) \/ Rename(s) \/ VerifyStored(s) \/ PlanCleanup(s)
             \/ ExecuteCleanup(s) \/ Cleared(s) \/ Return(s) \/ Crash(s)
      PROVE  UNCHANGED index
  BY <1>2 DEF ArchiveIrreplaceable, Copy, Rename, VerifyStored, PlanCleanup, ExecuteCleanup, Cleared, Return, Crash
<1>3. (UNCHANGED vars \/ \E p \in Path : Write(p)) => UNCHANGED index
  BY DEF vars, Write
<1> QED BY <1>1, <1>2, <1>3 DEF Next

LEMMA IndexStep ==
  ASSUME Typed, [Next]_vars PROVE IndexTyped' /\ RecordsStay
<1>1. ASSUME UNCHANGED index PROVE IndexTyped' /\ RecordsStay
  BY <1>1 DEF Typed, IndexTyped, RecordsStay, Recorded
<1>2. ASSUME NEW s \in Session, Add(s) PROVE IndexTyped' /\ RecordsStay
  <2> DEFINE a == session[s].artifact
             new == session[s].record
  <2>1. session[s].pc = "adding" /\ session[s] \in Jobs /\ new.inputs \in Derivations[a] /\ ~new.archived
    BY <1>2 DEF Add, Typed, JobTyped
  <2>2. a \in Artifact /\ new \in Records
    BY <2>1, JobsAt
  <2>3. CASE Recorded(a)
    BY <1>2, <2>3, <1>1 DEF Add
  <2>4. CASE ~Recorded(a)
    <3>1. index' = [index EXCEPT ![a] = new]
      BY <1>2, <2>4 DEF Add
    <3> HIDE DEF a, new
    <3> QED BY <2>1, <2>2, <2>4, <3>1, RegistryAssumption DEF Typed, IndexTyped, RecordsStay, Recorded
  <2> QED BY <2>3, <2>4
<1>3. ASSUME NEW a \in Artifact, NEW b \in Artifact, Recorded(a), index' = [index EXCEPT ![a] = [index[a] EXCEPT !.supersededBy = b]]
      PROVE  IndexTyped' /\ RecordsStay
  <2>1. index[a] \in Records
    BY <1>3 DEF Typed, IndexTyped, Recorded
  <2> DEFINE new == [index[a] EXCEPT !.supersededBy = b]
  <2>2. new \in Records /\ new.path = index[a].path /\ new.bytes = index[a].bytes /\ new.archived = index[a].archived
        /\ new.inputs = index[a].inputs
    BY <2>1 DEF Records
  <2>3. index' = [index EXCEPT ![a] = new]
    BY <1>3
  <2> HIDE DEF new
  <2> QED BY <1>3, <2>2, <2>3, RegistryAssumption DEF Typed, IndexTyped, RecordsStay, Recorded
<1>4. ASSUME NEW s \in Session, RecordReceipt(s) PROVE IndexTyped' /\ RecordsStay
  <2> DEFINE a == session[s].artifact
             new == [index[a] EXCEPT !.archived = TRUE]
  <2>1. session[s].pc \in Putting /\ session[s] \in Jobs /\ JobTyped(s, session[s])
    BY <1>4 DEF RecordReceipt, Typed, Putting
  <2>2. session[s].pending \subseteq Irreplaceable /\ a \in Artifact
    BY <2>1, JobsAt
  <2>3. a \in session[s].pending /\ Recorded(a)
    BY <1>4, <2>1, <2>2 DEF RecordReceipt, Typed, JobTyped, Named, Archiving, Putting, Known, Recorded
  <2>4. index[a] \in Records
    BY <2>2, <2>3 DEF Typed, IndexTyped, Recorded
  <2>5. new \in Records /\ new.path = index[a].path /\ new.bytes = index[a].bytes /\ new.inputs = index[a].inputs
        /\ new.archived
    BY <2>4 DEF Records
  <2>6. index' = [index EXCEPT ![a] = new]
    BY <1>4 DEF RecordReceipt, Update
  <2> HIDE DEF a, new
  <2> QED BY <2>2, <2>3, <2>5, <2>6, RegistryAssumption DEF Typed, IndexTyped, RecordsStay, Recorded
<1>5. ASSUME NEW s \in Session, NEW a \in Artifact, NEW b \in Artifact, Supersede(s, a, b) PROVE IndexTyped' /\ RecordsStay
  BY <1>3, <1>5 DEF Supersede, Update
<1> QED BY <1>1, <1>2, <1>4, <1>5, IndexChanges

LEMMA StoreStep ==
  ASSUME Typed, [Next]_vars PROVE StoreTyped'
<1>1. CASE UNCHANGED <<files, objects, exposed, writes>>
  BY <1>1 DEF Typed, StoreTyped
<1>2. ASSUME NEW p \in Path, Write(p) PROVE StoreTyped'
  <2>1. \A s \in Session : {p} \cap {index[a].path : a \in Verified(s)} \subseteq Path
    OBVIOUS
  <2> HIDE DEF Verified
  <2> QED BY <1>2, <2>1, RegistryAssumption DEF Write, Typed, StoreTyped
<1>3. ASSUME NEW s \in Session, Rename(s) PROVE StoreTyped'
  <2>1. session[s].pc \in Putting /\ session[s] \in Jobs
    BY <1>3 DEF Rename, Typed, Putting
  <2>2. session[s].copy \in Bytes \cup {Absent}
    BY <2>1, JobsAt
  <2> QED BY <1>3, <2>2 DEF Rename, Typed, StoreTyped
<1>4. ASSUME NEW s \in Session, ExecuteCleanup(s) PROVE StoreTyped'
  BY <1>4 DEF ExecuteCleanup, Typed, StoreTyped
<1>5. ASSUME NEW s \in Session, NEW a \in Artifact, Unlink(s, a) PROVE StoreTyped'
  BY <1>5 DEF Unlink, Typed, StoreTyped
<1>6. ASSUME NEW s \in Session, NEW a \in Artifact,
             \/ (\E p \in Path : Register(s, a, p)) \/ BeginPut(s, a) \/ VerifyTarget(s, a)
             \/ \E b \in Artifact : Supersede(s, a, b)
      PROVE  StoreTyped'
  BY <1>1, <1>6 DEF Register, BeginPut, VerifyTarget, Supersede
<1>7. ASSUME NEW s \in Session,
             \/ Add(s) \/ ArchiveIrreplaceable(s) \/ Copy(s) \/ VerifyStored(s) \/ RecordReceipt(s)
             \/ PlanCleanup(s) \/ Cleared(s) \/ Return(s) \/ Crash(s)
      PROVE  StoreTyped'
  BY <1>1, <1>7 DEF Add, ArchiveIrreplaceable, Copy, VerifyStored, RecordReceipt, PlanCleanup, Cleared, Return, Crash
<1>8. UNCHANGED vars => StoreTyped'
  BY <1>1 DEF vars
<1> QED BY <1>2, <1>3, <1>4, <1>5, <1>6, <1>7, <1>8 DEF Next

LEMMA KnownGrows ==
  ASSUME RecordsStay PROVE Known(index) \subseteq Known(index')
BY DEF RecordsStay, Known, Recorded

(* What one process does next leaves the others what they hold.             *)
LEMMA SessionStep ==
  ASSUME Typed, RecordsStay, NEW s \in Session, NEW job, Goto(s, job), JobTyped(s, job), Named(job) \subseteq Known(index')
  PROVE  /\ session' \in [Session -> Jobs]
         /\ \A t \in Session : JobTyped(t, session'[t]) /\ Named(session'[t]) \subseteq Known(index')
<1>1. session' = [session EXCEPT ![s] = job]
  BY DEF Goto
<1>2. job \in Jobs
  BY DEF JobTyped
<1> QED BY <1>1, <1>2, KnownGrows DEF Typed

(* Each step takes a process to something it may hold.                      *)
LEMMA IdleTyped == \A s : JobTyped(s, Idle) /\ Named(Idle) = {} /\ Marked(Idle) = {}
BY DEF JobTyped, Jobs, Idle, Named, Marked, Archiving, Putting

LEMMA RegisterStep ==
  ASSUME Typed, NEW s \in Session, NEW a \in Artifact, NEW p \in Path, Register(s, a, p)
  PROVE  \E job : Goto(s, job) /\ JobTyped(s, job) /\ Named(job) = {} /\ job.pc = "adding"
<1>1. PICK inputs \in Derivations[a] : Goto(s, [pc |-> "adding", artifact |-> a, record |-> Record(p, files[p], inputs)])
  BY DEF Register
<1>2. files[p] \in Bytes /\ inputs \in SUBSET Bytes
  BY RegistryAssumption DEF Register, Typed, StoreTyped
<1> DEFINE record == Record(p, files[p], inputs)
<1>3. record \in Records /\ record.inputs = inputs /\ ~record.archived
  BY <1>2 DEF Record, Records
<1> HIDE DEF record
<1> DEFINE job == [pc |-> "adding", artifact |-> a, record |-> record]
<1>4. JobTyped(s, job) /\ Named(job) = {}
  BY <1>3 DEF JobTyped, Jobs, Named, Marked, Archiving, Putting
<1> QED BY <1>1, <1>4 DEF record

LEMMA ArchiveStep ==
  ASSUME Typed, NEW s \in Session, ArchiveIrreplaceable(s)
  PROVE  \E job : Goto(s, job) /\ JobTyped(s, job) /\ Named(job) \subseteq Known(index) /\ job.pc = "archiving"
<1> DEFINE pending == {a \in Irreplaceable : Recorded(a) /\ ~index[a].archived}
           job == [pc |-> "archiving", pending |-> pending]
<1>1. Goto(s, job) /\ s \in Archivers
  BY DEF ArchiveIrreplaceable
<1>2. pending \subseteq Irreplaceable /\ pending \subseteq Known(index)
  BY RegistryAssumption DEF Known, Recorded
<1> HIDE DEF pending
<1>3. JobTyped(s, job) /\ Named(job) = pending
  BY <1>1, <1>2 DEF JobTyped, Jobs, Named, Archiving, Putting
<1> QED BY <1>1, <1>2, <1>3

(* What an archiver holds, whatever it does with it.                        *)
LEMMA Pending ==
  ASSUME Typed, NEW s \in Session, session[s].pc \in Archiving
  PROVE  /\ s \in Archivers /\ session[s].pending \subseteq Irreplaceable
         /\ session[s].pending \subseteq Known(index)
         /\ session[s].pc \in Putting =>
              /\ session[s] \in [pc : Putting, pending : SUBSET Irreplaceable, artifact : Artifact, copy : Bytes \cup {Absent}]
              /\ session[s].artifact \in session[s].pending
              /\ Recorded(session[s].artifact) /\ index[session[s].artifact].bytes \in Bytes
              /\ index[session[s].artifact].path \in Path
         /\ session[s].pc = "archiving" => session[s] \in [pc : {"archiving"}, pending : SUBSET Irreplaceable]
<1>1. JobTyped(s, session[s]) /\ Named(session[s]) \subseteq Known(index) /\ session[s] \in Jobs
  BY DEF Typed
<1>2. s \in Archivers /\ session[s].pending \subseteq Known(index)
  BY <1>1 DEF JobTyped, Named
<1>3. session[s].pending \subseteq Irreplaceable
  BY <1>1, JobsAt DEF Archiving
<1>4. ASSUME session[s].pc \in Putting
      PROVE  /\ session[s].artifact \in session[s].pending
             /\ Recorded(session[s].artifact) /\ index[session[s].artifact] \in Records
  <2>1. session[s].artifact \in session[s].pending
    BY <1>1, <1>4 DEF JobTyped
  <2> QED BY <2>1, <1>2 DEF Known, Recorded, Typed, IndexTyped
<1> QED BY <1>1, <1>2, <1>3, <1>4, JobsAt DEF Records

(* A process that goes on archiving.                                        *)
LEMMA PutTyped ==
  ASSUME NEW s \in Archivers, NEW pc \in Putting, NEW pending \in SUBSET Irreplaceable, NEW a \in pending,
         NEW copy \in Bytes \cup {Absent}, a \in Artifact
  PROVE  LET job == [pc |-> pc, pending |-> pending, artifact |-> a, copy |-> copy]
         IN  JobTyped(s, job) /\ Named(job) = pending
BY DEF JobTyped, Jobs, Named, Archiving, Putting

LEMMA NextTyped ==
  ASSUME NEW s \in Archivers, NEW pending \in SUBSET Irreplaceable
  PROVE  LET job == [pc |-> "archiving", pending |-> pending]
         IN  JobTyped(s, job) /\ Named(job) = pending
BY DEF JobTyped, Jobs, Named, Archiving, Putting

LEMMA BeginPutStep ==
  ASSUME Typed, NEW s \in Session, NEW a \in Artifact, BeginPut(s, a)
  PROVE  \E job : /\ Goto(s, job) /\ JobTyped(s, job) /\ Named(job) \subseteq Known(index)
                  /\ job.pc \in {"copying", "checking", "archiving", "idle"}
                  /\ job.pc = "copying" => job.artifact = a /\ objects[index[a].bytes] = Absent
<1> DEFINE old == session[s]
           b == index[a].bytes
           at(pc) == [pc |-> pc, pending |-> old.pending, artifact |-> a, copy |-> Absent]
<1>1. old.pc = "archiving" /\ a \in old.pending /\ s \in Archivers
  BY Pending DEF BeginPut, Archiving
<1>2. old.pending \in SUBSET Irreplaceable /\ old.pending \subseteq Known(index)
      /\ old = [pc |-> "archiving", pending |-> old.pending]
  BY <1>1, Pending DEF Archiving
<1>3. CASE index[a].archived
  <2> DEFINE job == [old EXCEPT !.pending = @ \ {a}]
  <2>1. job = [pc |-> "archiving", pending |-> old.pending \ {a}]
    BY <1>2
  <2>2. JobTyped(s, job) /\ Named(job) = old.pending \ {a}
    BY <2>1, <1>1, <1>2, NextTyped
  <2>3. Goto(s, job)
    BY <1>3 DEF BeginPut
  <2> HIDE DEF old
  <2> QED BY <2>1, <2>2, <2>3, <1>2
<1>4. CASE ~index[a].archived /\ files[index[a].path] # b
  BY <1>4, IdleTyped DEF BeginPut, Idle
<1>5. CASE ~index[a].archived /\ files[index[a].path] = b
  <2> DEFINE pc == IF objects[b] # Absent THEN "checking" ELSE "copying"
  <2>1. Goto(s, at(pc))
    BY <1>5 DEF BeginPut
  <2>2. pc \in Putting /\ pc \in {"checking", "copying"} /\ (pc = "copying" => objects[b] = Absent)
    BY DEF Putting
  <2> HIDE DEF pc, old
  <2>3. JobTyped(s, at(pc)) /\ Named(at(pc)) = old.pending
    BY <2>2, <1>1, <1>2, PutTyped
  <2> QED BY <2>1, <2>2, <2>3, <1>2
<1> QED BY <1>3, <1>4, <1>5

(* The steps between, each to its next place or to the end of the call.     *)
LEMMA PutStep ==
  ASSUME Typed, NEW s \in Session, Copy(s) \/ Rename(s) \/ VerifyStored(s)
  PROVE  \E job : /\ Goto(s, job) /\ JobTyped(s, job) /\ Named(job) \subseteq Known(index)
                  /\ \/ job = Idle
                     \/ /\ job.artifact = session[s].artifact /\ job.pc \in Putting \ {"copying"}
                        /\ job.pc = "renaming" <=> session[s].pc = "copying"
                        /\ job.pc = "recording" => VerifyStored(s) /\ objects[index[job.artifact].bytes] = index[job.artifact].bytes
<1> DEFINE old == session[s]
           go(pc, copy) == [pc |-> pc, pending |-> old.pending, artifact |-> old.artifact, copy |-> copy]
<1>1. old.pc \in Putting /\ old.pc \in Archiving
  BY DEF Copy, Rename, VerifyStored, Putting, Archiving
<1>2. /\ old = go(old.pc, old.copy) /\ s \in Archivers /\ old.artifact \in Artifact /\ old.copy \in Bytes \cup {Absent}
      /\ old.pending \in SUBSET Irreplaceable /\ old.pending \subseteq Known(index) /\ old.artifact \in old.pending
      /\ old \in [pc : Putting, pending : SUBSET Irreplaceable, artifact : Artifact, copy : Bytes \cup {Absent}]
  BY <1>1, Pending
<1> HIDE DEF old
<1>3. ASSUME NEW pc \in Putting, NEW copy \in Bytes \cup {Absent}
      PROVE  JobTyped(s, go(pc, copy)) /\ Named(go(pc, copy)) \subseteq Known(index)
  BY <1>2, PutTyped
<1>4. ASSUME Copy(s) PROVE Goto(s, Idle) \/ \E copy \in Bytes : Goto(s, go("renaming", copy))
  <2> DEFINE source == files[index[old.artifact].path]
  <2>1. source \in Bytes \cup {Absent}
    BY <1>1, Pending DEF old, Typed, StoreTyped
  <2>2. Goto(s, IF source = Absent THEN Idle ELSE [old EXCEPT !.pc = "renaming", !.copy = source])
    BY <1>4 DEF Copy, old
  <2> HIDE DEF source
  <2>3. [old EXCEPT !.pc = "renaming", !.copy = source] = go("renaming", source)
    <3> DEFINE new == [old EXCEPT !.pc = "renaming", !.copy = source]
    <3>1. /\ new \in [pc : Putting, pending : SUBSET Irreplaceable, artifact : Artifact, copy : Bytes \cup {Absent}]
          /\ new.pc = "renaming" /\ new.copy = source /\ new.pending = old.pending /\ new.artifact = old.artifact
      BY <1>2, <2>1 DEF Putting
    <3> HIDE DEF new
    <3>2. new = go("renaming", source)
      BY <3>1
    <3> QED BY <3>2 DEF new
  <2> QED BY <2>1, <2>2, <2>3
<1>5. ASSUME Rename(s) PROVE Goto(s, go("checking", Absent))
  <2>1. [old EXCEPT !.pc = "checking", !.copy = Absent] = go("checking", Absent)
    <3> DEFINE new == [old EXCEPT !.pc = "checking", !.copy = Absent]
    <3>1. /\ new \in [pc : Putting, pending : SUBSET Irreplaceable, artifact : Artifact, copy : Bytes \cup {Absent}]
          /\ new.pc = "checking" /\ new.copy = Absent /\ new.pending = old.pending /\ new.artifact = old.artifact
      BY <1>2 DEF Putting
    <3> HIDE DEF new
    <3>2. new = go("checking", Absent)
      BY <3>1
    <3> QED BY <3>2 DEF new
  <2> QED BY <2>1, <1>5 DEF Rename, old
<1>6. ASSUME VerifyStored(s)
      PROVE  \/ Goto(s, Idle)
             \/ Goto(s, go("recording", old.copy)) /\ objects[index[old.artifact].bytes] = index[old.artifact].bytes
  <2>1. [old EXCEPT !.pc = "recording"] = go("recording", old.copy)
    BY <1>2
  <2> QED BY <2>1, <1>6 DEF VerifyStored, old
<1>7. /\ Copy(s) => old.pc = "copying"
      /\ Rename(s) => old.pc = "renaming"
      /\ VerifyStored(s) => old.pc = "checking"
  BY DEF Copy, Rename, VerifyStored, old
<1> DEFINE Leads(job) ==
                  /\ Goto(s, job) /\ JobTyped(s, job) /\ Named(job) \subseteq Known(index)
                  /\ \/ job = Idle
                     \/ /\ job.artifact = old.artifact /\ job.pc \in Putting \ {"copying"}
                        /\ job.pc = "renaming" <=> old.pc = "copying"
                        /\ job.pc = "recording" => VerifyStored(s) /\ objects[index[job.artifact].bytes] = index[job.artifact].bytes
<1>8. ASSUME Goto(s, Idle) PROVE Leads(Idle)
  BY <1>8, IdleTyped
<1>9. \E job : Leads(job)
  <2>1. CASE Goto(s, Idle)
    BY <2>1, <1>8
  <2>2. ASSUME NEW copy \in Bytes, Copy(s), Goto(s, go("renaming", copy)) PROVE Leads(go("renaming", copy))
    BY <2>2, <1>3, <1>7 DEF Putting
  <2>3. ASSUME Rename(s) PROVE Leads(go("checking", Absent))
    BY <2>3, <1>3, <1>5, <1>7 DEF Putting
  <2>4. ASSUME VerifyStored(s), ~ Goto(s, Idle) PROVE Leads(go("recording", old.copy))
    BY <2>4, <1>2, <1>3, <1>6, <1>7 DEF Putting
  <2> HIDE DEF Leads, go
  <2> QED BY <1>4, <2>1, <2>2, <2>3, <2>4
<1> QED BY <1>9 DEF Leads, old

LEMMA ReceiptStep ==
  ASSUME Typed, NEW s \in Session, RecordReceipt(s)
  PROVE  \E job : /\ Goto(s, job) /\ JobTyped(s, job) /\ Named(job) \subseteq Known(index) /\ job.pc \in {"idle", "archiving"}
<1> DEFINE left == session[s].pending \ {session[s].artifact}
           job == [pc |-> "archiving", pending |-> left]
<1>1. s \in Archivers /\ session[s].pending \in SUBSET Irreplaceable /\ session[s].pending \subseteq Known(index)
  BY Pending DEF RecordReceipt, Archiving, Putting
<1>2. Goto(s, IF left = {} THEN Idle ELSE job)
  BY DEF RecordReceipt
<1>3. left \in SUBSET Irreplaceable /\ left \subseteq Known(index)
  BY <1>1
<1> HIDE DEF left
<1>4. JobTyped(s, job) /\ Named(job) = left
  BY <1>1, <1>3, NextTyped
<1> QED BY <1>2, <1>3, <1>4, IdleTyped DEF Idle

(* A cleanup only ever loses from what it names.                            *)
LEMMA PlanStep ==
  ASSUME Typed, NEW s \in Session, PlanCleanup(s)
  PROVE  \E job : /\ Goto(s, job) /\ JobTyped(s, job) /\ Named(job) \subseteq Known(index) /\ job.pc = "planned"
                  /\ \A a \in Marked(job) : ~ Blocks(a)
<1>1. PICK candidates \in SUBSET {a \in Artifact : Recorded(a)} :
        Goto(s, [pc |-> "planned", safe |-> \A a \in candidates : ~Blocks(a), removable |-> {a \in candidates : ~Blocks(a)}])
  BY DEF PlanCleanup
<1> DEFINE safe == \A a \in candidates : ~Blocks(a)
           removable == {a \in candidates : ~Blocks(a)}
           job == [pc |-> "planned", safe |-> safe, removable |-> removable]
<1>2. safe \in BOOLEAN /\ removable \in SUBSET Artifact /\ removable \subseteq Known(index) /\ \A a \in removable : ~Blocks(a)
  BY DEF Known, Recorded
<1> HIDE DEF safe, removable
<1>3. JobTyped(s, job) /\ Named(job) = removable /\ Marked(job) = removable
  BY <1>2 DEF JobTyped, Jobs, Named, Marked, Archiving, Putting
<1> QED BY <1>1, <1>2, <1>3 DEF safe, removable

LEMMA CleanTyped ==
  ASSUME NEW s, NEW left \in SUBSET Artifact, NEW targets \in SUBSET Artifact, NEW suspect \in SUBSET Artifact
  PROVE  /\ LET job == [pc |-> "verifying", left |-> left, targets |-> targets, suspect |-> suspect]
            IN  JobTyped(s, job) /\ Named(job) = left \cup targets /\ Marked(job) = left \cup targets
         /\ LET job == [pc |-> "unlinking", left |-> left]
            IN  JobTyped(s, job) /\ Named(job) = left /\ Marked(job) = left
BY DEF JobTyped, Jobs, Named, Marked, Archiving, Putting

LEMMA CleanupStep ==
  ASSUME Typed, NEW s \in Session,
         ExecuteCleanup(s) \/ Cleared(s) \/ \E a \in Artifact : VerifyTarget(s, a) \/ Unlink(s, a)
  PROVE  \E job : /\ Goto(s, job) /\ JobTyped(s, job) /\ Named(job) \subseteq Known(index)
                  /\ job.pc \in {"idle", "verifying", "unlinking"} /\ Marked(job) \subseteq Marked(session[s])
                  /\ job.pc = "verifying" => \/ ExecuteCleanup(s) /\ job.targets = {}
                                             \/ /\ session[s].pc = "verifying"
                                                /\ \A a \in job.targets : a \in session[s].targets \/ files[index[a].path] = index[a].bytes
                  /\ job.pc = "unlinking" => \/ session[s].pc = "verifying" /\ job.left \subseteq session[s].targets
                                             \/ session[s].pc = "unlinking" /\ job.left \subseteq session[s].left
<1> DEFINE old == session[s]
<1>1. old \in Jobs /\ Named(old) \subseteq Known(index)
  BY DEF Typed
<1>2. Known(index) \subseteq Artifact
  BY DEF Known
<1>3. old.pc \notin Archiving
  BY DEF ExecuteCleanup, Cleared, VerifyTarget, Unlink, Archiving, Putting
<1>4. Named(old) = Marked(old)
  BY <1>3 DEF Named
<1> DEFINE Leads(job) ==
                  /\ Goto(s, job) /\ JobTyped(s, job) /\ Named(job) \subseteq Known(index)
                  /\ job.pc \in {"idle", "verifying", "unlinking"} /\ Marked(job) \subseteq Marked(old)
                  /\ job.pc = "verifying" => \/ ExecuteCleanup(s) /\ job.targets = {}
                                             \/ /\ old.pc = "verifying"
                                                /\ \A a \in job.targets : a \in old.targets \/ files[index[a].path] = index[a].bytes
                  /\ job.pc = "unlinking" => \/ old.pc = "verifying" /\ job.left \subseteq old.targets
                                             \/ old.pc = "unlinking" /\ job.left \subseteq old.left
<1>5. ASSUME Goto(s, Idle) PROVE Leads(Idle)
  BY <1>5, IdleTyped DEF Idle
<1>6. ASSUME ExecuteCleanup(s) PROVE \E job : Leads(job)
  <2> DEFINE job == [pc |-> "verifying", left |-> old.removable, targets |-> {}, suspect |-> {}]
  <2>1. old.pc = "planned" /\ Goto(s, IF ~old.safe THEN Idle ELSE job)
    BY <1>6 DEF ExecuteCleanup
  <2>2. old.removable \in SUBSET Artifact /\ Marked(old) = old.removable
    BY <1>1, <2>1, JobsAt DEF Marked
  <2> HIDE DEF old
  <2>3. JobTyped(s, job) /\ Named(job) = old.removable /\ Marked(job) = old.removable
    <3>1. {} \in SUBSET Artifact /\ old.removable \cup {} = old.removable
      OBVIOUS
    <3>2. JobTyped(s, job) /\ Named(job) = old.removable \cup {} /\ Marked(job) = old.removable \cup {}
      <4>1. \A left, none \in SUBSET Artifact :
              LET new == [pc |-> "verifying", left |-> left, targets |-> none, suspect |-> none]
              IN  JobTyped(s, new) /\ Named(new) = left \cup none /\ Marked(new) = left \cup none
        BY CleanTyped
      <4> QED BY <2>2, <3>1, <4>1
    <3> QED BY <3>1, <3>2
  <2>4. Goto(s, job) => Leads(job)
    BY <2>2, <2>3, <1>1, <1>4, <1>6
  <2> HIDE DEF Leads, job
  <2> QED BY <2>1, <2>4, <1>5
<1>7. ASSUME NEW a \in Artifact, VerifyTarget(s, a) PROVE \E job : Leads(job)
  <2> DEFINE good(readable) == readable /\ files[index[a].path] = index[a].bytes
  <2>1. PICK readable \in BOOLEAN :
          Goto(s, [old EXCEPT !.left = @ \ {a}, !.targets = IF good(readable) THEN @ \cup {a} ELSE @,
                              !.suspect = IF files[index[a].path] = Absent \/ good(readable) THEN @ ELSE @ \cup {a}])
    BY <1>7 DEF VerifyTarget
  <2> DEFINE left == old.left \ {a}
             targets == IF good(readable) THEN old.targets \cup {a} ELSE old.targets
             suspect == IF files[index[a].path] = Absent \/ good(readable) THEN old.suspect ELSE old.suspect \cup {a}
             job == [pc |-> "verifying", left |-> left, targets |-> targets, suspect |-> suspect]
  <2>2. old.pc = "verifying" /\ a \in old.left
    BY <1>7 DEF VerifyTarget
  <2>3. old \in [pc : {"verifying"}, left : SUBSET Artifact, targets : SUBSET Artifact, suspect : SUBSET Artifact]
        /\ Marked(old) = old.left \cup old.targets
    BY <1>1, <2>2, JobsAt DEF Marked
  <2> HIDE DEF old, good
  <2>4. left \in SUBSET Artifact /\ targets \in SUBSET Artifact /\ suspect \in SUBSET Artifact
        /\ left \cup targets \subseteq Marked(old)
        /\ \A c \in targets : c \in old.targets \/ files[index[c].path] = index[c].bytes
    BY <2>2, <2>3 DEF good
  <2>5. Goto(s, job)
    <3> DEFINE new == [old EXCEPT !.left = left, !.targets = targets, !.suspect = suspect]
    <3>1. Goto(s, new)
      BY <2>1
    <3> HIDE DEF left, targets, suspect
    <3>2. /\ new \in [pc : {"verifying"}, left : SUBSET Artifact, targets : SUBSET Artifact, suspect : SUBSET Artifact]
          /\ new.left = left /\ new.targets = targets /\ new.suspect = suspect
      BY <2>3, <2>4
    <3> HIDE DEF new
    <3>3. new = job
      BY <3>2
    <3> QED BY <3>1, <3>3
  <2> HIDE DEF left, targets, suspect
  <2>6. JobTyped(s, job) /\ Named(job) = left \cup targets /\ Marked(job) = left \cup targets
    <3>1. left \in SUBSET Artifact /\ targets \in SUBSET Artifact /\ suspect \in SUBSET Artifact
      BY <2>4
    <3> QED BY <3>1, CleanTyped
  <2> QED BY <2>2, <2>4, <2>5, <2>6, <1>1, <1>4
<1>8. ASSUME Cleared(s) PROVE \E job : Leads(job)
  <2> DEFINE job == [pc |-> "unlinking", left |-> old.targets]
  <2>1. old.pc = "verifying" /\ Goto(s, IF old.suspect # {} THEN Idle ELSE job)
    BY <1>8 DEF Cleared
  <2>2. old.targets \in SUBSET Artifact /\ old.targets \subseteq Marked(old)
    BY <1>1, <2>1, JobsAt DEF Marked
  <2> HIDE DEF old
  <2>3. JobTyped(s, job) /\ Named(job) = old.targets /\ Marked(job) = old.targets
    BY <2>2, CleanTyped
  <2>4. Goto(s, job) => Leads(job)
    BY <2>1, <2>2, <2>3, <1>1, <1>4
  <2> HIDE DEF Leads, job
  <2> QED BY <2>1, <2>4, <1>5
<1>9. ASSUME NEW a \in Artifact, Unlink(s, a) PROVE \E job : Leads(job)
  <2> DEFINE left == old.left \ {a}
             job == [pc |-> "unlinking", left |-> left]
  <2>1. old.pc = "unlinking" /\ Goto(s, IF left = {} THEN Idle ELSE [old EXCEPT !.left = left])
    BY <1>9 DEF Unlink
  <2>2. old \in [pc : {"unlinking"}, left : SUBSET Artifact] /\ Marked(old) = old.left
    BY <1>1, <2>1, JobsAt DEF Marked
  <2> HIDE DEF old
  <2>3. [old EXCEPT !.left = left] = job /\ left \in SUBSET Artifact /\ left \subseteq old.left
    BY <2>2
  <2> HIDE DEF left
  <2>4. JobTyped(s, job) /\ Named(job) = left /\ Marked(job) = left
    BY <2>3, CleanTyped
  <2>5. Goto(s, job) => Leads(job)
    BY <2>1, <2>2, <2>3, <2>4, <1>1, <1>4
  <2> HIDE DEF Leads, job
  <2> QED BY <2>1, <2>3, <2>5, <1>5
<1>10. PICK job : Leads(job)
  <2> HIDE DEF Leads
  <2> QED BY <1>6, <1>7, <1>8, <1>9
<1> QED BY <1>10

(* What a process has verified and is about to delete.                      *)
VerifiedBy(job) ==
  CASE job.pc = "verifying" -> job.targets [] job.pc = "unlinking" -> job.left [] OTHER -> {}

(* What a process goes on to hold is what it held or has just found out.    *)
Lawful(s, job) ==
  /\ job.pc \in {"copying", "renaming"} =>
       \/ objects[index[job.artifact].bytes] = Absent
       \/ session[s].pc = "copying" /\ job.artifact = session[s].artifact
  /\ job.pc = "recording" => objects[index[job.artifact].bytes] = index[job.artifact].bytes
  /\ \A a \in Marked(job) : a \in Marked(session[s]) \/ ~ Blocks(a)
  /\ \A a \in VerifiedBy(job) : a \in VerifiedBy(session[s]) \/ files[index[a].path] = index[a].bytes

LEMMA LawfulElsewhere ==
  ASSUME NEW s, NEW job, job.pc \in {"idle", "adding", "archiving", "checking"} PROVE Lawful(s, job)
BY DEF Lawful, Marked, VerifiedBy

(* Every step moves one process, or none, to something it may hold.         *)
LEMMA Moves ==
  ASSUME Typed, [Next]_vars
  PROVE  \/ UNCHANGED session
         \/ \E s \in Session : \E job : Goto(s, job) /\ JobTyped(s, job) /\ Named(job) \subseteq Known(index) /\ Lawful(s, job)
<1> DEFINE Moved(s) == \E job : Goto(s, job) /\ JobTyped(s, job) /\ Named(job) \subseteq Known(index) /\ Lawful(s, job)
<1>1. ASSUME NEW s \in Session, Goto(s, Idle) PROVE Moved(s)
  <2>1. Lawful(s, Idle)
    BY LawfulElsewhere DEF Idle
  <2> QED BY <1>1, <2>1, IdleTyped
<1>2. ASSUME NEW s \in Session, NEW a \in Artifact, \E p \in Path : Register(s, a, p) PROVE Moved(s)
  BY <1>2, RegisterStep, LawfulElsewhere
<1>3. ASSUME NEW s \in Session, NEW a \in Artifact, BeginPut(s, a) PROVE Moved(s)
  <2>1. PICK job :
                  /\ Goto(s, job) /\ JobTyped(s, job) /\ Named(job) \subseteq Known(index)
                  /\ job.pc \in {"copying", "checking", "archiving", "idle"}
                  /\ job.pc = "copying" => job.artifact = a /\ objects[index[a].bytes] = Absent
    BY <1>3, BeginPutStep
  <2>2. Lawful(s, job)
    <3>1. CASE job.pc = "copying"
      BY <2>1, <3>1 DEF Lawful, Marked, VerifiedBy
    <3>2. CASE job.pc # "copying"
      BY <2>1, <3>2, LawfulElsewhere
    <3> QED BY <3>1, <3>2
  <2> QED BY <2>1, <2>2
<1>4. ASSUME NEW s \in Session, ArchiveIrreplaceable(s) \/ RecordReceipt(s) PROVE Moved(s)
  BY <1>4, ArchiveStep, ReceiptStep, LawfulElsewhere
<1>5. ASSUME NEW s \in Session, Copy(s) \/ Rename(s) \/ VerifyStored(s) PROVE Moved(s)
  <2>1. PICK job :
                  /\ Goto(s, job) /\ JobTyped(s, job) /\ Named(job) \subseteq Known(index)
                  /\ \/ job = Idle
                     \/ /\ job.artifact = session[s].artifact /\ job.pc \in Putting \ {"copying"}
                        /\ job.pc = "renaming" <=> session[s].pc = "copying"
                        /\ job.pc = "recording" => VerifyStored(s) /\ objects[index[job.artifact].bytes] = index[job.artifact].bytes
    BY <1>5, PutStep
  <2>2. Lawful(s, job)
    <3>1. CASE job = Idle
      BY <3>1, LawfulElsewhere DEF Idle
    <3>2. CASE job # Idle
      BY <2>1, <3>2 DEF Lawful, Marked, VerifiedBy, Putting
    <3> QED BY <3>1, <3>2
  <2> QED BY <2>1, <2>2
<1>6. ASSUME NEW s \in Session, PlanCleanup(s) PROVE Moved(s)
  <2>1. PICK job :
                  /\ Goto(s, job) /\ JobTyped(s, job) /\ Named(job) \subseteq Known(index) /\ job.pc = "planned"
                  /\ \A a \in Marked(job) : ~ Blocks(a)
    BY <1>6, PlanStep
  <2>2. Lawful(s, job)
    BY <2>1 DEF Lawful, VerifiedBy
  <2> QED BY <2>1, <2>2
<1>7. ASSUME NEW s \in Session,
             ExecuteCleanup(s) \/ Cleared(s) \/ \E a \in Artifact : VerifyTarget(s, a) \/ Unlink(s, a)
      PROVE  Moved(s)
  <2>1. PICK job :
                  /\ Goto(s, job) /\ JobTyped(s, job) /\ Named(job) \subseteq Known(index)
                  /\ job.pc \in {"idle", "verifying", "unlinking"} /\ Marked(job) \subseteq Marked(session[s])
                  /\ job.pc = "verifying" => \/ ExecuteCleanup(s) /\ job.targets = {}
                                             \/ /\ session[s].pc = "verifying"
                                                /\ \A a \in job.targets : a \in session[s].targets \/ files[index[a].path] = index[a].bytes
                  /\ job.pc = "unlinking" => \/ session[s].pc = "verifying" /\ job.left \subseteq session[s].targets
                                             \/ session[s].pc = "unlinking" /\ job.left \subseteq session[s].left
    BY <1>7, CleanupStep
  <2>2. \A a \in VerifiedBy(job) : a \in VerifiedBy(session[s]) \/ files[index[a].path] = index[a].bytes
    <3>1. CASE job.pc = "verifying"
      BY <2>1, <3>1 DEF VerifiedBy
    <3>2. CASE job.pc = "unlinking"
      BY <2>1, <3>2 DEF VerifiedBy
    <3>3. CASE job.pc = "idle"
      BY <3>3 DEF VerifiedBy
    <3> QED BY <2>1, <3>1, <3>2, <3>3
  <2>3. Lawful(s, job)
    BY <2>1, <2>2 DEF Lawful
  <2> QED BY <2>1, <2>3
<1>8. ASSUME NEW s \in Session, Add(s) \/ Return(s) \/ Crash(s) PROVE Moved(s)
  BY <1>1, <1>8 DEF Add, Return, Crash
<1>9. ASSUME NEW s \in Session, NEW a \in Artifact, NEW b \in Artifact, Supersede(s, a, b) PROVE UNCHANGED session
  BY <1>9 DEF Supersede
<1>10. (UNCHANGED vars \/ \E p \in Path : Write(p)) => UNCHANGED session
  BY DEF vars, Write
<1>11. UNCHANGED session \/ \E s \in Session : Moved(s)
  <2> HIDE DEF Moved
  <2> QED BY <1>2, <1>3, <1>4, <1>5, <1>6, <1>7, <1>8, <1>9, <1>10 DEF Next
<1> QED BY <1>11

LEMMA Moved ==
  ASSUME Typed, [Next]_vars, NEW t \in Session
  PROVE  /\ JobTyped(t, session'[t]) /\ Named(session'[t]) \subseteq Known(index)
         /\ session'[t] = session[t] \/ Lawful(t, session'[t])
<1>1. CASE UNCHANGED session
  BY <1>1 DEF Typed
<1>2. ASSUME NEW s \in Session, NEW job, Goto(s, job), JobTyped(s, job), Named(job) \subseteq Known(index), Lawful(s, job)
      PROVE  /\ JobTyped(t, session'[t]) /\ Named(session'[t]) \subseteq Known(index)
             /\ session'[t] = session[t] \/ Lawful(t, session'[t])
  <2>1. session'[s] = job /\ (t # s => session'[t] = session[t])
    BY <1>2 DEF Goto, Typed
  <2> QED BY <1>2, <2>1 DEF Typed
<1> QED BY <1>1, <1>2, Moves

LEMMA TypeInit == Init => Typed
<1> SUFFICES ASSUME Init PROVE Typed
  OBVIOUS
<1>1. StoreTyped /\ IndexTyped
  BY RegistryAssumption DEF Init, StoreTyped, IndexTyped, Recorded
<1>2. Idle \in Jobs
  BY DEF Jobs
<1> QED BY <1>1, <1>2, IdleTyped DEF Init, Typed

LEMMA TypeStep == Typed /\ [Next]_vars => Typed' /\ RecordsStay
<1> SUFFICES ASSUME Typed, [Next]_vars PROVE Typed' /\ RecordsStay
  OBVIOUS
<1>1. IndexTyped' /\ RecordsStay /\ StoreTyped'
  BY IndexStep, StoreStep
<1>2. /\ session' \in [Session -> Jobs]
      /\ \A t \in Session : JobTyped(t, session'[t]) /\ Named(session'[t]) \subseteq Known(index')
  <2>1. CASE UNCHANGED session
    BY <1>1, <2>1, KnownGrows DEF Typed
  <2>2. ASSUME NEW s \in Session, NEW job, Goto(s, job), JobTyped(s, job), Named(job) \subseteq Known(index)
        PROVE  <1>2!1 /\ <1>2!2
    BY <1>1, <2>2, KnownGrows, SessionStep
  <2> QED BY <2>1, <2>2, Moves
<1> QED BY <1>1, <1>2 DEF Typed

(* What is typed is what the model says of its types.                       *)
LEMMA VerifiedIsMarked ==
  ASSUME NEW s \in Session, session[s] \in Jobs PROVE Verified(s) \subseteq Marked(session[s])
BY JobsAt DEF Verified, Marked

(* Every reachable state is well typed, for any number of processes and     *)
(* archivers; what a cleanup is about to delete is on record.               *)
THEOREM TypeCorrect == Spec => []TypeOK
<1>1. Typed => TypeOK
  <2> SUFFICES ASSUME Typed PROVE TypeOK
    OBVIOUS
  <2>1. \A s \in Session : Verified(s) \subseteq Known(index)
    <3> TAKE s \in Session
    <3>1. session[s] \in Jobs /\ Named(session[s]) \subseteq Known(index)
      BY DEF Typed
    <3>2. session[s].pc \in {"verifying", "unlinking"} => Named(session[s]) = Marked(session[s])
      BY DEF Named, Archiving, Putting
    <3> QED BY <3>1, <3>2, VerifiedIsMarked DEF Verified
  <2>2. \A s \in Session : exposed[s] \subseteq Path
    BY DEF Typed, StoreTyped
  <2> QED BY <2>1, <2>2 DEF Typed, TypeOK, StoreTyped, IndexTyped, Recorded, Known
<1> QED BY <1>1, TypeInit, TypeStep, PTL DEF Spec

-----------------------------------------------------------------------------
(* Two that archive at a time spoil each other's copies.                    *)
OneArchiver == \A s, t \in Archivers : s = t

(* Why a receipt can be trusted: the archiver found no object where it is   *)
(* about to rename its copy, and nobody else renames; what is there is not  *)
(* touched again.                                                           *)
PutInv ==
  \A s \in Session :
    LET job == session[s]
    IN  /\ job.pc \in {"copying", "renaming"} => objects[index[job.artifact].bytes] = Absent
        /\ job.pc = "recording" => objects[index[job.artifact].bytes] = index[job.artifact].bytes

CustodyInv == CustodyHolds /\ PutInv

LEMMA CustodyInit == Init => CustodyInv
BY DEF Init, CustodyInv, CustodyHolds, PutInv, Recorded, Idle

LEMMA Renames ==
  ASSUME [Next]_vars PROVE UNCHANGED objects \/ \E s \in Session : Rename(s)
<1>1. ASSUME NEW s \in Session, NEW a \in Artifact,
             \/ (\E p \in Path : Register(s, a, p)) \/ BeginPut(s, a) \/ VerifyTarget(s, a) \/ Unlink(s, a)
             \/ \E b \in Artifact : Supersede(s, a, b)
      PROVE  UNCHANGED objects
  BY <1>1 DEF Register, BeginPut, VerifyTarget, Unlink, Supersede
<1>2. ASSUME NEW s \in Session,
             \/ Add(s) \/ ArchiveIrreplaceable(s) \/ Copy(s) \/ VerifyStored(s) \/ RecordReceipt(s) \/ PlanCleanup(s)
             \/ ExecuteCleanup(s) \/ Cleared(s) \/ Return(s) \/ Crash(s)
      PROVE  UNCHANGED objects
  BY <1>2 DEF Add, ArchiveIrreplaceable, Copy, VerifyStored, RecordReceipt, PlanCleanup, ExecuteCleanup, Cleared, Return, Crash
<1>3. (UNCHANGED vars \/ \E p \in Path : Write(p)) => UNCHANGED objects
  BY DEF vars, Write
<1> QED BY <1>1, <1>2, <1>3 DEF Next

(* No step but the rename touches an object, and that one puts it where     *)
(* there was none.                                                          *)
LEMMA ObjectsKept ==
  ASSUME OneArchiver, Typed, CustodyInv, [Next]_vars
  PROVE  \A b \in Bytes : objects[b] = b => objects'[b] = b
<1>1. ASSUME NEW s \in Session, Rename(s) PROVE \A b \in Bytes : objects[b] = b => objects'[b] = b
  <2> DEFINE c == index[session[s].artifact].bytes
  <2>1. objects[c] = Absent
    BY <1>1 DEF Rename, CustodyInv, PutInv
  <2>2. objects' = [objects EXCEPT ![c] = session[s].copy]
    BY <1>1 DEF Rename
  <2> HIDE DEF c
  <2> QED BY <2>1, <2>2, RegistryAssumption DEF Typed, StoreTyped
<1> QED BY <1>1, Renames

(* A receipt is entered only for an object that was read back.              *)
LEMMA Receipts ==
  ASSUME Typed, CustodyInv, [Next]_vars, NEW a \in Artifact, (Recorded(a) /\ index[a].archived)'
  PROVE  objects[index'[a].bytes] = index'[a].bytes /\ index'[a].bytes \in Bytes
<1>1. Typed' /\ RecordsStay
  BY TypeStep
<1>2. index'[a].bytes \in Bytes
  BY <1>1 DEF Typed, IndexTyped, Recorded, Records
<1>3. CASE Recorded(a) /\ index[a].archived
  BY <1>1, <1>2, <1>3 DEF RecordsStay, CustodyInv, CustodyHolds
<1>4. ASSUME ~(Recorded(a) /\ index[a].archived) PROVE \E s \in Session : RecordReceipt(s) /\ session[s].artifact = a
  <2>1. ASSUME NEW s \in Session, Add(s) PROVE FALSE
    <3>1. session[s].pc = "adding" /\ ~session[s].record.archived /\ session[s].artifact \in Artifact
      BY <2>1, JobsAt DEF Add, Typed, JobTyped
    <3> QED BY <1>4, <2>1, <3>1 DEF Add, Typed, IndexTyped, Recorded
  <2>2. ASSUME NEW s \in Session, NEW c \in Artifact, NEW d \in Artifact, Supersede(s, c, d) PROVE FALSE
    <3>1. index[c] \in Records /\ index' = [index EXCEPT ![c] = [index[c] EXCEPT !.supersededBy = d]]
      BY <2>2 DEF Supersede, Update, Typed, IndexTyped, Recorded
    <3>2. index'[c].archived = index[c].archived
      BY <3>1 DEF Records, Typed, IndexTyped
    <3> QED BY <1>4, <2>2, <3>1, <3>2 DEF Supersede, Typed, IndexTyped, Recorded
  <2>3. ASSUME NEW s \in Session, RecordReceipt(s) PROVE session[s].artifact = a
    BY <1>4, <2>3 DEF RecordReceipt, Update, Typed, IndexTyped, Recorded
  <2>4. ~ UNCHANGED index
    BY <1>4 DEF Recorded
  <2> QED BY <2>1, <2>2, <2>3, <2>4, IndexChanges
<1>5. ASSUME NEW s \in Session, RecordReceipt(s), session[s].artifact = a PROVE objects[index'[a].bytes] = index'[a].bytes
  <2>1. Recorded(a) /\ objects[index[a].bytes] = index[a].bytes
    BY <1>5, Pending DEF RecordReceipt, CustodyInv, PutInv, Archiving, Putting
  <2> QED BY <1>1, <2>1 DEF RecordsStay
<1> QED BY <1>2, <1>3, <1>4, <1>5

LEMMA PutStepInv ==
  ASSUME OneArchiver, Typed, CustodyInv, [Next]_vars PROVE PutInv'
<1>1. Typed' /\ RecordsStay
  BY TypeStep
<1> SUFFICES ASSUME NEW t \in Session
             PROVE  /\ session'[t].pc \in {"copying", "renaming"} => objects'[index'[session'[t].artifact].bytes] = Absent
                    /\ session'[t].pc = "recording" =>
                         objects'[index'[session'[t].artifact].bytes] = index'[session'[t].artifact].bytes
  BY DEF PutInv
<1>2. ASSUME session'[t].pc \in Putting
      PROVE  /\ Recorded(session'[t].artifact) /\ session'[t].artifact \in Artifact /\ t \in Archivers
             /\ index'[session'[t].artifact].bytes = index[session'[t].artifact].bytes
             /\ index[session'[t].artifact].bytes \in Bytes
  <2> DEFINE job == session'[t]
  <2>1. JobTyped(t, job) /\ Named(job) \subseteq Known(index)
    BY Moved
  <2>2. job \in Jobs /\ t \in Archivers /\ job.artifact \in job.pending
    BY <1>2, <2>1 DEF JobTyped, Archiving
  <2>3. job.artifact \in Known(index)
    BY <1>2, <2>1, <2>2 DEF Named, Archiving
  <2>4. job.artifact \in Artifact /\ Recorded(job.artifact)
    BY <2>3 DEF Known, Recorded
  <2> HIDE DEF job
  <2>5. index[job.artifact] \in Records
    BY <2>4 DEF Typed, IndexTyped, Recorded
  <2> QED BY <1>1, <2>2, <2>4, <2>5 DEF RecordsStay, Records, job
<1>3. ASSUME UNCHANGED objects
      PROVE  /\ session'[t].pc \in {"copying", "renaming"} => objects[index[session'[t].artifact].bytes] = Absent
             /\ session'[t].pc = "recording" => objects[index[session'[t].artifact].bytes] = index[session'[t].artifact].bytes
  <2>1. CASE session'[t] = session[t]
    BY <2>1 DEF CustodyInv, PutInv
  <2>2. CASE session'[t] # session[t]
    BY <2>2, Moved DEF Lawful, CustodyInv, PutInv
  <2> QED BY <2>1, <2>2
<1>4. ASSUME NEW s \in Session, Rename(s), session'[t].pc \in Putting PROVE session'[t].pc = "checking"
  <2>1. s \in Archivers
    BY <1>4, Pending DEF Rename, Archiving, Putting
  <2>2. s = t
    BY <1>2, <1>4, <2>1 DEF OneArchiver
  <2> QED BY <1>4, <2>2 DEF Rename, Goto, Typed
<1> QED BY <1>2, <1>3, <1>4, Renames DEF Putting

LEMMA CustodyStep ==
  ASSUME OneArchiver, Typed, CustodyInv, [Next]_vars PROVE CustodyInv'
<1>1. CustodyHolds'
  BY Receipts, ObjectsKept DEF CustodyHolds
<1> QED BY <1>1, PutStepInv DEF CustodyInv

(* With one process archiving at a time, while any number of others         *)
(* register, supersede and clean up, and producers rewrite the files under  *)
(* its hands, an archive receipt in the index stands for bytes the archive  *)
(* holds (archive.ts, #verifyStored; registry.ts, archiveArtifact).         *)
THEOREM ReceiptsHold == OneArchiver /\ Spec => []CustodyHolds
<1> SUFFICES ASSUME OneArchiver PROVE Spec => []CustodyHolds
  OBVIOUS
<1>1. Init => Typed /\ CustodyInv
  BY TypeInit, CustodyInit
<1>2. Typed /\ CustodyInv /\ [Next]_vars => (Typed /\ CustodyInv)'
  BY TypeStep, CustodyStep
<1>3. CustodyInv => CustodyHolds
  BY DEF CustodyInv
<1> QED BY <1>1, <1>2, <1>3, PTL DEF Spec

(* What archive.ts says of its objects, that nothing else can overwrite     *)
(* them, is true of one archiver.                                           *)
THEOREM NothingOverwritten == OneArchiver /\ Spec => NothingOverwrites
<1> SUFFICES ASSUME OneArchiver PROVE Spec => NothingOverwrites
  OBVIOUS
<1>1. Init => Typed /\ CustodyInv
  BY TypeInit, CustodyInit
<1>2. Typed /\ CustodyInv /\ [Next]_vars => (Typed /\ CustodyInv)'
  BY TypeStep, CustodyStep
<1>3. Typed /\ CustodyInv /\ [Next]_vars => \A b \in Bytes : objects[b] = b => objects'[b] = b
  BY ObjectsKept
<1> QED BY <1>1, <1>2, <1>3, PTL DEF Spec, NothingOverwrites

-----------------------------------------------------------------------------
(* What is marked for deletion is allowed to go, and what is verified is    *)
(* what was verified, or gone, or exposed to a later write.                 *)
MarkedInv ==
  \A s \in Session :
    /\ \A a \in Marked(session[s]) : ~ Blocks(a)
    /\ \A a \in VerifiedBy(session[s]) :
         files[index[a].path] \in {index[a].bytes, Absent} \/ index[a].path \in exposed[s]

LEMMA MarkedInit == Init => MarkedInv
BY DEF Init, MarkedInv, Marked, VerifiedBy, Idle

(* Files change by a producer, who exposes what was verified of them, or    *)
(* they go.                                                                 *)
LEMMA FilesChange ==
  ASSUME Typed, [Next]_vars
  PROVE  \/ \E p \in Path : Write(p)
         \/ /\ \A p \in Path : files'[p] \in {files[p], Absent}
            /\ \A s \in Session : exposed'[s] = exposed[s] \/ ExecuteCleanup(s)
<1> DEFINE Kept == /\ \A p \in Path : files'[p] \in {files[p], Absent}
                   /\ \A s \in Session : exposed'[s] = exposed[s] \/ ExecuteCleanup(s)
<1>1. ASSUME UNCHANGED <<files, exposed>> PROVE Kept
  BY <1>1
<1>2. ASSUME NEW s \in Session, NEW a \in Artifact,
             \/ (\E p \in Path : Register(s, a, p)) \/ BeginPut(s, a) \/ VerifyTarget(s, a)
             \/ \E b \in Artifact : Supersede(s, a, b)
      PROVE  UNCHANGED <<files, exposed>>
  BY <1>2 DEF Register, BeginPut, VerifyTarget, Supersede
<1>3. ASSUME NEW s \in Session,
             \/ Add(s) \/ ArchiveIrreplaceable(s) \/ Copy(s) \/ Rename(s) \/ VerifyStored(s) \/ RecordReceipt(s)
             \/ PlanCleanup(s) \/ Cleared(s) \/ Return(s) \/ Crash(s)
      PROVE  UNCHANGED <<files, exposed>>
  BY <1>3 DEF Add, ArchiveIrreplaceable, Copy, Rename, VerifyStored, RecordReceipt, PlanCleanup, Cleared, Return, Crash
<1>4. ASSUME NEW s \in Session, ExecuteCleanup(s) PROVE Kept
  BY <1>4 DEF ExecuteCleanup, Typed, StoreTyped
<1>5. ASSUME NEW s \in Session, NEW a \in Artifact, Unlink(s, a) PROVE Kept
  BY <1>5 DEF Unlink, Typed, StoreTyped
<1>6. UNCHANGED vars => UNCHANGED <<files, exposed>>
  BY DEF vars
<1>7. Kept \/ \E p \in Path : Write(p)
  <2> HIDE DEF Kept
  <2> QED BY <1>1, <1>2, <1>3, <1>4, <1>5, <1>6 DEF Next
<1> QED BY <1>7

LEMMA MarkedStep ==
  ASSUME Typed, MarkedInv, [Next]_vars PROVE MarkedInv'
<1>1. Typed' /\ RecordsStay
  BY TypeStep
<1> SUFFICES ASSUME NEW t \in Session
             PROVE  /\ \A a \in Marked(session'[t]) : ~ Blocks(a)'
                    /\ \A a \in VerifiedBy(session'[t]) :
                         files'[index'[a].path] \in {index'[a].bytes, Absent} \/ index'[a].path \in exposed'[t]
  BY DEF MarkedInv
<1> DEFINE job == session'[t]
<1>2. job \in Jobs /\ Named(job) \subseteq Known(index) /\ (job = session[t] \/ Lawful(t, job))
  BY Moved DEF JobTyped
<1>3. VerifiedBy(job) \subseteq Marked(job) /\ Marked(job) \subseteq Known(index)
  <2> HIDE DEF job
  <2>1. Marked(job) # {} => Named(job) = Marked(job)
    BY <1>2, JobsAt DEF Named, Marked, Archiving, Putting
  <2>2. VerifiedBy(job) \subseteq Marked(job)
    BY <1>2, JobsAt DEF VerifiedBy, Marked
  <2> QED BY <1>2, <2>1, <2>2
<1>4. \A a \in Marked(job) : ~ Blocks(a)'
  <2> SUFFICES ASSUME NEW a \in Marked(job) PROVE ~ Blocks(a)'
    OBVIOUS
  <2>1. a \in Artifact /\ Recorded(a)
    BY <1>3 DEF Known, Recorded
  <2>2. ~ Blocks(a)
    BY <1>2 DEF Lawful, MarkedInv
  <2> QED BY <1>1, <2>1, <2>2 DEF Blocks, IsArchived, RecordsStay
<1>5. ASSUME NEW a \in VerifiedBy(job)
      PROVE  files'[index'[a].path] \in {index'[a].bytes, Absent} \/ index'[a].path \in exposed'[t]
  <2>1. a \in Artifact /\ Recorded(a)
    BY <1>3, <1>5 DEF Known, Recorded
  <2>2. index'[a].path = index[a].path /\ index'[a].bytes = index[a].bytes /\ index[a].path \in Path
    BY <1>1, <2>1 DEF RecordsStay, Typed, IndexTyped, Recorded, Records
  <2>3. files[index[a].path] \in {index[a].bytes, Absent} \/ (a \in VerifiedBy(session[t]) /\ index[a].path \in exposed[t])
    BY <1>2, <1>5 DEF Lawful, MarkedInv
  <2>4. ASSUME NEW p \in Path, Write(p)
        PROVE  files'[index[a].path] \in {index[a].bytes, Absent} \/ index[a].path \in exposed'[t]
    <3>1. a \in Verified(t)
      BY <1>5, <2>4 DEF Write, VerifiedBy, Verified
    <3>2. exposed'[t] = exposed[t] \cup ({p} \cap {index[c].path : c \in Verified(t)})
      BY <2>4 DEF Write
    <3>3. index[a].path = p => p \in exposed'[t]
      BY <3>1, <3>2
    <3>4. index[a].path # p => files'[index[a].path] = files[index[a].path]
      BY <2>2, <2>4 DEF Write, Typed, StoreTyped
    <3> QED BY <2>3, <3>2, <3>3, <3>4
  <2>5. ASSUME \A p \in Path : files'[p] \in {files[p], Absent}, exposed'[t] = exposed[t] \/ ExecuteCleanup(t)
        PROVE  files'[index[a].path] \in {index[a].bytes, Absent} \/ index[a].path \in exposed'[t]
    <3>1. ~ ExecuteCleanup(t)
      BY <1>5 DEF ExecuteCleanup, Goto, VerifiedBy, Idle, Typed
    <3> QED BY <2>2, <2>3, <2>5, <3>1
  <2> QED BY <2>2, <2>4, <2>5, FilesChange
<1> QED BY <1>4, <1>5

(* However old its plan, and whoever registers, supersedes, archives and    *)
(* cleans up meanwhile, a cleanup deletes of an irreplaceable artifact only *)
(* bytes the archive holds, and nothing its plan has not examined unless a  *)
(* producer wrote the file after that (registry.ts, executeCleanup).        *)
THEOREM RemovalSafe == OneArchiver /\ Spec => RemovalIsSafe
<1> SUFFICES ASSUME OneArchiver PROVE Spec => RemovalIsSafe
  OBVIOUS
<1>1. Init => Typed /\ CustodyInv /\ MarkedInv
  BY TypeInit, CustodyInit, MarkedInit
<1>2. Typed /\ CustodyInv /\ MarkedInv /\ [Next]_vars => (Typed /\ CustodyInv /\ MarkedInv)'
  BY TypeStep, CustodyStep, MarkedStep
<1>3. ASSUME Typed, CustodyInv, MarkedInv
      PROVE  \A s \in Session : \A a \in Artifact :
               Unlink(s, a) /\ files' # files => RemovedIsHeld(a) /\ RemovedIsExamined(s, a)
  <2> SUFFICES ASSUME NEW s \in Session, NEW a \in Artifact, Unlink(s, a), files' # files
               PROVE  RemovedIsHeld(a) /\ RemovedIsExamined(s, a)
    OBVIOUS
  <2>1. session[s].pc = "unlinking" /\ a \in session[s].left
    BY DEF Unlink
  <2>2. a \in Marked(session[s]) /\ a \in VerifiedBy(session[s]) /\ a \in Named(session[s])
    BY <2>1 DEF Marked, VerifiedBy, Named, Archiving, Putting
  <2>3. Recorded(a)
    BY <1>3, <2>2 DEF Typed, Known, Recorded
  <2>4. a \in Irreplaceable => index[a].archived
    BY <1>3, <2>2 DEF MarkedInv, Blocks, RequiresArchiveBeforeCleanup, IsArchived
  <2>5. files[index[a].path] # Absent
    <3>1. index[a].path \in Path
      BY <1>3, <2>3 DEF Typed, IndexTyped, Recorded, Records
    <3>2. files' = [files EXCEPT ![index[a].path] = Absent]
      BY DEF Unlink
    <3> QED BY <1>3, <3>1, <3>2 DEF Typed, StoreTyped
  <2> QED BY <1>3, <2>2, <2>3, <2>4, <2>5 DEF CustodyInv, CustodyHolds, MarkedInv, RemovedIsHeld, RemovedIsExamined
<1> QED BY <1>1, <1>2, <1>3, PTL DEF Spec, RemovalIsSafe

-----------------------------------------------------------------------------
(* Induction, in the form the provers can use.                              *)
LEMMA Least ==
  ASSUME NEW S \in SUBSET Nat, S # {}
  PROVE  \E n \in S : \A m \in S : n <= m
<1>1. IsWellFoundedOn(OpToRel(<, Nat), Nat)
  BY NatLessThanWellFounded
<1>2. \E x \in S : \A y \in S : <<y, x>> \notin OpToRel(<, Nat)
  BY <1>1, WFMin
<1>3. \A x, y \in Nat : <<y, x>> \in OpToRel(<, Nat) <=> y < x
  BY DEF OpToRel
<1>4. \E x \in S : \A y \in S : ~ (y < x)
  BY <1>2, <1>3, Zenon
<1> QED BY <1>4

LEMMA Induction ==
  ASSUME NEW S, 0 \in S, \A n \in Nat : n \in S => n + 1 \in S
  PROVE  Nat \subseteq S
<1> SUFFICES ASSUME Nat \ S # {} PROVE FALSE
  OBVIOUS
<1>1. PICK n \in Nat \ S : \A m \in Nat \ S : n <= m
  BY Least
<1>2. n # 0 /\ n - 1 \in Nat /\ n - 1 \notin Nat \ S
  BY <1>1
<1> QED BY <1>1, <1>2

(* f is what step makes of start, time after time, up to N times. *)
Iterates(f, N, start, step) ==
  f = [n \in 0 .. N |-> IF n = 0 THEN start ELSE step[n][f[n - 1]]]

LEMMA IterationExists ==
  ASSUME NEW N \in Nat, NEW T, NEW start \in T, NEW step \in [1 .. N -> [T -> T]]
  PROVE  \E f \in [0 .. N -> T] : Iterates(f, N, start, step)
<1> DEFINE S == {m \in Nat : m <= N => \E f \in [0 .. m -> T] : Iterates(f, m, start, step)}
<1>1. 0 \in S
  <2>1. [n \in 0 .. 0 |-> start] \in [0 .. 0 -> T]
    OBVIOUS
  <2>2. Iterates([n \in 0 .. 0 |-> start], 0, start, step)
    BY DEF Iterates
  <2> QED BY <2>1, <2>2
<1>2. ASSUME NEW m \in Nat, m \in S PROVE m + 1 \in S
  <2> SUFFICES ASSUME m + 1 <= N PROVE \E f \in [0 .. m + 1 -> T] : Iterates(f, m + 1, start, step)
    OBVIOUS
  <2>1. PICK f \in [0 .. m -> T] : Iterates(f, m, start, step)
    BY <1>2
  <2>2. f[m] \in T /\ step[m + 1][f[m]] \in T
    BY <2>1
  <2> DEFINE h == [n \in 0 .. m + 1 |-> IF n = m + 1 THEN step[m + 1][f[m]] ELSE f[n]]
  <2>3. h \in [0 .. m + 1 -> T]
    BY <2>2
  <2>4. ASSUME NEW n \in 0 .. m + 1
        PROVE  h[n] = IF n = 0 THEN start ELSE step[n][h[n - 1]]
    <3>1. CASE n = m + 1
      BY <3>1
    <3>2. CASE n # m + 1
      <4>1. n \in 0 .. m /\ h[n] = f[n] /\ (n # 0 => h[n - 1] = f[n - 1])
        BY <3>2
      <4> QED BY <2>1, <4>1 DEF Iterates
    <3> QED BY <3>1, <3>2
  <2>5. Iterates(h, m + 1, start, step)
    BY <2>4 DEF Iterates
  <2> QED BY <2>3, <2>5
<1>3. Nat \subseteq S
  <2> HIDE DEF S
  <2> QED BY <1>1, <1>2, Induction
<1> QED BY <1>3

-----------------------------------------------------------------------------
(* From each artifact those one step on; what is reached from them.          *)
Neighbours == [Artifact -> SUBSET Artifact]

(* It is the least set that the first steps lead into and no step leads out. *)
LEMMA ReachIs ==
  ASSUME NEW next \in Neighbours, NEW a \in Artifact
  PROVE  /\ ReachableFrom(next, a) \subseteq Artifact
         /\ next[a] \subseteq ReachableFrom(next, a)
         /\ \A c \in ReachableFrom(next, a) : next[c] \subseteq ReachableFrom(next, a)
         /\ \A S \in SUBSET Artifact :
              next[a] \subseteq S /\ (\A c \in S : next[c] \subseteq S) => ReachableFrom(next, a) \subseteq S
<1>1. \A c \in Artifact : next[c] \subseteq Artifact
  BY DEF Neighbours
<1>2. next[a] \subseteq ReachableFrom(next, a)
  BY <1>1 DEF ReachableFrom
<1>3. ASSUME NEW c \in ReachableFrom(next, a), NEW d \in next[c] PROVE d \in ReachableFrom(next, a)
  <2>1. c \in Artifact /\ d \in Artifact
    BY <1>1 DEF ReachableFrom
  <2>2. ASSUME NEW S \in SUBSET Artifact, next[a] \subseteq S, \A e \in S : next[e] \subseteq S PROVE d \in S
    <3>1. c \in S
      BY <2>2 DEF ReachableFrom
    <3> QED BY <2>2, <3>1
  <2> QED BY <2>1, <2>2 DEF ReachableFrom
<1>4. ReachableFrom(next, a) \subseteq Artifact
  BY DEF ReachableFrom
<1>5. ASSUME NEW S \in SUBSET Artifact, next[a] \subseteq S, \A c \in S : next[c] \subseteq S
      PROVE  ReachableFrom(next, a) \subseteq S
  BY <1>5 DEF ReachableFrom
<1> QED BY <1>2, <1>3, <1>4, <1>5

LEMMA ReachOn ==
  ASSUME NEW next \in Neighbours, NEW a \in Artifact, NEW c \in ReachableFrom(next, a)
  PROVE  ReachableFrom(next, c) \subseteq ReachableFrom(next, a)
<1>1. c \in Artifact /\ ReachableFrom(next, a) \in SUBSET Artifact
      /\ next[c] \subseteq ReachableFrom(next, a)
      /\ \A d \in ReachableFrom(next, a) : next[d] \subseteq ReachableFrom(next, a)
  BY ReachIs
<1> QED BY <1>1, ReachIs

(* One is reached by a step, or by a step and from there.                    *)
LEMMA ReachStep ==
  ASSUME NEW next \in Neighbours, NEW a \in Artifact, NEW b \in ReachableFrom(next, a)
  PROVE  b \in next[a] \/ \E c \in next[a] : b \in ReachableFrom(next, c)
<1> DEFINE S == next[a] \cup UNION {ReachableFrom(next, c) : c \in next[a]}
<1>1. \A c \in Artifact : next[c] \subseteq Artifact
  BY DEF Neighbours
<1>2. S \in SUBSET Artifact /\ next[a] \subseteq S
  BY <1>1, ReachIs
<1>3. ASSUME NEW d \in S PROVE next[d] \subseteq S
  <2>1. CASE d \in next[a]
    <3>1. next[d] \subseteq ReachableFrom(next, d)
      BY <1>1, <2>1, ReachIs
    <3> QED BY <2>1, <3>1
  <2>2. CASE \E c \in next[a] : d \in ReachableFrom(next, c)
    <3>1. PICK c \in next[a] : d \in ReachableFrom(next, c)
      BY <2>2
    <3>2. next[d] \subseteq ReachableFrom(next, c)
      BY <1>1, <3>1, ReachIs
    <3> QED BY <3>1, <3>2
  <2> QED BY <2>1, <2>2
<1> HIDE DEF S
<1>4. b \in S
  BY <1>2, <1>3, ReachIs
<1> QED BY <1>4 DEF S

(* Read the other way round, it is reached from there.                       *)
LEMMA ReachBack ==
  ASSUME NEW next \in Neighbours, NEW prev \in Neighbours,
         \A x, y \in Artifact : y \in next[x] => x \in prev[y],
         NEW a \in Artifact, NEW b \in ReachableFrom(next, a)
  PROVE  a \in ReachableFrom(prev, b)
<1> DEFINE S == {c \in Artifact : a \in ReachableFrom(prev, c)}
<1>1. \A c \in Artifact : next[c] \subseteq Artifact /\ prev[c] \subseteq Artifact
  BY DEF Neighbours
<1>2. next[a] \subseteq S
  BY <1>1, ReachIs
<1>3. ASSUME NEW c \in S, NEW d \in next[c] PROVE d \in S
  <2>1. c \in Artifact /\ d \in Artifact /\ c \in prev[d]
    BY <1>1
  <2>2. c \in ReachableFrom(prev, d)
    BY <2>1, ReachIs
  <2>3. ReachableFrom(prev, c) \subseteq ReachableFrom(prev, d)
    BY <2>1, <2>2, ReachOn
  <2> QED BY <2>1, <2>3
<1>4. S \in SUBSET Artifact
  OBVIOUS
<1>5. S = {c \in Artifact : a \in ReachableFrom(prev, c)}
  OBVIOUS
<1> HIDE DEF S
<1>6. ReachableFrom(next, a) \subseteq S
  BY <1>2, <1>3, <1>4, ReachIs
<1> QED BY <1>5, <1>6

-----------------------------------------------------------------------------
(* The search in waves.                                                      *)
Wave == [visited : SUBSET Artifact, frontier : SUBSET Artifact]

Spread(next, w) ==
  LET found == (UNION {next[a] : a \in w.frontier}) \ w.visited
  IN  [visited |-> w.visited \cup found, frontier |-> found]

WaveInv(next, a, w) ==
  /\ w \in Wave /\ a \in w.visited /\ w.frontier \subseteq w.visited
  /\ w.visited \subseteq {a} \cup ReachableFrom(next, a)
  /\ \A c \in w.visited \ w.frontier : next[c] \subseteq w.visited

(* A wave adds only what is reached, and adds something or is the last.      *)
LEMMA Spreads ==
  ASSUME NEW next \in Neighbours, NEW a \in Artifact, NEW w, WaveInv(next, a, w)
  PROVE  /\ WaveInv(next, a, Spread(next, w))
         /\ w.visited \subseteq Spread(next, w).visited
         /\ Spread(next, w).frontier # {} => w.visited # Spread(next, w).visited
         /\ w.frontier = {} => Spread(next, w).frontier = {}
<1> DEFINE found == (UNION {next[c] : c \in w.frontier}) \ w.visited
<1>1. Spread(next, w).visited = w.visited \cup found /\ Spread(next, w).frontier = found
  BY DEF Spread
<1>2. \A c \in Artifact : next[c] \subseteq Artifact
  BY DEF Neighbours
<1>3. w.visited \subseteq Artifact /\ w.frontier \subseteq Artifact
  BY DEF WaveInv, Wave
<1>4. found \subseteq Artifact
  BY <1>2, <1>3
<1>5. found \subseteq ReachableFrom(next, a)
  <2> SUFFICES ASSUME NEW c \in w.frontier, NEW d \in next[c] PROVE d \in ReachableFrom(next, a)
    OBVIOUS
  <2>1. c = a \/ c \in ReachableFrom(next, a)
    BY DEF WaveInv
  <2> QED BY <2>1, ReachIs
<1>6. \A c \in (w.visited \cup found) \ found : next[c] \subseteq w.visited \cup found
  BY DEF WaveInv
<1>7. Spread(next, w) \in Wave
  BY <1>3, <1>4 DEF Spread, Wave
<1> HIDE DEF found
<1>8. WaveInv(next, a, Spread(next, w))
  BY <1>1, <1>5, <1>6, <1>7 DEF WaveInv
<1>9. found \cap w.visited = {} /\ (w.frontier = {} => found = {})
  BY DEF found
<1> QED BY <1>1, <1>8, <1>9

(* As a wave that is not the last adds something, there are no more of them  *)
(* than artifacts: the search finds all that is reached, and nothing else.   *)
LEMMA TraverseIs ==
  ASSUME RegistryAssumption, NEW next \in Neighbours, NEW a \in Artifact
  PROVE  Traverse(a, next) = ReachableFrom(next, a) \ {a}
<1> DEFINE N == Cardinality(Artifact)
           start == [visited |-> {a}, frontier |-> {a}]
           T == {w \in Wave : WaveInv(next, a, w)}
           step == [n \in 1 .. N |-> [w \in T |-> Spread(next, w)]]
           IsOne(f) == f = [n \in 0 .. N |->
                              IF n = 0 THEN start
                              ELSE LET found == (UNION {next[c] : c \in f[n - 1].frontier}) \ f[n - 1].visited
                                   IN  [visited |-> f[n - 1].visited \cup found, frontier |-> found]]
<1>1. IsFiniteSet(Artifact) /\ N \in Nat
  BY FS_CardinalityType DEF RegistryAssumption
<1>2. start \in T
  <2>1. start \in Wave
    BY DEF Wave
  <2> QED BY <2>1 DEF WaveInv
<1>3. \A w \in T : Spread(next, w) \in T
  BY Spreads DEF WaveInv
<1> HIDE DEF N, T
<1>4. step \in [1 .. N -> [T -> T]] /\ \A n \in 1 .. N : \A w \in T : step[n][w] = Spread(next, w)
  BY <1>3
<1> HIDE DEF step
<1>5. PICK f \in [0 .. N -> T] : Iterates(f, N, start, step)
  BY <1>1, <1>2, <1>4, IterationExists
<1>6. IsOne(f)
  <2>1. ASSUME NEW n \in 0 .. N
        PROVE  (IF n = 0 THEN start ELSE step[n][f[n - 1]])
               = IF n = 0 THEN start
                 ELSE LET found == (UNION {next[c] : c \in f[n - 1].frontier}) \ f[n - 1].visited
                      IN  [visited |-> f[n - 1].visited \cup found, frontier |-> found]
    <3>1. CASE n = 0
      BY <3>1
    <3>2. CASE n # 0
      <4>1. n \in 1 .. N /\ n - 1 \in 0 .. N
        BY <1>1, <3>2
      <4>2. step[n][f[n - 1]] = Spread(next, f[n - 1])
        BY <1>4, <1>5, <4>1
      <4> HIDE DEF start
      <4> QED BY <3>2, <4>2 DEF Spread
    <3> QED BY <3>1, <3>2
  <2> HIDE DEF start
  <2>2. [n \in 0 .. N |-> IF n = 0 THEN start ELSE step[n][f[n - 1]]]
        = [n \in 0 .. N |->
             IF n = 0 THEN start
             ELSE LET found == (UNION {next[c] : c \in f[n - 1].frontier}) \ f[n - 1].visited
                  IN  [visited |-> f[n - 1].visited \cup found, frontier |-> found]]
    BY <2>1
  <2> QED BY <1>5, <2>2 DEF Iterates
<1> DEFINE g == CHOOSE h : IsOne(h)
<1>7. IsOne(g)
  <2> HIDE DEF IsOne
  <2> QED BY <1>6
<1>8. Traverse(a, next) = g[N].visited \ {a}
  BY Zenon DEF Traverse, N
<1> HIDE DEF g, start
<1>9. g[0] = start /\ \A n \in 1 .. N : g[n] = Spread(next, g[n - 1])
  <2>1. 0 \in 0 .. N /\ \A n \in 1 .. N : n \in 0 .. N /\ n # 0
    BY <1>1
  <2> QED BY <1>7, <2>1 DEF Spread
<1> HIDE DEF IsOne
<1>10. \A n \in 0 .. N : g[n] \in T /\ (g[n].frontier = {} \/ Cardinality(g[n].visited) >= n + 1)
  <2> DEFINE S == {n \in Nat : n <= N => g[n] \in T /\ (g[n].frontier = {} \/ Cardinality(g[n].visited) >= n + 1)}
  <2>1. 0 \in S
    <3>1. Cardinality({a}) = 1
      BY FS_Singleton
    <3>2. g[0].visited = {a}
      BY <1>9 DEF start
    <3>3. g[0] \in T
      BY <1>2, <1>9
    <3>4. Cardinality(g[0].visited) >= 0 + 1
      BY <3>1, <3>2
    <3> QED BY <3>3, <3>4
  <2>2. \A n \in Nat : n \in S => n + 1 \in S
    <3> SUFFICES ASSUME NEW n \in Nat, n \in S, n + 1 <= N
                 PROVE  g[n + 1] \in T /\ (g[n + 1].frontier = {} \/ Cardinality(g[n + 1].visited) >= (n + 1) + 1)
      OBVIOUS
    <3> DEFINE w == g[n]
               v == Spread(next, w)
    <3>1. n + 1 \in 1 .. N /\ (n + 1) - 1 = n /\ w \in T /\ (w.frontier = {} \/ Cardinality(w.visited) >= n + 1)
      BY <1>1
    <3>2. g[n + 1] = v
      BY <1>9, <3>1
    <3>3. WaveInv(next, a, w)
      BY <3>1 DEF T
    <3> HIDE DEF w
    <3>4. /\ WaveInv(next, a, v) /\ w.visited \subseteq v.visited
          /\ v.frontier # {} => w.visited # v.visited
          /\ w.frontier = {} => v.frontier = {}
      BY <3>3, Spreads
    <3>5. v \in T
      BY <1>3, <3>1
    <3> HIDE DEF v
    <3>6. CASE v.frontier = {}
      BY <3>2, <3>5, <3>6
    <3>7. CASE v.frontier # {}
      <4>1. v.visited \in SUBSET Artifact /\ w.visited \in SUBSET Artifact
        BY <3>3, <3>4 DEF WaveInv, Wave
      <4>2. IsFiniteSet(v.visited) /\ IsFiniteSet(w.visited)
        BY <1>1, <4>1, FS_Subset
      <4>3. Cardinality(v.visited) \in Nat /\ Cardinality(w.visited) \in Nat
        BY <4>2, FS_CardinalityType
      <4>4. Cardinality(w.visited) <= Cardinality(v.visited) /\ Cardinality(w.visited) # Cardinality(v.visited)
        BY <3>4, <3>7, <4>2, FS_Subset
      <4>5. Cardinality(w.visited) >= n + 1
        BY <3>1, <3>4, <3>7
      <4> QED BY <3>2, <3>5, <4>3, <4>4, <4>5
    <3> QED BY <3>6, <3>7
  <2>3. Nat \subseteq S
    <3> HIDE DEF S
    <3> QED BY <2>1, <2>2, Induction
  <2> QED BY <1>1, <2>3
<1> DEFINE w == g[N]
<1>11. WaveInv(next, a, w) /\ w.frontier = {}
  <2>1. N \in 0 .. N
    BY <1>1
  <2>2. w \in T /\ (w.frontier = {} \/ Cardinality(w.visited) >= N + 1)
    BY <1>10, <2>1
  <2> HIDE DEF w
  <2>3. w.visited \in SUBSET Artifact /\ WaveInv(next, a, w)
    BY <2>2 DEF T, Wave
  <2>4. IsFiniteSet(w.visited) /\ Cardinality(w.visited) <= N
    BY <1>1, <2>3, FS_Subset DEF N
  <2>5. Cardinality(w.visited) \in Nat
    BY <2>4, FS_CardinalityType
  <2> QED BY <1>1, <2>2, <2>3, <2>4, <2>5
<1>12. ReachableFrom(next, a) \subseteq w.visited
  <2> HIDE DEF w
  <2>1. w.visited \in SUBSET Artifact /\ a \in w.visited /\ \A c \in w.visited : next[c] \subseteq w.visited
    BY <1>11 DEF WaveInv, Wave
  <2> QED BY <2>1, ReachIs
<1>13. w.visited \subseteq {a} \cup ReachableFrom(next, a)
  BY <1>11 DEF WaveInv
<1> QED BY <1>8, <1>12, <1>13

-----------------------------------------------------------------------------
(* The search for cycles.                                                    *)
OnPath == [node : Artifact, todo : SUBSET Artifact]
Searching == [path : Seq(OnPath), finished : SUBSET Artifact, cycles : SUBSET Artifact]

(* The path leads from the start, each node once, along edges taken from its *)
(* nodes.                                                                    *)
PathInv(next, a, s) ==
  /\ s \in Searching
  /\ \A i \in 1 .. Len(s.path) :
       /\ s.path[i].node \notin s.finished
       /\ s.path[i].node \in {a} \cup ReachableFrom(next, a)
       /\ s.path[i].todo \subseteq next[s.path[i].node]
  /\ \A i, j \in 1 .. Len(s.path) : i < j =>
       s.path[i].node # s.path[j].node /\ s.path[j].node \in ReachableFrom(next, s.path[i].node)
  /\ a \in s.finished \/ \E i \in 1 .. Len(s.path) : s.path[i].node = a

(* What is reported as a cycle is one.                                       *)
CyclesInv(next, a, s) ==
  \A b \in s.cycles : b \in {a} \cup ReachableFrom(next, a) /\ b \in ReachableFrom(next, b)

(* What is finished leads to what is finished, and not in circles.           *)
Grounded(next, D) ==
  /\ \A c \in D : next[c] \subseteq D
  /\ \A C \in (SUBSET D) \ {{}} : \E c \in C : next[c] \cap C = {}

(* An edge that was taken leads to what is finished, or one step on.         *)
Taken(next, s) ==
  \A i \in 1 .. Len(s.path) : \A d \in next[s.path[i].node] \ s.path[i].todo :
    d \in s.finished \/ (i < Len(s.path) /\ d = s.path[i + 1].node)

SearchInv(next, a, s) ==
  /\ PathInv(next, a, s) /\ CyclesInv(next, a, s)
  /\ s.cycles = {} => Grounded(next, s.finished) /\ Taken(next, s)

(* What is left to do: edges to take and nodes to leave.                     *)
Edge(s) ==
  {x \in Artifact \X Artifact :
     /\ x[1] \notin s.finished
     /\ \A i \in 1 .. Len(s.path) : s.path[i].node = x[1] => x[2] \in s.path[i].todo}

Nearer(s, t) ==
  /\ Edge(t) \subseteq Edge(s) /\ s.finished \subseteq t.finished
  /\ Edge(t) # Edge(s) \/ s.finished # t.finished

-----------------------------------------------------------------------------
(* A step leaves a node, or takes one of its edges and may enter a node.     *)
Left(s) ==
  [s EXCEPT !.path = SubSeq(@, 1, Len(s.path) - 1), !.finished = @ \cup {s.path[Len(s.path)].node}]

LEMMA LeftIs ==
  ASSUME NEW s \in Searching, s.path # <<>>
  PROVE  /\ Left(s) \in Searching
         /\ Left(s).finished = s.finished \cup {s.path[Len(s.path)].node} /\ Left(s).cycles = s.cycles
         /\ Len(Left(s).path) = Len(s.path) - 1
         /\ \A i \in 1 .. Len(s.path) - 1 : Left(s).path[i] = s.path[i]
<1>1. s.path \in Seq(OnPath) /\ Len(s.path) \in Nat /\ Len(s.path) # 0
  BY DEF Searching
<1> DEFINE p == SubSeq(s.path, 1, Len(s.path) - 1)
<1>2. p \in Seq(OnPath) /\ Len(p) = Len(s.path) - 1 /\ \A i \in 1 .. Len(s.path) - 1 : p[i] = s.path[i]
  BY <1>1
<1>3. s.path[Len(s.path)].node \in Artifact
  <2>1. s.path[Len(s.path)] \in OnPath
    BY <1>1
  <2> QED BY <2>1 DEF OnPath
<1>4. Left(s) = [s EXCEPT !.path = p, !.finished = @ \cup {s.path[Len(s.path)].node}]
  BY DEF Left
<1> HIDE DEF p
<1>5. /\ Left(s).path = p /\ Left(s).finished = s.finished \cup {s.path[Len(s.path)].node}
      /\ Left(s).cycles = s.cycles
  BY <1>4 DEF Searching
<1>6. s.finished \cup {s.path[Len(s.path)].node} \in SUBSET Artifact
  BY <1>3 DEF Searching
<1>7. Left(s) \in Searching
  BY <1>2, <1>4, <1>6 DEF Searching
<1> QED BY <1>2, <1>5, <1>7

Without(s, edge) == [s EXCEPT !.path[Len(s.path)].todo = @ \ {edge}]

OnlyLacks(t, s, edge) ==
  /\ t \in Searching /\ t.finished = s.finished /\ t.cycles = s.cycles /\ Len(t.path) = Len(s.path)
  /\ \A i \in 1 .. Len(s.path) :
       /\ t.path[i].node = s.path[i].node
       /\ t.path[i].todo = IF i = Len(s.path) THEN s.path[i].todo \ {edge} ELSE s.path[i].todo

LEMMA WithoutIs ==
  ASSUME NEW s \in Searching, s.path # <<>>, NEW edge
  PROVE  OnlyLacks(Without(s, edge), s, edge)
<1> DEFINE n == Len(s.path)
           frame == s.path[n]
           less == [frame EXCEPT !.todo = @ \ {edge}]
           p == [s.path EXCEPT ![n] = less]
<1>1. s.path \in Seq(OnPath) /\ n \in Nat /\ n # 0
  BY DEF Searching
<1>2. frame \in OnPath /\ \A i \in 1 .. n : s.path[i] \in OnPath
  BY <1>1
<1>3. less \in OnPath /\ less.node = frame.node /\ less.todo = frame.todo \ {edge}
  BY <1>2 DEF OnPath
<1>4. Without(s, edge) = [s EXCEPT !.path = p]
  BY DEF Without
<1> HIDE DEF less
<1>5. p \in Seq(OnPath) /\ Len(p) = n
      /\ \A i \in 1 .. n : p[i] = IF i = n THEN less ELSE s.path[i]
  BY <1>1, <1>3
<1> HIDE DEF p
<1>6. /\ Without(s, edge) \in Searching /\ Without(s, edge).path = p
      /\ Without(s, edge).finished = s.finished /\ Without(s, edge).cycles = s.cycles
  BY <1>4, <1>5 DEF Searching
<1> QED BY <1>3, <1>5, <1>6 DEF OnlyLacks

LEMMA EnteredIs ==
  ASSUME NEW next \in Neighbours, NEW s \in Searching, NEW b \in Artifact
  PROVE  /\ Entered(next, s, b) \in Searching
         /\ Entered(next, s, b).finished = s.finished /\ Entered(next, s, b).cycles = s.cycles
         /\ Len(Entered(next, s, b).path) = Len(s.path) + 1
         /\ Entered(next, s, b).path[Len(s.path) + 1].node = b
         /\ Entered(next, s, b).path[Len(s.path) + 1].todo = next[b]
         /\ \A i \in 1 .. Len(s.path) : Entered(next, s, b).path[i] = s.path[i]
<1> DEFINE frame == [node |-> b, todo |-> next[b]]
           p == Append(s.path, frame)
<1>1. s.path \in Seq(OnPath) /\ Len(s.path) \in Nat
  BY DEF Searching
<1>2. frame \in OnPath /\ frame.node = b /\ frame.todo = next[b]
  BY DEF OnPath, Neighbours
<1> HIDE DEF frame
<1>3. /\ p \in Seq(OnPath) /\ Len(p) = Len(s.path) + 1 /\ p[Len(s.path) + 1] = frame
      /\ \A i \in 1 .. Len(s.path) : p[i] = s.path[i]
  BY <1>1, <1>2
<1>4. Entered(next, s, b) = [s EXCEPT !.path = p]
  BY DEF Entered, frame
<1> HIDE DEF p
<1>5. /\ Entered(next, s, b) \in Searching /\ Entered(next, s, b).path = p
      /\ Entered(next, s, b).finished = s.finished /\ Entered(next, s, b).cycles = s.cycles
  BY <1>3, <1>4 DEF Searching
<1> QED BY <1>2, <1>3, <1>5

(* Each of them keeps the invariant and leaves less to do.  A node that is   *)
(* left is above none that is not finished: what is finished stays grounded. *)
LEMMA Leaves ==
  ASSUME NEW next \in Neighbours, NEW a \in Artifact, NEW s, SearchInv(next, a, s), s.path # <<>>,
         s.path[Len(s.path)].todo = {},
         NEW t, t = Left(s)
  PROVE  SearchInv(next, a, t) /\ Nearer(s, t)
<1> DEFINE n == Len(s.path)
           x == s.path[n].node
<1>1. PathInv(next, a, s) /\ CyclesInv(next, a, s) /\ s \in Searching
  BY DEF SearchInv, PathInv
<1>2. s.path \in Seq(OnPath) /\ n \in Nat /\ n # 0 /\ n \in 1 .. n
  BY <1>1 DEF Searching
<1>3. /\ t \in Searching /\ t.finished = s.finished \cup {x} /\ t.cycles = s.cycles
      /\ Len(t.path) = n - 1 /\ \A i \in 1 .. n - 1 : t.path[i] = s.path[i]
  BY <1>1, LeftIs
<1>4. x \in Artifact /\ x \notin s.finished
  <2>1. s.path[n] \in OnPath
    BY <1>2
  <2> QED BY <1>1, <1>2, <2>1 DEF PathInv, OnPath
<1>5. \A i \in 1 .. n - 1 : i \in 1 .. n /\ i < n
  BY <1>2
<1>6. \A i \in 1 .. n - 1 : s.path[i].node # x
  BY <1>1, <1>2, <1>5 DEF PathInv
<1>7. PathInv(next, a, t)
  <2>1. \A i \in 1 .. n - 1 :
          /\ t.path[i].node \notin t.finished
          /\ t.path[i].node \in {a} \cup ReachableFrom(next, a)
          /\ t.path[i].todo \subseteq next[t.path[i].node]
    BY <1>1, <1>3, <1>5, <1>6 DEF PathInv
  <2>2. \A i, j \in 1 .. n - 1 : i < j =>
          t.path[i].node # t.path[j].node /\ t.path[j].node \in ReachableFrom(next, t.path[i].node)
    <3> TAKE i, j \in 1 .. n - 1
    <3>1. t.path[i].node = s.path[i].node /\ t.path[j].node = s.path[j].node /\ i \in 1 .. n /\ j \in 1 .. n
      BY <1>3, <1>5
    <3>2. i < j => s.path[i].node # s.path[j].node /\ s.path[j].node \in ReachableFrom(next, s.path[i].node)
      BY <1>1, <3>1 DEF PathInv
    <3> QED BY <3>1, <3>2
  <2>3. a \in t.finished \/ \E i \in 1 .. n - 1 : t.path[i].node = a
    <3>1. CASE a \in s.finished
      BY <1>3, <3>1
    <3>2. CASE \E i \in 1 .. n : s.path[i].node = a
      <4>1. PICK i \in 1 .. n : s.path[i].node = a
        BY <3>2
      <4>2. CASE i = n
        BY <1>3, <4>1, <4>2
      <4>3. CASE i # n
        <5>1. i \in 1 .. n - 1
          BY <1>2, <4>3
        <5> QED BY <1>3, <4>1, <5>1
      <4> QED BY <4>2, <4>3
    <3> QED BY <1>1, <3>1, <3>2 DEF PathInv
  <2> QED BY <1>3, <2>1, <2>2, <2>3 DEF PathInv
<1>8. ASSUME t.cycles = {} PROVE Grounded(next, t.finished) /\ Taken(next, t)
  <2>1. Grounded(next, s.finished) /\ Taken(next, s)
    BY <1>3, <1>8 DEF SearchInv
  <2>2. \A d \in next[x] : d \in s.finished
    BY <1>2, <2>1 DEF Taken
  <2>3. Grounded(next, t.finished)
    <3>1. \A c \in t.finished : next[c] \subseteq s.finished
      BY <1>3, <2>1, <2>2 DEF Grounded
    <3>2. ASSUME NEW C \in (SUBSET t.finished) \ {{}} PROVE \E c \in C : next[c] \cap C = {}
      <4>1. CASE C = {x}
        BY <1>4, <2>2, <4>1
      <4>2. CASE C # {x}
        <5>1. C \ {x} \in (SUBSET s.finished) \ {{}}
          BY <1>3, <4>2
        <5>2. PICK c \in C \ {x} : next[c] \cap (C \ {x}) = {}
          BY <2>1, <5>1 DEF Grounded
        <5>3. x \notin next[c]
          BY <1>4, <3>1, <5>2
        <5> QED BY <5>2, <5>3
      <4> QED BY <4>1, <4>2
    <3> QED BY <1>3, <3>1, <3>2 DEF Grounded
  <2>4. Taken(next, t)
    <3> SUFFICES ASSUME NEW i \in 1 .. n - 1, NEW d \in next[s.path[i].node] \ s.path[i].todo
                 PROVE  d \in t.finished \/ (i < n - 1 /\ d = t.path[i + 1].node)
      <4>1. \A i \in 1 .. Len(t.path) : i \in 1 .. n - 1 /\ t.path[i] = s.path[i]
        BY <1>3
      <4>2. Len(t.path) = n - 1
        BY <1>3
      <4> HIDE DEF n, x
      <4> QED BY <4>1, <4>2 DEF Taken
    <3>1. d \in s.finished \/ (i < n /\ d = s.path[i + 1].node)
      BY <1>5, <2>1 DEF Taken
    <3>2. CASE i < n - 1
      <4>1. i + 1 \in 1 .. n - 1
        BY <1>2, <3>2
      <4>2. t.path[i + 1] = s.path[i + 1]
        BY <1>3, <4>1
      <4> QED BY <1>3, <3>1, <3>2, <4>2
    <3>3. CASE i = n - 1
      <4>1. s.path[i + 1].node = x
        BY <1>2, <3>3
      <4> QED BY <1>3, <3>1, <4>1
    <3> QED BY <1>2, <3>2, <3>3
  <2> QED BY <2>3, <2>4
<1>9. Edge(t) \subseteq Edge(s)
  <2> SUFFICES ASSUME NEW y \in Edge(t), NEW i \in 1 .. n, s.path[i].node = y[1] PROVE y[2] \in s.path[i].todo
    BY <1>3 DEF Edge
  <2>1. y[1] # x
    BY <1>3 DEF Edge
  <2>2. i \in 1 .. n - 1
    BY <1>2, <2>1
  <2> QED BY <1>3, <2>2 DEF Edge
<1>10. CyclesInv(next, a, t)
  BY <1>1, <1>3 DEF CyclesInv
<1> QED BY <1>3, <1>4, <1>7, <1>8, <1>9, <1>10 DEF SearchInv, Nearer

LEMMA Takes ==
  ASSUME NEW next \in Neighbours, NEW a \in Artifact, NEW s, SearchInv(next, a, s), s.path # <<>>,
         NEW edge \in s.path[Len(s.path)].todo,
         NEW t, t = Without(s, edge)
  PROVE  /\ PathInv(next, a, t) /\ Nearer(s, t)
         /\ edge \in Artifact /\ edge \in next[s.path[Len(s.path)].node]
         /\ s.cycles = {} =>
              \A i \in 1 .. Len(t.path) : \A d \in next[t.path[i].node] \ t.path[i].todo :
                \/ d \in s.finished
                \/ i < Len(t.path) /\ d = t.path[i + 1].node
                \/ i = Len(t.path) /\ d = edge
<1> DEFINE n == Len(s.path)
           x == s.path[n].node
<1>1. PathInv(next, a, s) /\ s \in Searching
  BY DEF SearchInv, PathInv
<1>2. s.path \in Seq(OnPath) /\ n \in Nat /\ n # 0 /\ n \in 1 .. n
  BY <1>1 DEF Searching
<1>3. /\ t \in Searching /\ t.finished = s.finished /\ t.cycles = s.cycles /\ Len(t.path) = n
      /\ \A i \in 1 .. n :
           /\ t.path[i].node = s.path[i].node
           /\ t.path[i].todo = IF i = n THEN s.path[i].todo \ {edge} ELSE s.path[i].todo
  <2>1. OnlyLacks(t, s, edge)
    <3> HIDE DEF n, x
    <3> QED BY <1>1, WithoutIs
  <2> QED BY <2>1 DEF OnlyLacks
<1>4. x \in Artifact /\ x \notin s.finished /\ s.path[n].todo \subseteq next[x] /\ edge \in next[x] /\ edge \in Artifact
  <2>1. s.path[n] \in OnPath
    BY <1>2
  <2>2. x \in Artifact /\ next[x] \subseteq Artifact
    BY <2>1 DEF OnPath, Neighbours
  <2>3. x \notin s.finished /\ s.path[n].todo \subseteq next[x]
    BY <1>1, <1>2 DEF PathInv
  <2> QED BY <2>2, <2>3
<1>5. PathInv(next, a, t)
  <2>1. \A i \in 1 .. n :
          /\ t.path[i].node \notin t.finished
          /\ t.path[i].node \in {a} \cup ReachableFrom(next, a)
          /\ t.path[i].todo \subseteq next[t.path[i].node]
    BY <1>1, <1>3 DEF PathInv
  <2>2. \A i, j \in 1 .. n : i < j =>
          t.path[i].node # t.path[j].node /\ t.path[j].node \in ReachableFrom(next, t.path[i].node)
    <3> TAKE i, j \in 1 .. n
    <3>1. t.path[i].node = s.path[i].node /\ t.path[j].node = s.path[j].node /\ i \in 1 .. n /\ j \in 1 .. n
      BY <1>3
    <3>2. i < j => s.path[i].node # s.path[j].node /\ s.path[j].node \in ReachableFrom(next, s.path[i].node)
      BY <1>1, <3>1 DEF PathInv
    <3> QED BY <3>1, <3>2
  <2>3. a \in t.finished \/ \E i \in 1 .. n : t.path[i].node = a
    BY <1>1, <1>3 DEF PathInv
  <2> QED BY <1>3, <2>1, <2>2, <2>3 DEF PathInv
<1>6. Edge(t) \subseteq Edge(s)
  <2> SUFFICES ASSUME NEW y \in Edge(t), NEW i \in 1 .. n, s.path[i].node = y[1] PROVE y[2] \in s.path[i].todo
    BY <1>3 DEF Edge
  <2>1. y[2] \in t.path[i].todo
    BY <1>3 DEF Edge
  <2> QED BY <1>3, <2>1
<1>7. Edge(t) # Edge(s)
  <2> DEFINE y == <<x, edge>>
  <2>1. y \in Artifact \X Artifact /\ y[1] = x /\ y[2] = edge
    BY <1>4
  <2> HIDE DEF y
  <2>2. y \in Edge(s)
    <3>1. \A i \in 1 .. n : s.path[i].node = x => i = n
      <4> SUFFICES ASSUME NEW i \in 1 .. n, s.path[i].node = x, i # n PROVE FALSE
        OBVIOUS
      <4>1. i < n
        BY <1>2
      <4> QED BY <1>1, <1>2, <4>1 DEF PathInv
    <3> QED BY <1>4, <2>1, <3>1 DEF Edge
  <2>3. y \notin Edge(t)
    <3>1. t.path[n].node = x /\ edge \notin t.path[n].todo /\ n \in 1 .. Len(t.path)
      BY <1>2, <1>3
    <3> HIDE DEF n, x
    <3> QED BY <2>1, <3>1 DEF Edge
  <2> QED BY <2>2, <2>3
<1>8. ASSUME s.cycles = {}, NEW i \in 1 .. n, NEW d \in next[t.path[i].node] \ t.path[i].todo
      PROVE  \/ d \in s.finished
             \/ i < n /\ d = t.path[i + 1].node
             \/ i = n /\ d = edge
  <2>1. Taken(next, s)
    BY <1>8 DEF SearchInv
  <2>2. CASE d \in s.path[i].todo
    BY <1>3, <1>8, <2>2
  <2>3. CASE d \notin s.path[i].todo
    <3>1. d \in next[s.path[i].node] \ s.path[i].todo
      BY <1>3, <1>8, <2>3
    <3>2. d \in s.finished \/ (i < n /\ d = s.path[i + 1].node)
      BY <2>1, <3>1 DEF Taken
    <3>3. i < n => i + 1 \in 1 .. n
      BY <1>2
    <3>4. i < n => t.path[i + 1].node = s.path[i + 1].node
      BY <1>3, <3>3
    <3> QED BY <3>2, <3>4
  <2> QED BY <2>2, <2>3
<1>9. Nearer(s, t)
  BY <1>3, <1>6, <1>7 DEF Nearer
<1>10. Len(t.path) = n
  BY <1>3
<1> QED BY <1>4, <1>5, <1>8, <1>9, <1>10

LEMMA Enters ==
  ASSUME NEW next \in Neighbours, NEW a \in Artifact, NEW s, PathInv(next, a, s), NEW b \in Artifact,
         b \notin s.finished, \A i \in 1 .. Len(s.path) : s.path[i].node # b,
         \/ s.path = <<>> /\ b = a
         \/ s.path # <<>> /\ b \in next[s.path[Len(s.path)].node],
         NEW t, t = Entered(next, s, b)
  PROVE  PathInv(next, a, t) /\ Edge(t) \subseteq Edge(s)
<1> DEFINE n == Len(s.path)
<1>1. s \in Searching /\ s.path \in Seq(OnPath) /\ n \in Nat
  BY DEF PathInv, Searching
<1>2. /\ t \in Searching /\ t.finished = s.finished /\ Len(t.path) = n + 1
      /\ t.path[n + 1].node = b /\ t.path[n + 1].todo = next[b]
      /\ \A i \in 1 .. n : t.path[i] = s.path[i]
  <2> HIDE DEF n
  <2>1. /\ Entered(next, s, b) \in Searching
        /\ Entered(next, s, b).finished = s.finished
        /\ Len(Entered(next, s, b).path) = Len(s.path) + 1
        /\ Entered(next, s, b).path[Len(s.path) + 1].node = b
        /\ Entered(next, s, b).path[Len(s.path) + 1].todo = next[b]
        /\ \A i \in 1 .. Len(s.path) : Entered(next, s, b).path[i] = s.path[i]
    BY <1>1, EnteredIs
  <2> QED BY <2>1 DEF n
<1>3. \A i \in 1 .. n + 1 : i \in 1 .. n \/ i = n + 1
  BY <1>1
<1>4. \A i \in 1 .. n : s.path[i].node \in Artifact /\ s.path[i].node \in {a} \cup ReachableFrom(next, a)
                        /\ s.path[i].node \notin s.finished /\ s.path[i].todo \subseteq next[s.path[i].node]
  <2> TAKE i \in 1 .. n
  <2>1. s.path[i] \in OnPath
    BY <1>1
  <2> QED BY <2>1 DEF PathInv, OnPath
<1>5. s.path # <<>> => n \in 1 .. n
  BY <1>1
<1>6. \A i \in 1 .. n : b \in ReachableFrom(next, s.path[i].node)
  <2> SUFFICES ASSUME NEW i \in 1 .. n PROVE b \in ReachableFrom(next, s.path[i].node)
    OBVIOUS
  <2> DEFINE y == s.path[n].node
  <2>1. s.path # <<>> /\ n \in 1 .. n
    BY <1>1
  <2>2. y \in Artifact /\ b \in next[y]
    BY <1>4, <2>1
  <2>3. b \in ReachableFrom(next, y)
    BY <2>2, ReachIs
  <2>4. i = n \/ y \in ReachableFrom(next, s.path[i].node)
    <3>1. i # n => i < n
      BY <1>1
    <3> QED BY <2>1, <3>1 DEF PathInv
  <2> HIDE DEF y, n
  <2>5. CASE i = n
    BY <2>3, <2>5 DEF y
  <2>6. CASE y \in ReachableFrom(next, s.path[i].node)
    <3>1. ReachableFrom(next, y) \subseteq ReachableFrom(next, s.path[i].node)
      BY <1>4, <2>6, ReachOn
    <3> QED BY <2>3, <3>1
  <2> QED BY <2>4, <2>5, <2>6
<1>7. b \in {a} \cup ReachableFrom(next, a)
  <2>1. CASE s.path = <<>>
    BY <2>1
  <2>2. CASE s.path # <<>>
    <3>1. s.path[n].node \in {a} \cup ReachableFrom(next, a) /\ b \in next[s.path[n].node]
      BY <1>4, <1>5, <2>2
    <3> QED BY <3>1, ReachIs
  <2> QED BY <2>1, <2>2
<1>8. PathInv(next, a, t)
  <2>1. \A i \in 1 .. n + 1 :
          /\ t.path[i].node \notin t.finished
          /\ t.path[i].node \in {a} \cup ReachableFrom(next, a)
          /\ t.path[i].todo \subseteq next[t.path[i].node]
    <3> TAKE i \in 1 .. n + 1
    <3>1. CASE i \in 1 .. n
      BY <1>2, <1>4, <3>1
    <3>2. CASE i = n + 1
      BY <1>2, <1>7, <3>2
    <3> QED BY <1>3, <3>1, <3>2
  <2>2. ASSUME NEW i \in 1 .. n + 1, NEW j \in 1 .. n + 1, i < j
        PROVE  t.path[i].node # t.path[j].node /\ t.path[j].node \in ReachableFrom(next, t.path[i].node)
    <3>1. i \in 1 .. n /\ t.path[i] = s.path[i]
      BY <1>1, <1>2, <2>2
    <3>2. CASE j \in 1 .. n
      <4>1. t.path[j] = s.path[j]
        BY <1>2, <3>2
      <4> QED BY <2>2, <3>1, <3>2, <4>1 DEF PathInv
    <3>3. CASE j = n + 1
      BY <1>2, <1>6, <3>1, <3>3
    <3> QED BY <1>3, <3>2, <3>3
  <2>3. a \in t.finished \/ \E i \in 1 .. n + 1 : t.path[i].node = a
    <3>1. n + 1 \in 1 .. n + 1 /\ \A i \in 1 .. n : i \in 1 .. n + 1
      BY <1>1
    <3>2. CASE s.path = <<>>
      BY <1>2, <3>1, <3>2
    <3>3. CASE a \in s.finished
      BY <1>2, <3>3
    <3>4. CASE \E i \in 1 .. n : s.path[i].node = a
      BY <1>2, <3>1, <3>4
    <3> QED BY <3>2, <3>3, <3>4 DEF PathInv
  <2>4. t \in Searching /\ Len(t.path) = n + 1
    BY <1>2
  <2> HIDE DEF n
  <2> QED BY <2>1, <2>2, <2>3, <2>4 DEF PathInv
<1>9. Edge(t) \subseteq Edge(s)
  <2> SUFFICES ASSUME NEW y \in Edge(t), NEW i \in 1 .. n, s.path[i].node = y[1] PROVE y[2] \in s.path[i].todo
    BY <1>2 DEF Edge
  <2>1. t.path[i] = s.path[i] /\ i \in 1 .. Len(t.path)
    BY <1>1, <1>2
  <2> QED BY <2>1 DEF Edge
<1> QED BY <1>8, <1>9

(* Visit is one of the three, or nothing once the path is empty.             *)
LEMMA Visits ==
  ASSUME NEW next \in Neighbours, NEW a \in Artifact, NEW s, SearchInv(next, a, s)
  PROVE  IF s.path = <<>> THEN Visit(next, s) = s
         ELSE SearchInv(next, a, Visit(next, s)) /\ Nearer(s, Visit(next, s))
<1> DEFINE n == Len(s.path)
           frame == s.path[n]
           edge == CHOOSE b \in frame.todo : TRUE
           taken == Without(s, edge)
<1>1. CASE s.path = <<>>
  BY <1>1 DEF Visit
<1>2. CASE s.path # <<>> /\ frame.todo = {}
  <2>1. Visit(next, s) = Left(s)
    BY <1>2 DEF Visit, Left
  <2> QED BY <1>2, <2>1, Leaves
<1>3. CASE s.path # <<>> /\ frame.todo # {}
  <2>1. edge \in frame.todo
    BY <1>3
  <2>2. Visit(next, s) = IF edge \in s.finished THEN taken
                         ELSE IF \E i \in 1 .. n : s.path[i].node = edge
                         THEN [taken EXCEPT !.cycles = @ \cup {edge}]
                         ELSE Entered(next, taken, edge)
    BY <1>3 DEF Visit, Without
  <2> HIDE DEF edge
  <2>3. /\ PathInv(next, a, taken) /\ Nearer(s, taken)
        /\ edge \in Artifact /\ edge \in next[s.path[n].node]
        /\ s.cycles = {} =>
             \A i \in 1 .. Len(taken.path) : \A d \in next[taken.path[i].node] \ taken.path[i].todo :
               \/ d \in s.finished
               \/ i < Len(taken.path) /\ d = taken.path[i + 1].node
               \/ i = Len(taken.path) /\ d = edge
    BY <1>3, <2>1, Takes
  <2>4. s \in Searching /\ s.path # <<>> /\ PathInv(next, a, s) /\ CyclesInv(next, a, s)
    BY <1>3 DEF SearchInv, PathInv
  <2>5. /\ taken \in Searching /\ taken.finished = s.finished /\ taken.cycles = s.cycles
        /\ Len(taken.path) = n /\ \A i \in 1 .. n : taken.path[i].node = s.path[i].node
    <3>1. s \in Searching /\ s.path # <<>>
      BY <2>4
    <3>2. OnlyLacks(taken, s, edge)
      <4> HIDE DEF n, frame
      <4> QED BY <3>1, WithoutIs
    <3> QED BY <3>2 DEF OnlyLacks
  <2>6. n \in Nat /\ n # 0 /\ n \in 1 .. n
    <3>1. s.path \in Seq(OnPath)
      BY <2>4 DEF Searching
    <3> QED BY <1>3, <3>1
  <2>7. taken.cycles = {} => Grounded(next, taken.finished)
    BY <2>5 DEF SearchInv
  <2> HIDE DEF taken
  <2>8. CASE edge \in s.finished
    <3>1. ASSUME taken.cycles = {} PROVE Taken(next, taken)
      BY <2>3, <2>5, <2>8, <3>1 DEF Taken
    <3>2. CyclesInv(next, a, taken)
      BY <2>4, <2>5 DEF CyclesInv
    <3>3. SearchInv(next, a, taken) /\ Nearer(s, taken)
      BY <2>3, <2>7, <3>1, <3>2 DEF SearchInv
    <3>4. Visit(next, s) = taken
      BY <2>2, <2>8
    <3> QED BY <2>4, <3>3, <3>4
  <2>9. CASE edge \notin s.finished /\ \E i \in 1 .. n : s.path[i].node = edge
    <3> DEFINE t == [taken EXCEPT !.cycles = @ \cup {edge}]
    <3>1. /\ t \in Searching /\ t.path = taken.path /\ t.finished = taken.finished
          /\ t.cycles = s.cycles \cup {edge}
      BY <2>3, <2>5 DEF Searching
    <3>2. Visit(next, s) = t
      BY <2>2, <2>9
    <3> HIDE DEF t
    <3>3. PathInv(next, a, t)
      BY <2>3, <3>1 DEF PathInv
    <3>4. Nearer(s, t)
      BY <2>3, <3>1 DEF Nearer, Edge
    <3>5. edge \in {a} \cup ReachableFrom(next, a) /\ edge \in ReachableFrom(next, edge)
      <4>1. PICK i \in 1 .. n : s.path[i].node = edge
        BY <2>9
      <4>2. edge \in {a} \cup ReachableFrom(next, a)
        BY <2>4, <4>1 DEF PathInv
      <4> DEFINE y == s.path[n].node
      <4>3. y \in Artifact
        <5>1. s.path \in Seq(OnPath)
          BY <2>4 DEF Searching
        <5>2. s.path[n] \in OnPath
          BY <2>6, <5>1
        <5> QED BY <5>2 DEF OnPath
      <4>4. edge \in ReachableFrom(next, y)
        BY <2>3, <4>3, ReachIs
      <4>5. i = n \/ y \in ReachableFrom(next, edge)
        <5>1. i # n => i < n
          BY <2>6
        <5> QED BY <2>4, <2>6, <4>1, <5>1 DEF PathInv
      <4>6. CASE i = n
        BY <4>1, <4>2, <4>4, <4>6
      <4>7. CASE y \in ReachableFrom(next, edge)
        <5>1. ReachableFrom(next, y) \subseteq ReachableFrom(next, edge)
          BY <2>3, <4>7, ReachOn
        <5> QED BY <4>2, <4>4, <5>1
      <4> QED BY <4>2, <4>5, <4>6, <4>7
    <3>6. CyclesInv(next, a, t)
      BY <2>4, <3>1, <3>5 DEF CyclesInv
    <3>7. t.cycles # {}
      BY <3>1
    <3>8. SearchInv(next, a, t)
      BY <3>3, <3>6, <3>7 DEF SearchInv
    <3> QED BY <2>4, <3>2, <3>4, <3>8
  <2>10. CASE edge \notin s.finished /\ ~\E i \in 1 .. n : s.path[i].node = edge
    <3> DEFINE t == Entered(next, taken, edge)
    <3>1. Visit(next, s) = t
      BY <2>2, <2>10
    <3>2. taken.path # <<>> /\ edge \in next[taken.path[Len(taken.path)].node]
      BY <2>3, <2>5, <2>6
    <3>3. edge \notin taken.finished /\ \A i \in 1 .. Len(taken.path) : taken.path[i].node # edge
      BY <2>5, <2>10
    <3>4. PathInv(next, a, t) /\ Edge(t) \subseteq Edge(taken)
      BY <2>3, <3>2, <3>3, Enters
    <3>5. /\ t.finished = taken.finished /\ t.cycles = taken.cycles
          /\ Len(t.path) = Len(taken.path) + 1
          /\ t.path[Len(taken.path) + 1].node = edge
          /\ t.path[Len(taken.path) + 1].todo = next[edge]
          /\ \A i \in 1 .. Len(taken.path) : t.path[i] = taken.path[i]
      BY <2>3, <2>5, EnteredIs
    <3> HIDE DEF t
    <3>6. CyclesInv(next, a, t)
      BY <2>4, <2>5, <3>5 DEF CyclesInv
    <3>7. ASSUME t.cycles = {}, NEW i \in 1 .. n + 1, NEW d \in next[t.path[i].node] \ t.path[i].todo
          PROVE  d \in t.finished \/ (i < n + 1 /\ d = t.path[i + 1].node)
      <4>1. i # n + 1
        BY <2>5, <3>5, <3>7
      <4>2. i \in 1 .. n /\ i < n + 1 /\ (i < n => i + 1 \in 1 .. n)
        BY <2>6, <4>1
      <4>3. t.path[i] = taken.path[i] /\ (i < n => t.path[i + 1] = taken.path[i + 1])
        BY <2>5, <3>5, <4>2
      <4>4. \/ d \in s.finished
            \/ i < n /\ d = taken.path[i + 1].node
            \/ i = n /\ d = edge
        <5>1. s.cycles = {} /\ Len(taken.path) = n
          BY <2>5, <3>5, <3>7
        <5>2. d \in next[taken.path[i].node] \ taken.path[i].todo
          BY <3>7, <4>3
        <5> HIDE DEF n
        <5> QED BY <2>3, <4>2, <5>1, <5>2
      <4>5. i = n => t.path[i + 1].node = edge
        BY <2>5, <3>5
      <4> QED BY <2>5, <3>5, <4>2, <4>3, <4>4, <4>5
    <3>8. ASSUME t.cycles = {} PROVE Grounded(next, t.finished) /\ Taken(next, t)
      <4>1. Grounded(next, t.finished)
        BY <2>7, <3>5, <3>8
      <4>2. Len(t.path) = n + 1
        BY <2>5, <3>5
      <4> HIDE DEF n
      <4>3. Taken(next, t)
        BY <3>7, <3>8, <4>2 DEF Taken
      <4> QED BY <4>1, <4>3
    <3>9. Nearer(s, t)
      BY <2>3, <3>4, <3>5 DEF Nearer
    <3>10. SearchInv(next, a, t)
      BY <3>4, <3>6, <3>8 DEF SearchInv
    <3> QED BY <2>4, <3>1, <3>9, <3>10
  <2> QED BY <1>3, <2>8, <2>9, <2>10
<1> QED BY <1>1, <1>2, <1>3

-----------------------------------------------------------------------------
(* How much is left to do.                                                   *)
Effort(s) == Cardinality(Edge(s)) + Cardinality(Artifact \ s.finished)

LEMMA EffortIs ==
  ASSUME RegistryAssumption, NEW s
  PROVE  /\ IsFiniteSet(Artifact) /\ IsFiniteSet(Artifact \X Artifact)
         /\ IsFiniteSet(Edge(s)) /\ IsFiniteSet(Artifact \ s.finished)
         /\ Cardinality(Edge(s)) \in Nat /\ Cardinality(Artifact \ s.finished) \in Nat
         /\ Effort(s) \in Nat
         /\ Cardinality(Artifact \X Artifact) \in Nat /\ Cardinality(Artifact) \in Nat
         /\ Effort(s) <= Cardinality(Artifact \X Artifact) + Cardinality(Artifact)
<1>1. IsFiniteSet(Artifact)
  BY DEF RegistryAssumption
<1>2. IsFiniteSet(Artifact \X Artifact)
  BY <1>1, FS_Product
<1>3. Edge(s) \subseteq Artifact \X Artifact /\ (Artifact \ s.finished) \subseteq Artifact
  BY DEF Edge
<1>4. /\ IsFiniteSet(Edge(s)) /\ Cardinality(Edge(s)) <= Cardinality(Artifact \X Artifact)
      /\ IsFiniteSet(Artifact \ s.finished) /\ Cardinality(Artifact \ s.finished) <= Cardinality(Artifact)
  BY <1>1, <1>2, <1>3, FS_Subset
<1>5. /\ Cardinality(Edge(s)) \in Nat /\ Cardinality(Artifact \ s.finished) \in Nat
      /\ Cardinality(Artifact \X Artifact) \in Nat /\ Cardinality(Artifact) \in Nat
  BY <1>1, <1>2, <1>4, FS_CardinalityType
<1>6. Effort(s) = Cardinality(Edge(s)) + Cardinality(Artifact \ s.finished)
  BY DEF Effort
<1> QED BY <1>1, <1>2, <1>4, <1>5, <1>6

LEMMA EffortFalls ==
  ASSUME RegistryAssumption, NEW s \in Searching, NEW t \in Searching, Nearer(s, t)
  PROVE  Effort(t) + 1 <= Effort(s)
<1> DEFINE E == Edge(s)
           F == Edge(t)
           L == Artifact \ s.finished
           M == Artifact \ t.finished
<1>1. /\ IsFiniteSet(E) /\ IsFiniteSet(L)
      /\ Cardinality(E) \in Nat /\ Cardinality(L) \in Nat /\ Cardinality(F) \in Nat /\ Cardinality(M) \in Nat
  BY EffortIs
<1>2. F \subseteq E /\ M \subseteq L /\ (F # E \/ M # L)
  <2>1. s.finished \subseteq Artifact /\ t.finished \subseteq Artifact
    BY DEF Searching
  <2>2. F \subseteq E /\ s.finished \subseteq t.finished /\ (F # E \/ s.finished # t.finished)
    BY DEF Nearer
  <2> HIDE DEF E, F
  <2> QED BY <2>1, <2>2
<1>3. Effort(s) = Cardinality(E) + Cardinality(L) /\ Effort(t) = Cardinality(F) + Cardinality(M)
  BY DEF Effort
<1> HIDE DEF E, F, L, M
<1>4. /\ Cardinality(F) <= Cardinality(E) /\ (F # E => Cardinality(F) # Cardinality(E))
      /\ Cardinality(M) <= Cardinality(L) /\ (M # L => Cardinality(M) # Cardinality(L))
  BY <1>1, <1>2, FS_Subset
<1> QED BY <1>1, <1>2, <1>3, <1>4

(* The search as it starts.                                                  *)
Start(next, a) == Entered(next, [path |-> <<>>, finished |-> {}, cycles |-> {}], a)

LEMMA Starts ==
  ASSUME NEW next \in Neighbours, NEW a \in Artifact
  PROVE  SearchInv(next, a, Start(next, a))
<1> DEFINE none == [path |-> <<>>, finished |-> {}, cycles |-> {}]
           s == Start(next, a)
<1>1. none \in Searching /\ none.path = <<>> /\ none.finished = {} /\ none.cycles = {}
  BY DEF Searching
<1>2. s = Entered(next, none, a)
  BY DEF Start
<1> HIDE DEF none
<1>3. /\ s \in Searching /\ s.finished = {} /\ s.cycles = {} /\ Len(s.path) = 1
      /\ s.path[1].node = a /\ s.path[1].todo = next[a]
  <2>1. Len(none.path) = 0
    BY <1>1
  <2>2. /\ Entered(next, none, a) \in Searching
        /\ Entered(next, none, a).finished = none.finished /\ Entered(next, none, a).cycles = none.cycles
        /\ Len(Entered(next, none, a).path) = Len(none.path) + 1
        /\ Entered(next, none, a).path[Len(none.path) + 1].node = a
        /\ Entered(next, none, a).path[Len(none.path) + 1].todo = next[a]
    <3>1. none \in Searching
      BY <1>1
    <3> HIDE DEF s
    <3> QED BY <3>1, EnteredIs
  <2> QED BY <1>1, <1>2, <2>1, <2>2
<1> HIDE DEF s
<1>4. \A i \in 1 .. 1 : i = 1
  OBVIOUS
<1>5. PathInv(next, a, s)
  BY <1>3, <1>4 DEF PathInv
<1>6. CyclesInv(next, a, s)
  BY <1>3 DEF CyclesInv
<1>7. Grounded(next, s.finished)
  BY <1>3 DEF Grounded
<1>8. Taken(next, s)
  BY <1>3, <1>4 DEF Taken
<1>9. SearchInv(next, a, s)
  BY <1>5, <1>6, <1>7, <1>8 DEF SearchInv
<1> QED BY <1>9 DEF s

(* Where it ends.                                                            *)
LEMMA Ends ==
  ASSUME NEW next \in Neighbours, NEW a \in Artifact, NEW s, SearchInv(next, a, s), s.path = <<>>
  PROVE  s.cycles # {} <=> \E b \in {a} \cup ReachableFrom(next, a) : b \in ReachableFrom(next, b)
<1>1. PathInv(next, a, s) /\ CyclesInv(next, a, s) /\ (s.cycles = {} => Grounded(next, s.finished))
  BY DEF SearchInv
<1>2. s.cycles # {} => \E b \in {a} \cup ReachableFrom(next, a) : b \in ReachableFrom(next, b)
  BY <1>1 DEF CyclesInv
<1>3. a \in s.finished /\ s.finished \in SUBSET Artifact
  <2>1. Len(s.path) = 0
    OBVIOUS
  <2> QED BY <1>1, <2>1 DEF PathInv, Searching
<1>4. ASSUME s.cycles = {}, NEW b \in {a} \cup ReachableFrom(next, a), b \in ReachableFrom(next, b)
      PROVE  FALSE
  <2> DEFINE D == s.finished
             C == {c \in D : b \in ReachableFrom(next, c)}
  <2>1. Grounded(next, D)
    BY <1>1, <1>4
  <2> HIDE DEF D
  <2>2. a \in D /\ D \in SUBSET Artifact /\ \A c \in D : next[c] \subseteq D
    BY <1>3, <2>1 DEF Grounded, D
  <2>3. ReachableFrom(next, a) \subseteq D
    BY <2>2, ReachIs
  <2>4. b \in C /\ C \in (SUBSET D) \ {{}}
    BY <1>4, <2>2, <2>3
  <2>5. PICK c \in C : next[c] \cap C = {}
    <3> HIDE DEF C
    <3> QED BY <2>1, <2>4 DEF Grounded
  <2>6. c \in Artifact /\ c \in D /\ b \in ReachableFrom(next, c)
    BY <2>2, <2>5
  <2>7. b \in next[c] \/ \E d \in next[c] : b \in ReachableFrom(next, d)
    BY <2>6, ReachStep
  <2>8. next[c] \subseteq D
    BY <2>2, <2>6
  <2>9. \A d \in next[c] : b \in ReachableFrom(next, d) => d \in C
    BY <2>8
  <2>10. b \in C
    BY <2>4
  <2> HIDE DEF C
  <2> QED BY <2>5, <2>7, <2>9, <2>10
<1> QED BY <1>2, <1>4

(* The search has turns enough to end, and then has found what there is.     *)
LEMMA FindCyclesIs ==
  ASSUME RegistryAssumption, NEW next \in Neighbours, NEW a \in Artifact
  PROVE  FindCycles(a, next) # {} <=> \E b \in {a} \cup ReachableFrom(next, a) : b \in ReachableFrom(next, b)
<1> DEFINE none == [path |-> <<>>, finished |-> {}, cycles |-> {}]
           N == Cardinality(Artifact \X Artifact) + Cardinality(Artifact)
           start == Start(next, a)
           T == {s \in Searching : SearchInv(next, a, s)}
           step == [n \in 1 .. N |-> [s \in T |-> Visit(next, s)]]
           IsOne(f) == f = [n \in 0 .. N |-> IF n = 0 THEN Entered(next, none, a) ELSE Visit(next, f[n - 1])]
<1>1. N \in Nat
  <2>1. IsFiniteSet(Artifact) /\ IsFiniteSet(Artifact \X Artifact)
    BY FS_Product DEF RegistryAssumption
  <2> QED BY <2>1, FS_CardinalityType
<1>2. start \in T
  <2>1. SearchInv(next, a, start)
    BY Starts
  <2> QED BY <2>1 DEF SearchInv, PathInv
<1>3. \A s \in T : Visit(next, s) \in T
  <2> SUFFICES ASSUME NEW s \in T PROVE Visit(next, s) \in T
    OBVIOUS
  <2>1. SearchInv(next, a, s)
    OBVIOUS
  <2>2. SearchInv(next, a, Visit(next, s))
    <3> HIDE DEF T
    <3> QED BY <2>1, Visits
  <2>3. Visit(next, s) \in Searching
    BY <2>2 DEF SearchInv, PathInv
  <2> QED BY <2>2, <2>3
<1>4. start = Entered(next, none, a)
  BY DEF Start
<1>5. \A s \in T : SearchInv(next, a, s) /\ s \in Searching
  OBVIOUS
<1> HIDE DEF N, T, start, none
<1>6. step \in [1 .. N -> [T -> T]] /\ \A n \in 1 .. N : \A s \in T : step[n][s] = Visit(next, s)
  BY <1>3
<1> HIDE DEF step
<1>7. PICK f \in [0 .. N -> T] : Iterates(f, N, start, step)
  BY <1>1, <1>2, <1>6, IterationExists
<1>8. IsOne(f)
  <2>1. ASSUME NEW n \in 0 .. N
        PROVE  (IF n = 0 THEN start ELSE step[n][f[n - 1]])
               = IF n = 0 THEN Entered(next, none, a) ELSE Visit(next, f[n - 1])
    <3>1. CASE n = 0
      BY <1>4, <3>1
    <3>2. CASE n # 0
      <4>1. n \in 1 .. N /\ n - 1 \in 0 .. N
        BY <1>1, <3>2
      <4> QED BY <1>6, <1>7, <3>2, <4>1
    <3> QED BY <3>1, <3>2
  <2>2. [n \in 0 .. N |-> IF n = 0 THEN start ELSE step[n][f[n - 1]]]
        = [n \in 0 .. N |-> IF n = 0 THEN Entered(next, none, a) ELSE Visit(next, f[n - 1])]
    BY <2>1
  <2> QED BY <1>7, <2>2 DEF Iterates
<1> DEFINE g == CHOOSE h : IsOne(h)
<1>9. IsOne(g)
  <2> HIDE DEF IsOne
  <2> QED BY <1>8
<1>10. FindCycles(a, next) = g[N].cycles
  BY Zenon DEF FindCycles, N, none
<1> HIDE DEF g
<1>11. g[0] = start /\ \A n \in 1 .. N : g[n] = Visit(next, g[n - 1])
  <2>1. 0 \in 0 .. N /\ \A n \in 1 .. N : n \in 0 .. N /\ n # 0
    BY <1>1
  <2> QED BY <1>4, <1>9, <2>1
<1> HIDE DEF IsOne
<1>12. \A n \in 0 .. N : g[n] \in T /\ (g[n].path = <<>> \/ Effort(g[n]) + n <= N)
  <2> DEFINE On(n) == g[n] \in T /\ (g[n].path = <<>> \/ Effort(g[n]) + n <= N)
             S == {n \in Nat : n <= N => On(n)}
  <2>1. 0 \in S
    <3>1. Effort(g[0]) \in Nat /\ Effort(g[0]) <= N
      BY EffortIs DEF N
    <3> QED BY <1>2, <1>11, <3>1
  <2>2. ASSUME NEW n \in Nat, n <= N => On(n), n + 1 <= N PROVE On(n + 1)
    <3> DEFINE s == g[n]
               t == g[n + 1]
    <3>1. n + 1 \in 1 .. N /\ (n + 1) - 1 = n /\ s \in T /\ (s.path = <<>> \/ Effort(s) + n <= N)
      BY <1>1, <2>2
    <3>2. t = Visit(next, s)
      BY <1>11, <3>1
    <3> HIDE DEF s, t
    <3>3. t \in T /\ SearchInv(next, a, s) /\ s \in Searching
      BY <1>3, <1>5, <3>1, <3>2
    <3>4. CASE s.path = <<>>
      <4>1. t = s
        BY <3>2, <3>3, <3>4, Visits
      <4> QED BY <3>3, <3>4, <4>1 DEF t
    <3>5. CASE s.path # <<>>
      <4>1. Nearer(s, t)
        BY <3>2, <3>3, <3>5, Visits
      <4>2. t \in Searching
        BY <1>5, <3>3
      <4>3. Effort(t) + 1 <= Effort(s) /\ Effort(s) \in Nat /\ Effort(t) \in Nat
        BY <3>3, <4>1, <4>2, EffortFalls, EffortIs
      <4>4. Effort(t) + (n + 1) <= N
        BY <1>1, <3>1, <3>5, <4>3
      <4> QED BY <3>3, <4>4 DEF t
    <3> QED BY <3>4, <3>5
  <2>3. \A n \in Nat : n \in S => n + 1 \in S
    <3> HIDE DEF On
    <3> QED BY <1>1, <2>2
  <2>4. Nat \subseteq S
    <3> HIDE DEF S
    <3> QED BY <2>1, <2>3, Induction
  <2> QED BY <1>1, <2>4
<1> DEFINE s == g[N]
<1>13. SearchInv(next, a, s) /\ s.path = <<>>
  <2>1. N \in 0 .. N
    BY <1>1
  <2>2. s \in T /\ (s.path = <<>> \/ Effort(s) + N <= N)
    BY <1>12, <2>1
  <2> HIDE DEF s
  <2>3. SearchInv(next, a, s) /\ s \in Searching
    BY <1>5, <2>2
  <2>4. ASSUME s.path # <<>> PROVE FALSE
    <3>1. /\ Effort(s) = Cardinality(Edge(s)) + Cardinality(Artifact \ s.finished)
          /\ Cardinality(Edge(s)) \in Nat /\ Cardinality(Artifact \ s.finished) \in Nat
          /\ IsFiniteSet(Artifact \ s.finished)
      BY EffortIs DEF Effort
    <3>2. Cardinality(Artifact \ s.finished) = 0
      BY <1>1, <2>2, <2>4, <3>1
    <3>3. Artifact \ s.finished = {}
      BY <3>1, <3>2, FS_EmptySet
    <3>4. s.path \in Seq(OnPath) /\ 1 \in 1 .. Len(s.path)
      BY <2>3, <2>4 DEF Searching
    <3>5. s.path[1].node \in Artifact
      <4>1. s.path[1] \in OnPath
        BY <3>4
      <4> QED BY <4>1 DEF OnPath
    <3>6. s.path[1].node \notin s.finished
      BY <2>3, <3>4 DEF SearchInv, PathInv
    <3> QED BY <3>3, <3>5, <3>6
  <2> QED BY <2>3, <2>4
<1>14. FindCycles(a, next) = s.cycles
  BY <1>10
<1> HIDE DEF s
<1> QED BY <1>13, <1>14, Ends

-----------------------------------------------------------------------------
Up == [c \in Artifact |-> IF Recorded(c) THEN StepUp(index, c) ELSE {}]
Down == [c \in Artifact |-> IF Recorded(c) THEN StepDown(index, c) ELSE {}]

(* The edges up are the edges down, read the other way.                      *)
LEMMA UpIsDown ==
  ASSUME Typed
  PROVE  /\ Up \in Neighbours /\ Down \in Neighbours
         /\ \A x, y \in Artifact : y \in Up[x] <=> x \in Down[y]
<1>1. \A c \in Artifact : StepUp(index, c) \subseteq Artifact /\ StepDown(index, c) \subseteq Artifact
  BY DEF StepUp, StepDown, ByDigest, Known
<1>2. Up \in Neighbours /\ Down \in Neighbours
  BY <1>1 DEF Up, Down, Neighbours
<1>3. ASSUME NEW x \in Artifact, NEW y \in Artifact PROVE y \in Up[x] <=> x \in Down[y]
  <2>1. y \in Up[x] <=> Recorded(x) /\ y \in StepUp(index, x)
    BY DEF Up
  <2>2. x \in Down[y] <=> Recorded(y) /\ x \in StepDown(index, y)
    BY DEF Down
  <2>3. y \in StepUp(index, x) <=> Recorded(y) /\ index[y].bytes \in index[x].inputs
    BY DEF StepUp, ByDigest, Known, Recorded
  <2>4. x \in StepDown(index, y) <=> Recorded(x) /\ index[y].bytes \in index[x].inputs
    BY DEF StepDown, Known, Recorded
  <2> QED BY <2>1, <2>2, <2>3, <2>4
<1> QED BY <1>2, <1>3

LEMMA LineageIs ==
  ASSUME Typed, NEW a \in Artifact
  PROVE  /\ Ancestors(index, a) = ReachableFrom(Up, a) \ {a}
         /\ Descendants(index, a) = ReachableFrom(Down, a) \ {a}
<1>1. Ancestors(index, a) = Traverse(a, Up) /\ Descendants(index, a) = Traverse(a, Down)
  <2>1. \A c \in Artifact : c \in Known(index) <=> Recorded(c)
    BY DEF Known, Recorded
  <2>2. [c \in Artifact |-> IF c \in Known(index) THEN StepUp(index, c) ELSE {}] = Up
    BY <2>1 DEF Up
  <2>3. [c \in Artifact |-> IF c \in Known(index) THEN StepDown(index, c) ELSE {}] = Down
    BY <2>1 DEF Down
  <2> QED BY <2>2, <2>3 DEF Ancestors, Descendants
<1> QED BY <1>1, UpIsDown, TraverseIs, RegistryAssumption

(* What the lineage reports of an artifact is the closure of the inputs its  *)
(* producers declared, the same from either end, and a cycle just when there *)
(* is one (lineage.ts): for any number of records, whatever their bytes.     *)
THEOREM LineageClosed == Spec => []LineageIsClosure
<1>1. Typed => LineageIsClosure
  <2> SUFFICES ASSUME Typed, NEW a \in Known(index)
               PROVE  /\ Ancestors(index, a) = ReachableFrom(Up, a) \ {a}
                      /\ \A b \in Known(index) \ {a} : b \in Ancestors(index, a) <=> a \in Descendants(index, b)
                      /\ FindCycles(a, Up) # {} <=>
                           \E b \in {a} \cup ReachableFrom(Up, a) : b \in ReachableFrom(Up, b)
    BY DEF LineageIsClosure, Up
  <2>1. a \in Artifact
    BY DEF Known
  <2>2. Ancestors(index, a) = ReachableFrom(Up, a) \ {a}
    BY <2>1, LineageIs
  <2>3. ASSUME NEW b \in Known(index) \ {a} PROVE b \in Ancestors(index, a) <=> a \in Descendants(index, b)
    <3>1. b \in Artifact /\ b # a
      BY DEF Known
    <3>2. Descendants(index, b) = ReachableFrom(Down, b) \ {b}
      BY <3>1, LineageIs
    <3>3. Up \in Neighbours /\ Down \in Neighbours /\ \A x, y \in Artifact : y \in Up[x] <=> x \in Down[y]
      BY UpIsDown
    <3>4. b \in ReachableFrom(Up, a) => a \in ReachableFrom(Down, b)
      BY <2>1, <3>3, ReachBack
    <3>5. a \in ReachableFrom(Down, b) => b \in ReachableFrom(Up, a)
      BY <3>1, <3>3, ReachBack
    <3> QED BY <2>2, <3>1, <3>2, <3>4, <3>5
  <2>4. FindCycles(a, Up) # {} <=> \E b \in {a} \cup ReachableFrom(Up, a) : b \in ReachableFrom(Up, b)
    BY <2>1, UpIsDown, FindCyclesIs, RegistryAssumption
  <2> QED BY <2>2, <2>3, <2>4
<1>2. Init => Typed
  BY TypeInit
<1>3. Typed /\ [Next]_vars => Typed'
  BY TypeStep
<1> QED BY <1>1, <1>2, <1>3, PTL DEF Spec
=============================================================================
