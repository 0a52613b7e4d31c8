---------------------------- MODULE RecordStore ----------------------------
(***************************************************************************)
(* The record stores of packages/aldus-file-store/src: the Episode, a Run's *)
(* manifest and its collection files, each a JSON document replaced whole   *)
(* under a lock (stores.ts, document.ts, collections.ts, atomic.ts).         *)
(*                                                                         *)
(* A document is a function from property names to values; the property      *)
(* "packs" holds a sequence of documents and every other value is opaque.    *)
(* A file's content is a document, a sequence of records (a collection),     *)
(* Absent, or Torn: bytes no writer meant.  Two builds share the directory;  *)
(* Knows says which properties each has a schema for, and reading strips      *)
(* the others (Zod), which is why an update merges over what it read.         *)
(*                                                                         *)
(* The lock is FileLock's, reduced to what its users see: one holder, taken   *)
(* over when the holder is dead, or when it is alive and its lease ran out.   *)
(***************************************************************************)
EXTENDS Integers, Sequences, Functions

CONSTANTS
  Client,      \* processes that use the stores
  Operations,  \* the calls they make, see Op below
  KnowsTop,    \* [build -> the properties of a document it has a schema for]
  KnowsPack,   \* [build -> the properties of an element of packs]
  Absent, Torn, None, Abandoned,
  MaxCalls, MaxOverruns, MaxFaults

Path == {"episode", "manifest", "artifacts"}

(* EPISODE_LOCK_RESOURCE for the Episode, the Run's own for its files.       *)
Resource(path) == IF path = "episode" THEN "episode" ELSE "run"

(* An operation is [kind |-> "put" or "create", path, build, value],          *)
(* [kind |-> "update", path, build, set, drop, push] or                       *)
(* [kind |-> "add", path, build, value]; set is a document whose properties    *)
(* the caller's mutate assigns, drop the properties it removes and push the    *)
(* elements it appends to packs.                                              *)

ASSUME MarkerAssumption == Absent # Torn /\ Client \cap {None, Abandoned} = {}

(* An object, and a document: its packs, where it has any, each carry an id    *)
(* (run.ts:104, common.ts:153-156).                                          *)
IsObject(o) == o = [f \in DOMAIN o |-> o[f]]

ArePacks(packs) ==
  packs \in Seq(Range(packs)) /\ \A p \in Range(packs) : IsObject(p) /\ "id" \in DOMAIN p

IsDocument(d) == IsObject(d) /\ ("packs" \in DOMAIN d => ArePacks(d.packs))

(* Whole documents are put and created, and records added, where they belong;   *)
(* an update changes the packs by appending only, in a build whose schema has   *)
(* packs and their id, and to a file whose writers always write packs.         *)
ASSUME OperationAssumption ==
  \A op \in Operations :
    /\ op.kind \in {"put", "create", "update", "add"} /\ op.path \in Path
    /\ op.kind = "add" <=> op.path = "artifacts"
    /\ op.kind \in {"put", "create"} => IsDocument(op.value)
    /\ op.kind = "update" =>
         /\ IsObject(op.set) /\ "packs" \notin op.drop \cup DOMAIN op.set
         /\ ArePacks(op.push)
         /\ op.push # <<>> =>
              /\ "packs" \in KnowsTop[op.build] /\ "id" \in KnowsPack[op.build]
              /\ \A other \in Operations :
                   other.path = op.path /\ other.kind \in {"put", "create"} =>
                     "packs" \in DOMAIN other.value

VARIABLES
  visible,   \* [path -> what a reader opens now]
  durable,   \* [path -> the contents a power loss may leave]
  lock,      \* [resource -> its holder, None, or Abandoned]
  stage,     \* where each client is
  doing,     \* in which operation
  next,      \* the content it computed from what it read
  flushed,   \* whether its temporary file has been synced
  owed,      \* ghost: [path -> the facts an acknowledged call promised]
  overrun,   \* ghost: times a live holder lost its lock in mid-body
  lax,       \* ghost: a directory could not be synced
  calls, faults

fileVars == <<visible, durable>>
writerVars == <<stage, doing, next, flushed>>
ghosts == <<owed, overrun, lax>>
recordVars == <<fileVars, lock, writerVars, ghosts, calls, faults>>

-----------------------------------------------------------------------------
(* document.ts.                                                            *)

Keep(document, properties) == [f \in DOMAIN document \cap properties |-> document[f]]

(* What validation leaves of a document: the properties the build knows.     *)
Strip(build, document) ==
  [f \in DOMAIN document \cap KnowsTop[build] |->
     IF f = "packs"
       THEN [i \in DOMAIN document.packs |-> Keep(document.packs[i], KnowsPack[build])]
       ELSE document[f]]

(* preserveUnknown on two objects: what this build does not know stays, what  *)
(* it knew and the caller removed goes.                                       *)
MergeObject(raw, original, updated, MergeValue(_, _, _, _)) ==
  [f \in (DOMAIN raw \ DOMAIN original) \cup DOMAIN updated |->
     IF f \notin DOMAIN updated THEN raw[f]
     ELSE IF f \in DOMAIN raw \cap DOMAIN original
            THEN MergeValue(f, raw[f], original[f], updated[f])
            ELSE updated[f]]

Opaque(f, raw, original, updated) == updated

(* preserveUnknown on two arrays: element by element when nothing was added    *)
(* or removed, and the caller's array otherwise.                              *)
MergePacks(raw, original, updated) ==
  IF Len(raw) = Len(original) /\ Len(original) = Len(updated)
    THEN [i \in DOMAIN updated |-> MergeObject(raw[i], original[i], updated[i], Opaque)]
    ELSE updated

MergeTop(f, raw, original, updated) ==
  IF f = "packs" THEN MergePacks(raw, original, updated) ELSE updated

PreserveUnknown(raw, original, updated) == MergeObject(raw, original, updated, MergeTop)

(* Mutant of MergeForWrite: what this build does not know is dropped.         *)
MergeForgotten(build, raw, updated) == updated

MergeForWrite(build, raw, updated) == PreserveUnknown(raw, Strip(build, raw), updated)

(* The caller's mutate, applied to the validated record.                     *)
Mutate(op, document) ==
  LET kept == Keep(document, DOMAIN document \ op.drop)
      all  == [f \in DOMAIN kept \cup DOMAIN op.set |->
                 IF f \in DOMAIN op.set THEN op.set[f] ELSE kept[f]]
  IN IF op.push = <<>> THEN all ELSE [all EXCEPT !.packs = @ \o op.push]

-----------------------------------------------------------------------------
(* What an operation makes of the content it finds, and when it refuses.     *)

Missing(content) == content = Absent

(* RECORD_MALFORMED, an existing Run, a missing record, a changed identity.   *)
Refuses(op, content) ==
  CASE op.kind = "put"    -> FALSE
    [] op.kind = "create" -> ~ Missing(content)
    [] op.kind = "update" -> \/ content \in {Absent, Torn}
                             \/ op.path = "manifest" /\ "runId" \in DOMAIN op.set
    [] op.kind = "add"    -> content = Torn

Outcome(op, content) ==
  CASE op.kind \in {"put", "create"} -> op.value
    [] op.kind = "update" -> MergeForWrite(op.build, content, Mutate(op, Strip(op.build, content)))
    [] op.kind = "add"    -> Append(IF Missing(content) THEN <<>> ELSE content, op.value)

-----------------------------------------------------------------------------
(* Facts: what a content says, one property or one record at a time.          *)

DocumentFacts(document) ==
  {<<f, document[f]>> : f \in DOMAIN document \ {"packs"}}
  \cup (IF "packs" \in DOMAIN document
          THEN UNION {{<<"packs", p.id, f, p[f]>> : f \in DOMAIN p} : p \in Range(document.packs)}
          ELSE {})

Facts(path, content) ==
  IF content \in {Absent, Torn} THEN {}
  ELSE IF path = "artifacts" THEN {<<"record", r>> : r \in Range(content)}
  ELSE DocumentFacts(content)

(* The facts an operation sets out to establish, and those it means to end:    *)
(* all of them for a put, and for an update the properties it assigns or       *)
(* removes; when it changes the number of packs, what its build does not        *)
(* know about them as well (the trade document.ts:105-110 states).             *)
Establishes(op) ==
  CASE op.kind \in {"put", "create"} -> DocumentFacts(op.value)
    [] op.kind = "add" -> {<<"record", op.value>>}
    [] op.kind = "update" ->
         DocumentFacts(op.set)
         \cup UNION {{<<"packs", p.id, f, p[f]>> : f \in DOMAIN p} : p \in Range(op.push)}

Ends(op, fact) ==
  CASE op.kind = "put" -> TRUE
    [] op.kind \in {"create", "add"} -> FALSE
    [] op.kind = "update" ->
         \/ fact[1] \in op.drop \cup DOMAIN op.set
         \/ fact[1] = "packs" /\ op.push # <<>> /\ fact[3] \notin KnowsPack[op.build]

-----------------------------------------------------------------------------
RecordInit ==
  /\ visible = [p \in Path |-> Absent] /\ durable = [p \in Path |-> {Absent}]
  /\ lock = [r \in {"episode", "run"} |-> None]
  /\ stage = [w \in Client |-> "idle"] /\ doing = [w \in Client |-> None]
  /\ next = [w \in Client |-> Absent] /\ flushed = [w \in Client |-> FALSE]
  /\ owed = [p \in Path |-> {}] /\ overrun = 0 /\ lax = FALSE
  /\ calls = 0 /\ faults = 0

Held(w) == lock[Resource(doing[w].path)] = w

(* Back to idle, whatever became of the call.                                *)
Finish(w) ==
  /\ stage' = [stage EXCEPT ![w] = "idle"] /\ doing' = [doing EXCEPT ![w] = None]
  /\ next' = [next EXCEPT ![w] = Absent] /\ flushed' = [flushed EXCEPT ![w] = FALSE]

(* withLock's release: only what is still one's own.                         *)
Unlock(w) ==
  lock' = IF Held(w) THEN [lock EXCEPT ![Resource(doing[w].path)] = None] ELSE lock

Fault == faults < MaxFaults /\ faults' = faults + 1

(* withLock: a free lock is taken, and so is one whose holder is dead or,      *)
(* with its lease expired, still in the middle of its body.                   *)
Acquire(w, op) ==
  LET holder == lock[Resource(op.path)]
  IN /\ stage[w] = "idle" /\ calls < MaxCalls
     /\ \/ holder \in {None, Abandoned} /\ overrun' = overrun
        \/ holder \in Client /\ overrun < MaxOverruns /\ overrun' = overrun + 1
     /\ lock' = [lock EXCEPT ![Resource(op.path)] = w]
     /\ stage' = [stage EXCEPT ![w] = "held"] /\ doing' = [doing EXCEPT ![w] = op]
     /\ calls' = calls + 1
     /\ UNCHANGED <<fileVars, next, flushed, owed, lax, faults>>

(* readDocument or readCollection, and the caller's change; a refusal is an    *)
(* error the caller receives.                                                *)
Read(w) ==
  LET op == doing[w]
      found == visible[op.path]
  IN /\ stage[w] = "held"
     /\ IF Refuses(op, found)
          THEN Finish(w) /\ Unlock(w)
          ELSE /\ stage' = [stage EXCEPT ![w] = "writing"]
               /\ next' = [next EXCEPT ![w] = Outcome(op, found)]
               /\ UNCHANGED <<doing, flushed, lock>>
     /\ UNCHANGED <<fileVars, ghosts, calls, faults>>

(* Mutant of SyncTemporary: the file is renamed before its bytes are safe.     *)
SyncLater(w) ==
  /\ stage[w] = "writing" /\ stage' = [stage EXCEPT ![w] = "synced"]
  /\ UNCHANGED <<fileVars, lock, doing, next, flushed, ghosts, calls, faults>>

(* handle.sync on the temporary file, before the rename.                      *)
SyncTemporary(w) ==
  /\ stage[w] = "writing"
  /\ flushed' = [flushed EXCEPT ![w] = TRUE]
  /\ stage' = [stage EXCEPT ![w] = "synced"]
  /\ UNCHANGED <<fileVars, lock, doing, next, ghosts, calls, faults>>

(* writeFile, sync or rename fails: the temporary file is removed.             *)
WriteFails(w) ==
  /\ stage[w] \in {"writing", "synced"} /\ Fault
  /\ Finish(w) /\ Unlock(w)
  /\ UNCHANGED <<fileVars, ghosts, calls>>

(* The rename is what readers see at once.  What a power loss would leave is    *)
(* the previous entry or this one, whose bytes are there if they were synced.   *)
Rename(w) ==
  LET p == doing[w].path
  IN /\ stage[w] = "synced"
     /\ visible' = [visible EXCEPT ![p] = next[w]]
     /\ durable' = [durable EXCEPT ![p] = @ \cup {IF flushed[w] THEN next[w] ELSE Torn}]
     /\ owed' = [owed EXCEPT ![p] = {fact \in @ : ~ Ends(doing[w], fact)}]
     /\ stage' = [stage EXCEPT ![w] = "renamed"]
     /\ UNCHANGED <<lock, doing, next, flushed, overrun, lax, calls, faults>>

(* syncDirectory, which settles every entry of the directory; its failure is    *)
(* tolerated.                                                                *)
SyncDirectory(w) ==
  LET entries == {p \in Path : Resource(p) = Resource(doing[w].path)}
  IN /\ stage[w] = "renamed"
     /\ \/ /\ durable' = [p \in Path |->
                IF p \notin entries THEN durable[p]
                ELSE {IF p = doing[w].path /\ ~ flushed[w] THEN Torn ELSE visible[p]}]
           /\ UNCHANGED <<lax, faults>>
        \/ Fault /\ lax' = TRUE /\ UNCHANGED durable
     /\ stage' = [stage EXCEPT ![w] = "written"]
     /\ UNCHANGED <<visible, lock, doing, next, flushed, owed, overrun, calls>>

(* The body returns.  The caller is told of success only if the lock is still   *)
(* this writer's; otherwise it receives LOCK_LOST.                            *)
Return(w) ==
  LET p == doing[w].path
  IN /\ stage[w] = "written"
     /\ owed' = IF Held(w) THEN [owed EXCEPT ![p] = @ \cup Establishes(doing[w])] ELSE owed
     /\ Finish(w) /\ Unlock(w)
     /\ UNCHANGED <<fileVars, overrun, lax, calls, faults>>

(* A process dies; its lock record stays, and so may its temporary file.        *)
Die(w) ==
  /\ stage[w] # "idle" /\ Fault
  /\ lock' = IF Held(w) THEN [lock EXCEPT ![Resource(doing[w].path)] = Abandoned] ELSE lock
  /\ Finish(w)
  /\ UNCHANGED <<fileVars, ghosts, calls>>

(* The power fails: every process dies and each entry is one of those the disk  *)
(* may hold.                                                                 *)
PowerFails ==
  /\ Fault
  /\ \E e \in durable.episode, m \in durable.manifest, a \in durable.artifacts :
       visible' = [episode |-> e, manifest |-> m, artifacts |-> a]
  /\ durable' = [p \in Path |-> {visible'[p]}]
  /\ lock' = [r \in DOMAIN lock |-> IF lock[r] = None THEN None ELSE Abandoned]
  /\ stage' = [w \in Client |-> "idle"] /\ doing' = [w \in Client |-> None]
  /\ next' = [w \in Client |-> Absent] /\ flushed' = [w \in Client |-> FALSE]
  /\ UNCHANGED <<ghosts, calls>>

RecordNext ==
  \/ \E w \in Client :
       \/ \E op \in Operations : Acquire(w, op)
       \/ Read(w) \/ SyncTemporary(w) \/ WriteFails(w) \/ Rename(w)
       \/ SyncDirectory(w) \/ Return(w) \/ Die(w)
  \/ PowerFails

RecordSpec == RecordInit /\ [][RecordNext]_recordVars

-----------------------------------------------------------------------------
(* A reader never finds bytes no writer meant (document.ts:65-66), whatever     *)
(* crashes and power failures came before; and unless a body outlived its lease *)
(* or a directory could not be synced, everything an acknowledged call wrote is *)
(* still there until another call means to change it: through crashes, power     *)
(* failures, and updates by a build that does not know what it says.            *)
RecordsSurvive ==
  /\ \A p \in Path : visible[p] # Torn
  /\ overrun = 0 /\ ~ lax => \A p \in Path : owed[p] \subseteq Facts(p, visible[p])

-----------------------------------------------------------------------------
(* Why RecordsSurvive holds, in three parts.  Every content a reader may find,   *)
(* now or after a power loss, is one that a writer meant, and its bytes were      *)
(* synced before it took the name.                                           *)
NeedsPacks(path) ==
  \E op \in Operations : op.kind = "update" /\ op.path = path /\ op.push # <<>>

IsContent(path, content) ==
  \/ content = Absent
  \/ IF path = "artifacts" THEN content \in Seq(Range(content))
     ELSE IsDocument(content) /\ (NeedsPacks(path) => "packs" \in DOMAIN content)

ContentInv ==
  /\ \A p \in Path : visible[p] \in durable[p] /\ \A c \in durable[p] : IsContent(p, c)
  /\ \A w \in Client :
       /\ stage[w] \in {"writing", "synced"} => IsContent(doing[w].path, next[w])
       /\ stage[w] \in {"synced", "renamed", "written"} => flushed[w]

(* While no live holder has lost its lock, a client at work holds the lock of    *)
(* the file it works on, and the content it is about to write follows from the   *)
(* one that is there; what it wrote says what the call is about.                *)
HoldInv == overrun = 0 => \A w \in Client : stage[w] # "idle" => Held(w)

WorkOK(w) ==
  LET op == doing[w]
      found == visible[op.path]
  IN /\ stage[w] \in {"writing", "synced"} => ~ Refuses(op, found) /\ next[w] = Outcome(op, found)
     /\ stage[w] \in {"renamed", "written"} => Establishes(op) \subseteq Facts(op.path, found)
     /\ stage[w] = "written" /\ ~ lax => durable[op.path] = {found}

WorkInv == overrun = 0 => \A w \in Client : WorkOK(w)

(* And what is owed is in every content the disk may come back with.            *)
OwedInv ==
  overrun = 0 /\ ~ lax => \A p \in Path : \A c \in durable[p] : owed[p] \subseteq Facts(p, c)

RecordTypeOK ==
  /\ IsObject(visible) /\ DOMAIN visible = Path
  /\ IsObject(durable) /\ DOMAIN durable = Path
  /\ lock \in [{"episode", "run"} -> Client \cup {None, Abandoned}]
  /\ stage \in [Client -> {"idle", "held", "writing", "synced", "renamed", "written"}]
  /\ IsObject(doing) /\ DOMAIN doing = Client
  /\ \A w \in Client : stage[w] # "idle" => doing[w] \in Operations
  /\ IsObject(next) /\ DOMAIN next = Client
  /\ flushed \in [Client -> BOOLEAN]
  /\ IsObject(owed) /\ DOMAIN owed = Path
  /\ overrun \in Nat /\ lax \in BOOLEAN
=============================================================================
