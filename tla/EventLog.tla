------------------------------ MODULE EventLog ------------------------------
(***************************************************************************)
(* The event log of one Run, .aldus/runs/{run}/events.jsonl, as            *)
(* FileEventStore (packages/aldus-file-store/src/stores.ts) and            *)
(* parseJsonLines (packages/aldus-file-store/src/jsonl.ts) keep it.        *)
(*                                                                         *)
(* The file is the sequence of records a reader gets from it and the       *)
(* condition of its end.  `append` runs under the Run's lock (module       *)
(* FileLock), so that a whole append is one step; a process can die in the *)
(* middle of the write that ends it.                                       *)
(***************************************************************************)
EXTENDS Integers, Sequences, FiniteSetsExt

VARIABLES
    lines,   \* the records parseJsonLines returns, in file order
    tail     \* what the last byte written left behind, see Tails

(* "clean": the last line has its newline (or the file is empty).          *)
(* "partial": the last line is a torn, unparseable record without newline. *)
(* "whole": the last line is a complete record, only its newline is        *)
(* missing, and parses.  "interior": an unparseable line has its newline.  *)
Tails == {"clean", "partial", "whole", "interior"}

(* A torn last line is dropped; any other unparseable line makes every     *)
(* read throw ALDUS_EVENT_LOG_CORRUPT.                                     *)
Readable == tail # "interior"

(* One more than the highest stored sequence, zero for an empty log.       *)
NextSequenceOf(events) == Max({-1} \cup {e.sequence : e \in Range(events)}) + 1

Stored(e) == [e EXCEPT !.sequence = NextSequenceOf(lines)]

(* append: the log is read (so that it must be readable), the sequence     *)
(* assigned, and `line + newline` is added at the end of the file.  Behind *)
(* a torn tail the new record stands on the torn line, and the newline     *)
(* that closes it makes that line an interior one.                         *)
AppendLine(e) ==
    /\ Readable
    /\ \/ /\ tail = "clean"
          /\ lines' = Append(lines, Stored(e))
          /\ UNCHANGED tail
       \/ /\ tail \in {"partial", "whole"}
          /\ tail' = "interior"
          /\ UNCHANGED lines

(* The same append, cut short by the death of the process.  Behind a torn  *)
(* tail what was written is glued to it, and a record that lacked only its *)
(* newline no longer parses.                                               *)
TornAppend(e) ==
    /\ Readable
    /\ \/ /\ tail = "clean"
          /\ \/ tail' = "partial" /\ UNCHANGED lines
             \/ tail' = "whole" /\ lines' = Append(lines, Stored(e))
       \/ /\ tail \in {"partial", "whole"}
          /\ tail' = "partial"
          /\ lines' = IF tail = "whole" THEN SubSeq(lines, 1, Len(lines) - 1) ELSE lines
=============================================================================
