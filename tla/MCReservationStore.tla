-------------------------- MODULE MCReservationStore --------------------------
(***************************************************************************)
(* ReservationStore and RecordStore for TLC: two ways the same directory is  *)
(* kept, on separate files.  part says which one a behaviour is about.       *)
(***************************************************************************)
EXTENDS ReservationStore, RecordStore

VARIABLE part

T(id, body) == [id |-> id, body |-> body]

(* "a" has two bodies, as after a clock tick; the last batch repeats the    *)
(* first and adds to it.                                                    *)
Batches == {{T("a", 1)}, {T("a", 2)}, {T("a", 1), T("b", 1)}}

-----------------------------------------------------------------------------
(* Two builds: "old" has no schema for note, nor for a pack's origin.        *)
Pack(id) == [id |-> id]
Update(build, set, drop, push) ==
  [kind |-> "update", path |-> "manifest", build |-> build, set |-> set, drop |-> drop, push |-> push]
Nothing == <<>>
Calls ==
  {[kind |-> "create", path |-> "manifest", build |-> "new",
    value |-> [run |-> 1, note |-> 1, packs |-> <<[id |-> "p", origin |-> 1]>>]],
   Update("old", [cancellation |-> 1], {}, <<>>),
   Update("old", Nothing, {"run"}, <<Pack("q")>>),
   Update("new", [note |-> 2], {}, <<>>),
   Update("old", [runId |-> 2], {}, <<>>),
   [kind |-> "add", path |-> "artifacts", build |-> "old", value |-> [id |-> 1]],
   [kind |-> "add", path |-> "artifacts", build |-> "new", value |-> [id |-> 2, media |-> 1]],
   [kind |-> "put", path |-> "episode", build |-> "old", value |-> [episode |-> 1]],
   [Update("old", [title |-> 1], {}, <<>>) EXCEPT !.path = "episode"]}

Schemas ==
  [old |-> {"run", "runId", "cancellation", "packs", "episode", "title"},
   new |-> {"run", "runId", "cancellation", "packs", "episode", "title", "note"}]
PackSchemas == [old |-> {"id"}, new |-> {"id", "origin"}]

-----------------------------------------------------------------------------
MCInit ==
  /\ part \in {"reservations", "records"} /\ Init /\ RecordInit
  /\ part = "records" => \A w \in Writer : batch[w] = {T("a", 1)}

MCNext ==
  \/ part = "reservations" /\ Next /\ UNCHANGED <<part, recordVars>>
  \/ part = "records" /\ RecordNext /\ UNCHANGED <<part, vars>>

MCSpec == MCInit /\ [][MCNext]_<<part, vars, recordVars>>
=============================================================================
