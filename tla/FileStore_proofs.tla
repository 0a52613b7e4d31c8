--------------------------- MODULE FileStore_proofs ---------------------------
(***************************************************************************)
(* The file store.  The lock of FileLock, for any number of sessions, hosts *)
(* and lockIds, whatever expires or dies; the commit stream of              *)
(* ReservationStore, for any number of callers and any batches, up to a     *)
(* power loss and across it; and the documents and collections of           *)
(* RecordStore, for any clients, builds and calls.                          *)
(***************************************************************************)
EXTENDS FileLock, ReservationStore, RecordStore, SequenceTheorems, TLAPS

-----------------------------------------------------------------------------
(* The lock.                                                                *)


(* The model's variables keep their types, and a session that is creating,  *)
(* holding or releasing has a lockId.                                       *)
THEOREM LockTypeCorrect == LockSpec => []LockTypeOK
<1>1. LockInit => LockTypeOK
  BY DEF LockInit, LockTypeOK, Contending, Holding, InBody
<1>2. LockTypeOK /\ [LockNext]_lockVars => LockTypeOK'
  <2> SUFFICES ASSUME LockTypeOK, [LockNext]_lockVars PROVE LockTypeOK'
    OBVIOUS
  <2> USE DEF LockTypeOK, disk, signs, session, history, Goto, Leave, Unlinks, Contending,
              Holding, InBody
  <2>1. ASSUME NEW p \in Proc, Begin(p) \/ Deadline(p) PROVE LockTypeOK'
    BY <2>1 DEF Begin, Deadline
  <2>2. ASSUME NEW p \in Proc, NEW i \in Id, OpenNew(p, i) PROVE LockTypeOK'
    BY <2>2 DEF OpenNew
  <2>3. ASSUME NEW p \in Proc, OpenExisting(p) \/ WriteRecord(p) PROVE LockTypeOK'
    BY <2>3 DEF OpenExisting, WriteRecord
  <2>4. ASSUME NEW p \in Proc, ReadBackOwn(p) PROVE LockTypeOK'
    <3>1. mine[p] \in Id /\ {mine[q] : q \in {r \in Proc \ {p} : at[r] \in InBody}} \subseteq Id
      BY <2>4 DEF ReadBackOwn
    <3>2. overlap' \in [Id -> SUBSET Id]
      BY <2>4, <3>1 DEF ReadBackOwn
    <3>3. (\A q \in Proc : at[q] \in Holding => mine[q] \in Id)' /\ at' \in [Proc -> {"idle"} \cup Contending \cup Holding]
      BY <2>4 DEF ReadBackOwn
    <3> QED BY <2>4, <3>2, <3>3 DEF ReadBackOwn
  <2>5. ASSUME NEW p \in Proc, ReadBackOther(p) PROVE LockTypeOK'
    BY <2>5 DEF ReadBackOther
  <2>6. ASSUME NEW p \in Proc, ReadUnusable(p) \/ ReadDead(p) PROVE LockTypeOK'
    BY <2>6 DEF ReadUnusable, ReadDead, Record
  <2>15. ASSUME NEW p \in Proc, ReadLive(p) PROVE LockTypeOK'
    <3>1. CASE late[p]
      <4>1. Leave(p) /\ UNCHANGED <<disk, signs, robbed, history>>
        BY <2>15, <3>1 DEF ReadLive
      <4> QED BY <4>1
    <3>2. CASE ~late[p]
      BY <2>15, <3>2 DEF ReadLive
    <3> QED BY <3>1, <3>2
  <2>7. ASSUME NEW p \in Proc, ReclaimCheck(p) \/ Reclaim(p) PROVE LockTypeOK'
    <3>1. ReclaimCheck(p) => LockTypeOK'
      BY DEF ReclaimCheck
    <3>2. Reclaim(p) => LockTypeOK'
      BY DEF Reclaim
    <3> QED BY <2>7, <3>1, <3>2
  <2>8. ASSUME NEW p \in Proc, NEW failed \in BOOLEAN, EndBody(p, failed) PROVE LockTypeOK'
    BY <2>8 DEF EndBody
  <2>9. ASSUME NEW p \in Proc, ReleaseHeld(p) \/ ReleaseLost(p) PROVE LockTypeOK'
    <3>1. ReleaseHeld(p) => LockTypeOK'
      BY DEF ReleaseHeld
    <3>2. ReleaseLost(p) => LockTypeOK'
      BY DEF ReleaseLost
    <3> QED BY <2>9, <3>1, <3>2
  <2>10. ASSUME NEW p \in Proc, Remove(p) PROVE LockTypeOK'
    BY <2>10 DEF Remove
  <2>11. ASSUME NEW p \in Proc, RenewCheck(p) \/ RenewTruncate(p) \/ RenewWrite(p) PROVE LockTypeOK'
    BY <2>11 DEF RenewCheck, RenewTruncate, RenewWrite
  <2>12. ASSUME NEW p \in Proc, Kill(p) PROVE LockTypeOK'
    BY <2>12 DEF Kill
  <2>13. ASSUME NEW i \in Id, Expire(i) PROVE LockTypeOK'
    BY <2>13 DEF Expire
  <2>14. CASE UNCHANGED lockVars
    BY <2>14 DEF lockVars
  <2> QED
    BY <2>1, <2>2, <2>3, <2>4, <2>5, <2>6, <2>7, <2>8, <2>9, <2>10, <2>11, <2>12, <2>13, <2>14,
       <2>15
    DEF LockNext, LockStep
<1> QED BY <1>1, <1>2, PTL DEF LockSpec

(* DiskInv: the file on the path was created by somebody still recorded in  *)
(* `used', and a lockId nobody has used is nowhere on disk.                 *)
LEMMA DiskInvariant == LockSpec => []DiskInv
<1>1. LockInit => DiskInv
  BY DEF LockInit, DiskInv, Holding, InBody
<1>2. LockTypeOK /\ DiskInv /\ [LockNext]_lockVars => DiskInv'
  <2> SUFFICES ASSUME LockTypeOK, DiskInv, [LockNext]_lockVars PROVE DiskInv'
    OBVIOUS
  <2> USE NoIdAssumption DEF LockTypeOK, DiskInv, disk, signs, session, history, Goto, Leave,
              Unlinks, Contending, Holding, InBody
  <2>1. ASSUME NEW p \in Proc, Begin(p) \/ Deadline(p) \/ OpenExisting(p) PROVE DiskInv'
    BY <2>1 DEF Begin, Deadline, OpenExisting
  <2>2. ASSUME NEW p \in Proc, NEW i \in Id, OpenNew(p, i) PROVE DiskInv'
    BY <2>2 DEF OpenNew
  <2>3. ASSUME NEW p \in Proc, WriteRecord(p) PROVE DiskInv'
    BY <2>3 DEF WriteRecord
  <2>4. ASSUME NEW p \in Proc, ReadBackOwn(p) PROVE DiskInv'
    BY <2>4 DEF ReadBackOwn
  <2>5. ASSUME NEW p \in Proc, ReadBackOther(p) PROVE DiskInv'
    BY <2>5 DEF ReadBackOther
  <2>6. ASSUME NEW p \in Proc, ReadUnusable(p) \/ ReadDead(p) PROVE DiskInv'
    BY <2>6 DEF ReadUnusable, ReadDead, Record
  <2>7. ASSUME NEW p \in Proc, ReadLive(p) PROVE DiskInv'
    BY <2>7 DEF ReadLive
  <2>8. ASSUME NEW p \in Proc, ReclaimCheck(p) PROVE DiskInv'
    BY <2>8 DEF ReclaimCheck
  <2>9. ASSUME NEW p \in Proc, Reclaim(p) PROVE DiskInv'
    BY <2>9 DEF Reclaim
  <2>10. ASSUME NEW p \in Proc, ReleaseHeld(p) \/ ReleaseLost(p) PROVE DiskInv'
    BY <2>10 DEF ReleaseHeld, ReleaseLost
  <2>11. ASSUME NEW p \in Proc, Remove(p) PROVE DiskInv'
    BY <2>11 DEF Remove
  <2>12. ASSUME NEW p \in Proc, RenewCheck(p) PROVE DiskInv'
    BY <2>12 DEF RenewCheck
  <2>13. ASSUME NEW p \in Proc, RenewTruncate(p) PROVE DiskInv'
    BY <2>13 DEF RenewTruncate
  <2>14. ASSUME NEW p \in Proc, RenewWrite(p) PROVE DiskInv'
    BY <2>14 DEF RenewWrite
  <2>15. ASSUME NEW p \in Proc, Kill(p) PROVE DiskInv'
    BY <2>15 DEF Kill
  <2>16. ASSUME NEW p \in Proc, NEW failed \in BOOLEAN, EndBody(p, failed) PROVE DiskInv'
    BY <2>16 DEF EndBody
  <2>17. ASSUME NEW i \in Id, Expire(i) PROVE DiskInv'
    BY <2>17 DEF Expire
  <2>18. CASE UNCHANGED lockVars
    BY <2>18 DEF lockVars
  <2> QED
    BY <2>1, <2>2, <2>3, <2>4, <2>5, <2>6, <2>7, <2>8, <2>9, <2>10, <2>11, <2>12, <2>13, <2>14, <2>15, <2>16, <2>17, <2>18
    DEF LockNext, LockStep
<1> QED BY <1>1, <1>2, LockTypeCorrect, PTL DEF LockSpec

(* No lock without a way out, renewals included: a record on disk names a   *)
(* session that will release it or a process a contender can find dead.     *)
THEOREM NoLockLeaks == LockSpec => []NoLeak
<1>1. LockInit => NoLeak
  BY DEF LockInit, NoLeak, Record
<1>2. LockTypeOK /\ DiskInv /\ NoLeak /\ [LockNext]_lockVars => NoLeak'
  <2> SUFFICES ASSUME LockTypeOK, DiskInv, NoLeak, [LockNext]_lockVars PROVE NoLeak'
    OBVIOUS
  <2> USE NoIdAssumption DEF LockTypeOK, DiskInv, NoLeak, Record, Holds, disk, signs, session, history, Goto, Leave,
              Unlinks, Contending, Holding, InBody
  <2>1. ASSUME NEW p \in Proc, Begin(p) \/ Deadline(p) \/ OpenExisting(p) PROVE NoLeak'
    BY <2>1 DEF Begin, Deadline, OpenExisting
  <2>2. ASSUME NEW p \in Proc, NEW i \in Id, OpenNew(p, i) PROVE NoLeak'
    BY <2>2 DEF OpenNew
  <2>3. ASSUME NEW p \in Proc, WriteRecord(p) PROVE NoLeak'
    BY <2>3 DEF WriteRecord
  <2>4. ASSUME NEW p \in Proc, ReadBackOwn(p) PROVE NoLeak'
    BY <2>4 DEF ReadBackOwn
  <2>5. ASSUME NEW p \in Proc, ReadBackOther(p) PROVE NoLeak'
    BY <2>5 DEF ReadBackOther
  <2>6. ASSUME NEW p \in Proc, ReadUnusable(p) \/ ReadDead(p) PROVE NoLeak'
    BY <2>6 DEF ReadUnusable, ReadDead, Record
  <2>7. ASSUME NEW p \in Proc, ReadLive(p) PROVE NoLeak'
    <3>1. UNCHANGED <<file, text, orphan>> /\ at[p] \notin Holding
      BY <2>7 DEF ReadLive
    <3>2. \A q \in Proc \ {p} : at'[q] = at[q] /\ mine'[q] = mine[q]
      BY <2>7 DEF ReadLive
    <3> QED BY <3>1, <3>2
  <2>8. ASSUME NEW p \in Proc, ReclaimCheck(p) PROVE NoLeak'
    BY <2>8 DEF ReclaimCheck
  <2>9. ASSUME NEW p \in Proc, Reclaim(p) PROVE NoLeak'
    BY <2>9 DEF Reclaim
  <2>10. ASSUME NEW p \in Proc, ReleaseHeld(p) \/ ReleaseLost(p) PROVE NoLeak'
    BY <2>10 DEF ReleaseHeld, ReleaseLost
  <2>11. ASSUME NEW p \in Proc, Remove(p) PROVE NoLeak'
    BY <2>11 DEF Remove
  <2>12. ASSUME NEW p \in Proc, RenewCheck(p) PROVE NoLeak'
    BY <2>12 DEF RenewCheck
  <2>13. ASSUME NEW p \in Proc, RenewTruncate(p) PROVE NoLeak'
    BY <2>13 DEF RenewTruncate
  <2>14. ASSUME NEW p \in Proc, RenewWrite(p) PROVE NoLeak'
    BY <2>14 DEF RenewWrite
  <2>15. ASSUME NEW p \in Proc, Kill(p) PROVE NoLeak'
    <3>1. Record' = Record /\ orphan \subseteq orphan'
      BY <2>15 DEF Kill
    <3>2. CASE mine[p] = Record /\ at[p] \in Holding
      BY <2>15, <3>1, <3>2 DEF Kill
    <3>3. CASE ~(mine[p] = Record /\ at[p] \in Holding)
      BY <2>15, <3>1, <3>3 DEF Kill
    <3> QED BY <3>2, <3>3
  <2>16. ASSUME NEW p \in Proc, NEW failed \in BOOLEAN, EndBody(p, failed) PROVE NoLeak'
    BY <2>16 DEF EndBody
  <2>17. ASSUME NEW i \in Id, Expire(i) PROVE NoLeak'
    <3>1. UNCHANGED <<Record, orphan, at, mine>>
      BY <2>17 DEF Expire
    <3> QED BY <3>1
  <2>18. CASE UNCHANGED lockVars
    <3>1. UNCHANGED <<Record, orphan, at, mine>>
      BY <2>18 DEF lockVars
    <3> QED BY <3>1
  <2> HIDE DEF NoLeak, Record, LockTypeOK, DiskInv
  <2> QED
    BY <2>1, <2>2, <2>3, <2>4, <2>5, <2>6, <2>7, <2>8, <2>9, <2>10, <2>11, <2>12, <2>13, <2>14, <2>15, <2>16, <2>17, <2>18
    DEF LockNext, LockStep
<1> QED BY <1>1, <1>2, LockTypeCorrect, DiskInvariant, PTL DEF LockSpec

(* Without renewal a file only ever holds the lockId it is named by, and no *)
(* two sessions hold the same lockId.                                       *)
LEMMA LeaseInvariant == ASSUME ~Renewing PROVE LockSpec => []LeaseInv
<1>1. LockInit => LeaseInv
  BY DEF LockInit, LeaseInv, Holding, InBody
<1>2. LockTypeOK /\ DiskInv /\ LeaseInv /\ [LockNext]_lockVars => LeaseInv'
  <2> SUFFICES ASSUME LockTypeOK, DiskInv, LeaseInv, [LockNext]_lockVars PROVE LeaseInv'
    OBVIOUS
  <2> USE NoIdAssumption DEF LockTypeOK, DiskInv, LeaseInv, disk, signs, session, history, Goto, Leave,
              Unlinks, Contending, Holding, InBody
  <2>1. ASSUME NEW p \in Proc, Begin(p) \/ Deadline(p) \/ OpenExisting(p) PROVE LeaseInv'
    BY <2>1 DEF Begin, Deadline, OpenExisting
  <2>2. ASSUME NEW p \in Proc, NEW i \in Id, OpenNew(p, i) PROVE LeaseInv'
    BY <2>2 DEF OpenNew
  <2>3. ASSUME NEW p \in Proc, WriteRecord(p) PROVE LeaseInv'
    BY <2>3 DEF WriteRecord
  <2>4. ASSUME NEW p \in Proc, ReadBackOwn(p) PROVE LeaseInv'
    BY <2>4 DEF ReadBackOwn
  <2>5. ASSUME NEW p \in Proc, ReadBackOther(p) PROVE LeaseInv'
    BY <2>5 DEF ReadBackOther
  <2>6. ASSUME NEW p \in Proc, ReadUnusable(p) \/ ReadDead(p) PROVE LeaseInv'
    BY <2>6 DEF ReadUnusable, ReadDead
  <2>7. ASSUME NEW p \in Proc, ReadLive(p) PROVE LeaseInv'
    BY <2>7 DEF ReadLive
  <2>8. ASSUME NEW p \in Proc, ReclaimCheck(p) PROVE LeaseInv'
    BY <2>8 DEF ReclaimCheck
  <2>9. ASSUME NEW p \in Proc, Reclaim(p) PROVE LeaseInv'
    BY <2>9 DEF Reclaim
  <2>10. ASSUME NEW p \in Proc, ReleaseHeld(p) PROVE LeaseInv'
    BY <2>10 DEF ReleaseHeld
  <2>11. ASSUME NEW p \in Proc, ReleaseLost(p) PROVE LeaseInv'
    BY <2>11 DEF ReleaseLost
  <2>12. ASSUME NEW p \in Proc, Remove(p) PROVE LeaseInv'
    BY <2>12 DEF Remove
  <2>13. ASSUME NEW p \in Proc, RenewCheck(p) \/ RenewTruncate(p) \/ RenewWrite(p) PROVE LeaseInv'
    BY <2>13 DEF RenewCheck, RenewTruncate, RenewWrite
  <2>14. ASSUME NEW p \in Proc, Kill(p) PROVE LeaseInv'
    BY <2>14 DEF Kill
  <2>15. ASSUME NEW p \in Proc, NEW failed \in BOOLEAN, EndBody(p, failed) PROVE LeaseInv'
    BY <2>15 DEF EndBody
  <2>16. ASSUME NEW i \in Id, Expire(i) PROVE LeaseInv'
    BY <2>16 DEF Expire
  <2>17. CASE UNCHANGED lockVars
    BY <2>17 DEF lockVars
  <2> HIDE DEF LeaseInv, LockTypeOK, DiskInv
  <2> QED
    BY <2>1, <2>2, <2>3, <2>4, <2>5, <2>6, <2>7, <2>8, <2>9, <2>10, <2>11, <2>12,
       <2>13, <2>14, <2>15, <2>16, <2>17
    DEF LockNext, LockStep
<1> QED BY <1>1, <1>2, LockTypeCorrect, DiskInvariant, PTL DEF LockSpec

(* Overlap is a symmetric relation between used lockIds, empty for a        *)
(* session that has not yet read its record back.                           *)
LEMMA OverlapInvariant == ASSUME ~Renewing PROVE LockSpec => []OverlapInv
<1>1. LockInit => OverlapInv
  BY DEF LockInit, OverlapInv, Holding, InBody
<1>2. LockTypeOK /\ DiskInv /\ LeaseInv /\ OverlapInv /\ [LockNext]_lockVars => OverlapInv'
  <2> SUFFICES ASSUME LockTypeOK, DiskInv, LeaseInv, OverlapInv, [LockNext]_lockVars PROVE OverlapInv'
    OBVIOUS
  <2> USE NoIdAssumption DEF LockTypeOK, DiskInv, LeaseInv, OverlapInv, disk, signs, session, history, Goto, Leave,
              Unlinks, Contending, Holding, InBody
  <2>1. ASSUME NEW p \in Proc, Begin(p) \/ Deadline(p) \/ OpenExisting(p) PROVE OverlapInv'
    BY <2>1 DEF Begin, Deadline, OpenExisting
  <2>2. ASSUME NEW p \in Proc, NEW i \in Id, OpenNew(p, i) PROVE OverlapInv'
    BY <2>2 DEF OpenNew
  <2>3. ASSUME NEW p \in Proc, WriteRecord(p) PROVE OverlapInv'
    BY <2>3 DEF WriteRecord
  <2>4. ASSUME NEW p \in Proc, ReadBackOwn(p) PROVE OverlapInv'
    BY <2>4 DEF ReadBackOwn
  <2>5. ASSUME NEW p \in Proc, ReadBackOther(p) PROVE OverlapInv'
    BY <2>5 DEF ReadBackOther
  <2>6. ASSUME NEW p \in Proc, ReadUnusable(p) \/ ReadDead(p) PROVE OverlapInv'
    BY <2>6 DEF ReadUnusable, ReadDead
  <2>7. ASSUME NEW p \in Proc, ReadLive(p) PROVE OverlapInv'
    BY <2>7 DEF ReadLive
  <2>8. ASSUME NEW p \in Proc, ReclaimCheck(p) PROVE OverlapInv'
    BY <2>8 DEF ReclaimCheck
  <2>9. ASSUME NEW p \in Proc, Reclaim(p) PROVE OverlapInv'
    BY <2>9 DEF Reclaim
  <2>10. ASSUME NEW p \in Proc, ReleaseHeld(p) PROVE OverlapInv'
    BY <2>10 DEF ReleaseHeld
  <2>11. ASSUME NEW p \in Proc, ReleaseLost(p) PROVE OverlapInv'
    BY <2>11 DEF ReleaseLost
  <2>12. ASSUME NEW p \in Proc, Remove(p) PROVE OverlapInv'
    BY <2>12 DEF Remove
  <2>13. ASSUME NEW p \in Proc, RenewCheck(p) \/ RenewTruncate(p) \/ RenewWrite(p) PROVE OverlapInv'
    BY <2>13 DEF RenewCheck, RenewTruncate, RenewWrite
  <2>14. ASSUME NEW p \in Proc, Kill(p) PROVE OverlapInv'
    BY <2>14 DEF Kill
  <2>15. ASSUME NEW p \in Proc, NEW failed \in BOOLEAN, EndBody(p, failed) PROVE OverlapInv'
    BY <2>15 DEF EndBody
  <2>16. ASSUME NEW i \in Id, Expire(i) PROVE OverlapInv'
    BY <2>16 DEF Expire
  <2>17. CASE UNCHANGED lockVars
    BY <2>17 DEF lockVars
  <2> HIDE DEF LeaseInv, LockTypeOK, DiskInv, OverlapInv
  <2> QED
    BY <2>1, <2>2, <2>3, <2>4, <2>5, <2>6, <2>7, <2>8, <2>9, <2>10, <2>11, <2>12,
       <2>13, <2>14, <2>15, <2>16, <2>17
    DEF LockNext, LockStep
<1> QED BY <1>1, <1>2, LockTypeCorrect, DiskInvariant, LeaseInvariant, PTL DEF LockSpec

(* Whatever overlapped a section that confirmed its lease is off disk for   *)
(* good and never confirms its own.                                         *)
LEMMA GoneInvariant == ASSUME ~Renewing PROVE LockSpec => []GoneInv
<1>1. LockInit => GoneInv
  BY DEF LockInit, GoneInv, Confirmed
<1>2. LockTypeOK /\ DiskInv /\ LeaseInv /\ OverlapInv /\ GoneInv /\ [LockNext]_lockVars => GoneInv'
  <2> SUFFICES ASSUME LockTypeOK, DiskInv, LeaseInv, OverlapInv, GoneInv, [LockNext]_lockVars PROVE GoneInv'
    OBVIOUS
  <2> USE NoIdAssumption DEF LockTypeOK, DiskInv, LeaseInv, OverlapInv, GoneInv, Confirmed, disk, signs, session, history, Goto, Leave,
              Unlinks, Contending, Holding, InBody
  <2>1. ASSUME NEW p \in Proc, Begin(p) \/ Deadline(p) \/ OpenExisting(p) PROVE GoneInv'
    BY <2>1 DEF Begin, Deadline, OpenExisting
  <2>2. ASSUME NEW p \in Proc, NEW i \in Id, OpenNew(p, i) PROVE GoneInv'
    BY <2>2 DEF OpenNew
  <2>3. ASSUME NEW p \in Proc, WriteRecord(p) PROVE GoneInv'
    BY <2>3 DEF WriteRecord
  <2>4. ASSUME NEW p \in Proc, ReadBackOwn(p) PROVE GoneInv'
    BY <2>4 DEF ReadBackOwn
  <2>5. ASSUME NEW p \in Proc, ReadBackOther(p) PROVE GoneInv'
    BY <2>5 DEF ReadBackOther
  <2>6. ASSUME NEW p \in Proc, ReadUnusable(p) \/ ReadDead(p) PROVE GoneInv'
    BY <2>6 DEF ReadUnusable, ReadDead
  <2>7. ASSUME NEW p \in Proc, ReadLive(p) PROVE GoneInv'
    BY <2>7 DEF ReadLive
  <2>8. ASSUME NEW p \in Proc, ReclaimCheck(p) PROVE GoneInv'
    BY <2>8 DEF ReclaimCheck
  <2>9. ASSUME NEW p \in Proc, Reclaim(p) PROVE GoneInv'
    BY <2>9 DEF Reclaim
  <2>10. ASSUME NEW p \in Proc, ReleaseHeld(p) PROVE GoneInv'
    <3>1. mine[p] \in Id /\ file = mine[p] /\ UNCHANGED <<overlap, file, mine, succeeded>>
      BY <2>10 DEF ReleaseHeld, Holds, Record
    <3>2. Confirmed' = Confirmed \cup {mine[p]}
      BY <2>10 DEF ReleaseHeld
    <3>3. \A i \in Confirmed : mine[p] \notin overlap[i]
      BY <3>1
    <3>4. \A j \in overlap[mine[p]] : j \notin Confirmed /\ j # mine[p]
      <4> SUFFICES ASSUME NEW j \in overlap[mine[p]] PROVE j \notin Confirmed /\ j # mine[p]
        OBVIOUS
      <4>1. j \in Id /\ mine[p] \in overlap[j] /\ j # mine[p]
        BY <3>1
      <4> QED BY <3>3, <4>1
    <3> HIDE DEF Confirmed
    <3> QED BY <3>1, <3>2, <3>3, <3>4
  <2>11. ASSUME NEW p \in Proc, ReleaseLost(p) PROVE GoneInv'
    BY <2>11 DEF ReleaseLost
  <2>12. ASSUME NEW p \in Proc, Remove(p) PROVE GoneInv'
    BY <2>12 DEF Remove
  <2>13. ASSUME NEW p \in Proc, RenewCheck(p) \/ RenewTruncate(p) \/ RenewWrite(p) PROVE GoneInv'
    BY <2>13 DEF RenewCheck, RenewTruncate, RenewWrite
  <2>14. ASSUME NEW p \in Proc, Kill(p) PROVE GoneInv'
    BY <2>14 DEF Kill
  <2>15. ASSUME NEW p \in Proc, NEW failed \in BOOLEAN, EndBody(p, failed) PROVE GoneInv'
    BY <2>15 DEF EndBody
  <2>16. ASSUME NEW i \in Id, Expire(i) PROVE GoneInv'
    BY <2>16 DEF Expire
  <2>17. CASE UNCHANGED lockVars
    BY <2>17 DEF lockVars
  <2> HIDE DEF LeaseInv, LockTypeOK, DiskInv, OverlapInv, GoneInv, Confirmed
  <2> QED
    BY <2>1, <2>2, <2>3, <2>4, <2>5, <2>6, <2>7, <2>8, <2>9, <2>10, <2>11, <2>12,
       <2>13, <2>14, <2>15, <2>16, <2>17
    DEF LockNext, LockStep
<1> QED BY <1>1, <1>2, LockTypeCorrect, DiskInvariant, LeaseInvariant, OverlapInvariant, PTL DEF LockSpec

(* The result the stores rely on: as long as nobody renews, withLock never  *)
(* reports success to two sections whose bodies overlapped.                 *)
THEOREM SuccessExclusive == ASSUME ~Renewing PROVE LockSpec => []SuccessIsExclusive
<1>1. GoneInv => SuccessIsExclusive
  BY DEF GoneInv, Confirmed, SuccessIsExclusive
<1> QED BY <1>1, GoneInvariant, PTL

(* A lease nobody took away is still on disk when its body ends.            *)
THEOREM LostOnlyIfRobbed == ASSUME ~Renewing PROVE LockSpec => []LostOnlyToAnother
<1>1. LockInit => HeldInv
  BY DEF LockInit, HeldInv
<1>2. LockTypeOK /\ DiskInv /\ LeaseInv /\ HeldInv /\ [LockNext]_lockVars => HeldInv'
  <2> SUFFICES ASSUME LockTypeOK, DiskInv, LeaseInv, HeldInv, [LockNext]_lockVars PROVE HeldInv'
    OBVIOUS
  <2> USE NoIdAssumption DEF LockTypeOK, DiskInv, LeaseInv, HeldInv, Holds, Record, disk, signs, session, history, Goto, Leave,
              Unlinks, Contending, Holding, InBody
  <2>1. ASSUME NEW p \in Proc, Begin(p) \/ Deadline(p) \/ OpenExisting(p) PROVE HeldInv'
    BY <2>1 DEF Begin, Deadline, OpenExisting
  <2>2. ASSUME NEW p \in Proc, NEW i \in Id, OpenNew(p, i) PROVE HeldInv'
    BY <2>2 DEF OpenNew
  <2>3. ASSUME NEW p \in Proc, WriteRecord(p) PROVE HeldInv'
    BY <2>3 DEF WriteRecord
  <2>4. ASSUME NEW p \in Proc, ReadBackOwn(p) PROVE HeldInv'
    BY <2>4 DEF ReadBackOwn
  <2>5. ASSUME NEW p \in Proc, ReadBackOther(p) PROVE HeldInv'
    BY <2>5 DEF ReadBackOther
  <2>6. ASSUME NEW p \in Proc, ReadUnusable(p) \/ ReadDead(p) PROVE HeldInv'
    BY <2>6 DEF ReadUnusable, ReadDead
  <2>7. ASSUME NEW p \in Proc, ReadLive(p) PROVE HeldInv'
    BY <2>7 DEF ReadLive
  <2>8. ASSUME NEW p \in Proc, ReclaimCheck(p) PROVE HeldInv'
    BY <2>8 DEF ReclaimCheck
  <2>9. ASSUME NEW p \in Proc, Reclaim(p) PROVE HeldInv'
    BY <2>9 DEF Reclaim
  <2>10. ASSUME NEW p \in Proc, ReleaseHeld(p) PROVE HeldInv'
    BY <2>10 DEF ReleaseHeld
  <2>11. ASSUME NEW p \in Proc, ReleaseLost(p) PROVE HeldInv'
    BY <2>11 DEF ReleaseLost
  <2>12. ASSUME NEW p \in Proc, Remove(p) PROVE HeldInv'
    BY <2>12 DEF Remove
  <2>13. ASSUME NEW p \in Proc, RenewCheck(p) \/ RenewTruncate(p) \/ RenewWrite(p) PROVE HeldInv'
    BY <2>13 DEF RenewCheck, RenewTruncate, RenewWrite
  <2>14. ASSUME NEW p \in Proc, Kill(p) PROVE HeldInv'
    BY <2>14 DEF Kill
  <2>15. ASSUME NEW p \in Proc, NEW failed \in BOOLEAN, EndBody(p, failed) PROVE HeldInv'
    BY <2>15 DEF EndBody
  <2>16. ASSUME NEW i \in Id, Expire(i) PROVE HeldInv'
    BY <2>16 DEF Expire
  <2>17. CASE UNCHANGED lockVars
    BY <2>17 DEF lockVars
  <2> HIDE DEF LeaseInv, LockTypeOK, DiskInv, HeldInv, Holds, Record
  <2> QED
    BY <2>1, <2>2, <2>3, <2>4, <2>5, <2>6, <2>7, <2>8, <2>9, <2>10, <2>11, <2>12,
       <2>13, <2>14, <2>15, <2>16, <2>17
    DEF LockNext, LockStep
<1>3. LockTypeOK /\ HeldInv => LostOnlyToAnother
  BY NoIdAssumption DEF HeldInv, LostOnlyToAnother, Holds, Record, LockTypeOK, Holding, InBody
<1> QED BY <1>1, <1>2, <1>3, LockTypeCorrect, DiskInvariant, LeaseInvariant, PTL DEF LockSpec

-----------------------------------------------------------------------------
(* The commit stream.                                                       *)

(* A commit file under the next name is an append to the sequence. *)
LEMMA NextName ==
  ASSUME NEW S, NEW d \in Seq(S), NEW b \in S, NEW k, k = Len(d) + 1
  PROVE  [r \in DOMAIN d \cup {k} |-> IF r = k THEN b ELSE d[r]] = Append(d, b)
<1> DEFINE f == [r \in DOMAIN d \cup {k} |-> IF r = k THEN b ELSE d[r]]
           a == Append(d, b)
<1>1. DOMAIN d = 1 .. Len(d) /\ Len(d) \in Nat
  OBVIOUS
<1>2. a \in Seq(S) /\ Len(a) = Len(d) + 1 /\ DOMAIN a = 1 .. Len(a)
  OBVIOUS
<1>3. DOMAIN f = DOMAIN a
  BY <1>1, <1>2
<1>4. \A r \in 1 .. Len(a) : f[r] = a[r]
  BY <1>1, <1>2, AppendProperties
<1>5. f \in [1 .. Len(a) -> S]
  BY <1>1, <1>2
<1>6. f \in Seq(S) /\ Len(f) = Len(a)
  BY <1>2, <1>5
<1> QED BY <1>2, <1>4, <1>6, SeqEqual

LEMMA SequenceHasNoGap ==
  ASSUME dir \in Seq(Batch)
  PROVE  ~Gap /\ Revisions = 1 .. Len(dir) /\ Len(dir) \in Nat
<1>1. Revisions = 1 .. Len(dir) /\ Len(dir) \in Nat
  BY DEF Revisions
<1>2. \A r \in 1 .. Len(dir) : \A s \in 1 .. r : s \in 1 .. Len(dir)
  BY <1>1
<1> QED BY <1>1, <1>2 DEF Gap

(* The variables keep their types and the directory stays a sequence: a     *)
(* caller that links takes the name right after the last one.               *)
THEOREM TypeCorrect == Spec => [](TypeOK /\ StreamInv)
<1>1. Init => TypeOK /\ StreamInv
  <2> SUFFICES ASSUME Init PROVE TypeOK /\ StreamInv
    OBVIOUS
  <2>1. <<>> \in Seq(Batch) /\ Len(<<>>) = 0 /\ DOMAIN <<>> = {}
    OBVIOUS
  <2>2. Revisions = {}
    BY <2>1 DEF Init, Revisions
  <2>3. TypeOK
    BY <2>2 DEF Init, TypeOK
  <2> QED BY <2>1, <2>3 DEF Init, StreamInv
<1>2. TypeOK /\ StreamInv /\ [Next]_vars => TypeOK'
  <2> SUFFICES ASSUME TypeOK, StreamInv, [Next]_vars PROVE TypeOK'
    OBVIOUS
  <2> USE DEF TypeOK, Revisions, caller, told, Answers, Returns
  <2>1. ASSUME NEW w \in Writer, NEW b \in Batch, ReadGrant(w, b) PROVE TypeOK'
    BY <2>1 DEF ReadGrant, StreamInv
  <2>2. ASSUME NEW w \in Writer, Retry(w) PROVE TypeOK'
    BY <2>2 DEF Retry
  <2>3. ASSUME NEW w \in Writer, CheckCorrupt(w) \/ CheckRefused(w) PROVE TypeOK'
    BY <2>3 DEF CheckCorrupt, CheckRefused
  <2>4. ASSUME NEW w \in Writer, CheckPresent(w) \/ CheckStale(w) PROVE TypeOK'
    <3>1. CASE CheckPresent(w)
      BY <3>1 DEF CheckPresent
    <3>2. CASE CheckStale(w)
      BY <3>2 DEF CheckStale
    <3> QED BY <2>4, <3>1, <3>2
  <2>5. ASSUME NEW w \in Writer, CheckCurrent(w) PROVE TypeOK'
    BY <2>5 DEF CheckCurrent
  <2>6. ASSUME NEW w \in Writer, Link(w) PROVE TypeOK'
    BY <2>6 DEF Link
  <2>7. ASSUME NEW w \in Writer, LinkExists(w) \/ Sync(w) PROVE TypeOK'
    BY <2>7 DEF LinkExists, Sync
  <2>8. ASSUME NEW w \in Writer, Recheck(w) \/ Crash(w) PROVE TypeOK'
    BY <2>8 DEF Recheck, Crash
  <2>9. CASE UNCHANGED vars
    BY <2>9 DEF vars
  <2>10. CASE PowerLoss
    BY <2>10 DEF PowerLoss
  <2> QED
    BY <2>1, <2>2, <2>3, <2>4, <2>5, <2>6, <2>7, <2>8, <2>9, <2>10 DEF Next, Step
<1>3. TypeOK /\ StreamInv /\ [Next]_vars => StreamInv'
  <2> SUFFICES ASSUME TypeOK, StreamInv, [Next]_vars, ~outage, ~outage' PROVE StreamInv'
    BY DEF StreamInv, TypeOK, Next, PowerLoss, Step, ReadGrant, Retry, Crash, CheckCorrupt, CheckRefused,
       CheckPresent, CheckStale, CheckCurrent, Link, LinkExists, Sync, Recheck, vars
  <2>1. ~Gap /\ Revisions = 1 .. Len(dir) /\ Len(dir) \in Nat
    BY SequenceHasNoGap DEF StreamInv
  <2>2. ASSUME NEW w \in Writer, NEW b \in Batch, ReadGrant(w, b) PROVE StreamInv'
    BY <2>1, <2>2 DEF ReadGrant, TypeOK, StreamInv
  <2>3. ASSUME NEW w \in Writer, Link(w) PROVE StreamInv'
    <3>1. expected[w] + 1 = Len(dir) + 1 /\ batch[w] \in Batch
      BY <2>1, <2>3 DEF Link, StreamInv, TypeOK
    <3>2. dir' = Append(dir, batch[w])
      BY <2>3, <3>1, NextName DEF Link, StreamInv, Revisions
    <3>3. dir \in Seq(Batch)
      BY DEF StreamInv
    <3>4. Append(dir, batch[w]) \in Seq(Batch) /\ Len(Append(dir, batch[w])) = Len(dir) + 1
      BY <3>1, <3>3, AppendProperties
    <3>5. expected' = expected
      BY <2>3 DEF Link
    <3> QED BY <2>1, <3>2, <3>4, <3>5 DEF StreamInv, TypeOK
  <2>4. CASE UNCHANGED <<dir, expected>>
    BY <2>4 DEF StreamInv
  <2> QED
    BY <2>2, <2>3, <2>4 DEF Next, Step, Retry, CheckCorrupt, CheckRefused, CheckPresent, CheckStale,
       CheckCurrent, LinkExists, Sync, Recheck, Crash, PowerLoss, vars, caller
<1> QED BY <1>1, <1>2, <1>3, PTL DEF Spec

(* No writer that loses its race, dies or retries leaves a hole in the      *)
(* numbering of the commit files.                                           *)
THEOREM Gapless == Spec => []NoGap
<1>1. StreamInv => NoGap
  BY SequenceHasNoGap DEF StreamInv, NoGap
<1> QED BY <1>1, TypeCorrect, PTL

(* What a caller knows at each point of its call, and the store's rule 2:   *)
(* one identity, one fact.                                                  *)
CallsOK == ~outage => CallInv /\ OneFactPerIdentity

LEMMA Outage ==
  ASSUME [Next]_vars
  PROVE  PowerLoss \/ outage' = outage
BY DEF Next, Step, ReadGrant, Retry, Crash, CheckCorrupt, CheckRefused, CheckPresent, CheckStale,
   CheckCurrent, Link, LinkExists, Sync, Recheck, vars

LEMMA CommittedGrows ==
  ASSUME TypeOK, NEW w \in Writer, Link(w)
  PROVE  Committed' = Committed \cup batch[w]
<1> DEFINE k == expected[w] + 1
<1>1. Revisions' = Revisions \cup {k} /\ k \notin Revisions
  BY DEF Link, Revisions
<1>2. dir'[k] = batch[w] /\ \A r \in Revisions : dir'[r] = dir[r]
  BY DEF Link, Revisions
<1>3. \A t : t \in Committed' <=> \E r \in Revisions' : t \in dir'[r]
  BY DEF Committed
<1>4. \A t : t \in Committed <=> \E r \in Revisions : t \in dir[r]
  BY DEF Committed
<1>5. \A t : t \in Committed' <=> t \in Committed \cup batch[w]
  <2> HIDE DEF k
  <2> QED BY <1>1, <1>2, <1>3, <1>4
<1> QED BY <1>5

THEOREM CallsCorrect == Spec => []CallsOK
<1>1. Init => CallsOK
  BY DEF Init, CallsOK, CallInv, OneFactPerIdentity, Committed, Revisions
<1>2. TypeOK /\ StreamInv /\ CallsOK /\ [Next]_vars => CallsOK'
  <2> SUFFICES ASSUME TypeOK, StreamInv, CallsOK, [Next]_vars, ~outage, ~PowerLoss PROVE CallsOK'
    BY Outage DEF PowerLoss, CallsOK
  <2>1. Revisions = 1 .. Len(dir) /\ Len(dir) \in Nat
    BY SequenceHasNoGap DEF StreamInv
  <2>0. CallInv /\ OneFactPerIdentity
    BY DEF CallsOK
  <2>2. ASSUME NEW w \in Writer, Link(w) PROVE CallsOK'
    <3>1. Committed' = Committed \cup batch[w]
      BY <2>2, CommittedGrows
    <3>2. expected[w] = Len(dir) /\ ~Clashes(batch[w]) /\ batch[w] \in Batch
      BY <2>1, <2>2 DEF Link, StreamInv, TypeOK, CallsOK, CallInv
    <3>3. OneFactPerIdentity'
      BY <3>1, <3>2, BatchAssumption DEF OneFactPerIdentity, CallsOK, Clashes
    <3>4. UNCHANGED <<batch, expected>> /\ won' = [won EXCEPT ![w] = TRUE] /\ pc' = [pc EXCEPT ![w] = "sync"]
      BY <2>2 DEF Link
    <3>5. Len(dir') = Len(dir) + 1
      <4>1. dir' = Append(dir, batch[w])
        BY <2>1, <2>2, <3>2, NextName DEF Link, StreamInv, Revisions
      <4> QED BY <3>2, <4>1, AppendProperties DEF StreamInv
    <3>6. CallInv'
      BY <2>1, <3>1, <3>4, <3>5 DEF CallInv, CallsOK, TypeOK, AllPresent, StreamInv
    <3> QED BY <3>3, <3>6 DEF CallsOK
  <2>3. ASSUME UNCHANGED dir PROVE OneFactPerIdentity'
    BY <2>3 DEF CallsOK, OneFactPerIdentity, Committed, Revisions
  <2>4. ASSUME NEW w \in Writer, \/ \E b \in Batch : ReadGrant(w, b)
                                 \/ Retry(w)
        PROVE  CallsOK'
    <3>1. UNCHANGED dir /\ pc' = [pc EXCEPT ![w] = "check"] /\ won' = [won EXCEPT ![w] = FALSE]
      BY <2>4 DEF ReadGrant, Retry
    <3>2. \A v \in Writer \ {w} : batch'[v] = batch[v] /\ expected'[v] = expected[v]
      BY <2>4 DEF ReadGrant, Retry, TypeOK
    <3>3. Committed' = Committed
      BY <3>1 DEF Committed, Revisions
    <3>4. CallInv'
      BY <2>0, <3>1, <3>2, <3>3 DEF CallInv, TypeOK, AllPresent, Clashes
    <3> QED BY <2>3, <3>1, <3>4 DEF CallsOK
  <2>5. ASSUME NEW w \in Writer, Step(w) \/ Crash(w), ~Link(w) PROVE CallsOK'
    <3>1. UNCHANGED <<dir, batch, expected, won>>
      BY <2>5 DEF Step, Crash, CheckCorrupt, CheckRefused, CheckPresent, CheckStale, CheckCurrent,
                  LinkExists, Sync, Recheck
    <3>2. \/ CheckCurrent(w)
          \/ \E l \in {"idle", "recheck"} : pc' = [pc EXCEPT ![w] = l]
      BY <2>5 DEF Step, Crash, CheckCorrupt, CheckRefused, CheckPresent, CheckStale,
                  LinkExists, Sync, Recheck, Answers, Returns
    <3>3. CASE CheckCurrent(w)
      <4>1. ~Clashes(batch[w]) /\ pc[w] = "check" /\ pc' = [pc EXCEPT ![w] = "link"]
        BY <3>3 DEF CheckCurrent
      <4> QED BY <2>3, <3>1, <4>1 DEF CallsOK, CallInv, TypeOK, AllPresent, Clashes, Committed, Revisions
    <3>4. CASE \E l \in {"idle", "recheck"} : pc' = [pc EXCEPT ![w] = l]
      <4>1. CallInv'
        BY <3>1, <3>4 DEF CallsOK, CallInv, TypeOK, AllPresent, Clashes, Committed, Revisions
      <4> QED BY <2>3, <3>1, <4>1 DEF CallsOK
    <3> QED BY <3>2, <3>3, <3>4
  <2>6. CASE UNCHANGED vars
    BY <2>6 DEF vars, caller, CallsOK, CallInv, OneFactPerIdentity, AllPresent, Clashes, Committed, Revisions
  <2> QED BY <2>2, <2>4, <2>5, <2>6 DEF Next, Step
<1> QED BY <1>1, <1>2, TypeCorrect, PTL DEF Spec

(* No two different facts are ever committed under one identity.            *)
THEOREM OneFact == Spec => [](~outage => OneFactPerIdentity)
<1>1. CallsOK => (~outage => OneFactPerIdentity)
  BY DEF CallsOK
<1> QED BY <1>1, CallsCorrect, PTL

(* Why a power loss cannot take back what was acknowledged: the sync that    *)
(* precedes "appended" covers the caller's own commit file, which nobody     *)
(* replaces between its link() and that sync.                                *)
DurableInv ==
  /\ \A b \in appended : \E r \in synced : dir[r] = b
  /\ \A w \in Writer : pc[w] = "sync" => /\ expected[w] + 1 \in Revisions
                                         /\ dir[expected[w] + 1] = batch[w]

(* A batch whose caller was told "appended" stays on disk through every      *)
(* power loss, before and after the first one.                               *)
THEOREM Durable == Spec => []AppendedSurvives
<1>1. Init => DurableInv
  BY DEF Init, DurableInv
<1>2. TypeOK /\ DurableInv /\ [Next]_vars => DurableInv'
  <2> SUFFICES ASSUME TypeOK, DurableInv, [Next]_vars PROVE DurableInv'
    OBVIOUS
  <2>1. ASSUME NEW w \in Writer, (\E b \in Batch : ReadGrant(w, b)) \/ Retry(w) PROVE DurableInv'
    <3>1. UNCHANGED <<dir, synced, appended>> /\ pc' = [pc EXCEPT ![w] = "check"]
      BY <2>1 DEF ReadGrant, Retry
    <3>2. \A v \in Writer \ {w} : batch'[v] = batch[v] /\ expected'[v] = expected[v]
      BY <2>1 DEF ReadGrant, Retry, TypeOK
    <3> QED BY <3>1, <3>2 DEF DurableInv, TypeOK, Revisions
  <2>2. ASSUME NEW w \in Writer, Link(w) PROVE DurableInv'
    <3> DEFINE k == expected[w] + 1
    <3>1. Revisions' = Revisions \cup {k} /\ k \notin Revisions
      BY <2>2 DEF Link, Revisions
    <3>2. dir'[k] = batch[w] /\ \A r \in Revisions : dir'[r] = dir[r]
      BY <2>2 DEF Link, Revisions
    <3>3. UNCHANGED <<synced, batch, expected, appended>> /\ pc' = [pc EXCEPT ![w] = "sync"]
      BY <2>2 DEF Link, told
    <3>4. \A b \in appended' : \E r \in synced' : dir'[r] = b
      BY <3>2, <3>3 DEF DurableInv, TypeOK
    <3> QED BY <3>1, <3>2, <3>3, <3>4 DEF DurableInv, TypeOK
  <2>3. ASSUME NEW w \in Writer, Sync(w) PROVE DurableInv'
    <3>1. UNCHANGED <<dir, batch, expected>> /\ synced' = Revisions /\ appended' \subseteq appended \cup {batch[w]}
      BY <2>3 DEF Sync, Returns, Answers, told
    <3>2. \A v \in Writer : pc'[v] = "sync" => pc[v] = "sync"
      BY <2>3 DEF Sync, Returns, Answers, TypeOK
    <3>3. expected[w] + 1 \in Revisions /\ dir[expected[w] + 1] = batch[w]
      BY <2>3 DEF Sync, DurableInv
    <3> QED BY <3>1, <3>2, <3>3 DEF DurableInv, TypeOK, Revisions
  <2>4. ASSUME NEW w \in Writer, Step(w) \/ Crash(w), ~Link(w), ~Sync(w) PROVE DurableInv'
    <3>1. UNCHANGED <<dir, synced, batch, expected, appended>>
      BY <2>4 DEF Step, Crash, CheckCorrupt, CheckRefused, CheckPresent, CheckStale, CheckCurrent,
                  LinkExists, Recheck, Returns, Answers, told
    <3>2. \E l \in {"idle", "recheck", "link"} : pc' = [pc EXCEPT ![w] = l]
      BY <2>4 DEF Step, Crash, CheckCorrupt, CheckRefused, CheckPresent, CheckStale, CheckCurrent,
                  LinkExists, Recheck, Returns, Answers
    <3> QED BY <3>1, <3>2 DEF DurableInv, TypeOK, Revisions
  <2>5. CASE PowerLoss
    <3>1. PICK kept \in SUBSET Revisions : synced \subseteq kept /\ dir' = [r \in kept |-> dir[r]] /\ synced' = kept
      BY <2>5 DEF PowerLoss
    <3> QED BY <2>5, <3>1 DEF PowerLoss, DurableInv
  <2>6. CASE UNCHANGED vars
    BY <2>6 DEF vars, caller, told, DurableInv, Revisions
  <2> QED BY <2>1, <2>2, <2>3, <2>4, <2>5, <2>6 DEF Next, Step
<1>3. TypeOK /\ DurableInv => AppendedSurvives
  BY DEF TypeOK, DurableInv, AppendedSurvives
<1> QED BY <1>1, <1>2, <1>3, TypeCorrect, PTL DEF Spec

(* The store implements the atomic conditional append: a caller that links  *)
(* appends right after the revision it read, and whatever it is told later  *)
(* agrees with that.                                                        *)
THEOREM Refinement == Spec => StreamSpec
<1> DEFINE Asked == {w \in Writer : pc[w] # "idle"}
           Ans == [w \in Writer |-> IF answer[w] = "crashed" THEN "none" ELSE answer[w]]
<1>1. Init => Stream!Init
  BY DEF Init, Stream!Init
<1>2. TypeOK /\ StreamInv /\ CallsOK /\ [Next]_vars => [Stream!Next]_Stream!vars
  <2> SUFFICES ASSUME TypeOK, StreamInv, CallsOK, [Next]_vars
               PROVE  Stream!Next \/ UNCHANGED Stream!vars
    OBVIOUS
  <2>01. CASE outage'
    BY <2>01 DEF Stream!Next
  <2>02. (\E w \in Writer : Stream!Request(w)) /\ ~outage /\ ~outage' => Stream!Next
    BY DEF Stream!Next
  <2> SUFFICES ASSUME ~outage, ~outage', ~PowerLoss
                 PROVE  (\E w \in Writer : Stream!Request(w)) \/ UNCHANGED Stream!vars
    BY <2>01, <2>02, Outage DEF PowerLoss
  <2>1. ~Gap /\ Revisions = 1 .. Len(dir) /\ Len(dir) \in Nat
    BY SequenceHasNoGap DEF StreamInv
  <2>2. Stream!Committed = Committed
    BY <2>1 DEF Stream!Committed, Committed
  <2>3. ASSUME NEW w \in Writer, NEW a, Answers(w, a), pc[w] # "idle",
               UNCHANGED <<dir, batch, expected, won>>,
               NEW c \in {"none", "appended", "already_present", "conflict", "refused", "lock_lost"},
               c = IF a = "crashed" THEN "none" ELSE a,
               Stream!Justified(w, c)
        PROVE  \E v \in Writer : Stream!Request(v)
    <3>1. Asked' = Asked \ {w} /\ w \in Asked
      BY <2>3 DEF Answers, TypeOK
    <3>2. Ans' = [Ans EXCEPT ![w] = c]
      BY <2>3 DEF Answers, TypeOK
    <3>3. Stream!Answer(w, c)
      BY <2>3, <3>1, <3>2 DEF Stream!Answer
    <3> QED BY <3>3 DEF Stream!Request
  <2>4. ASSUME NEW w \in Writer, NEW a \in {"already_present", "conflict", "appended"},
               Returns(w, a), pc[w] # "idle",
               UNCHANGED <<dir, batch, expected, won>>, Stream!Justified(w, a)
        PROVE  (\E v \in Writer : Stream!Request(v)) \/ UNCHANGED Stream!vars
    <3>1. CASE Answers(w, a)
      BY <2>3, <2>4, <3>1
    <3>2. CASE pc' = [pc EXCEPT ![w] = "recheck"] /\ UNCHANGED told
      <4>1. Asked' = Asked /\ Ans' = Ans
        BY <2>4, <3>2 DEF TypeOK, told
      <4>2. UNCHANGED outage
        BY Outage
      <4> QED BY <2>4, <4>1, <4>2 DEF Stream!vars
    <3> QED BY <2>4, <3>1, <3>2 DEF Returns
  <2>5. ASSUME NEW w \in Writer, NEW b \in Batch, ReadGrant(w, b) \/ (Retry(w) /\ b = batch[w])
        PROVE  \E v \in Writer : Stream!Request(v)
    <3>1. Asked' = Asked \cup {w} /\ w \notin Asked
      BY <2>5 DEF ReadGrant, Retry, TypeOK
    <3>2. Ans' = [Ans EXCEPT ![w] = "none"]
      BY <2>5 DEF ReadGrant, Retry, TypeOK
    <3>3. \E e \in 0 .. Len(dir) : batch' = [batch EXCEPT ![w] = b] /\ expected' = [expected EXCEPT ![w] = e]
      <4>1. CASE ReadGrant(w, b)
        <5>1. Len(dir) \in 0 .. Len(dir)
          BY <2>1
        <5>2. batch' = [batch EXCEPT ![w] = b] /\ expected' = [expected EXCEPT ![w] = Len(dir)]
          BY <4>1 DEF ReadGrant
        <5> QED BY <5>1, <5>2
      <4>2. CASE Retry(w) /\ b = batch[w]
        BY <2>1, <4>2 DEF Retry, TypeOK, StreamInv
      <4> QED BY <2>5, <4>1, <4>2
    <3>4. Stream!Ask(w)
      BY <2>5, <3>1, <3>2, <3>3 DEF Stream!Ask, ReadGrant, Retry
    <3> QED BY <3>4 DEF Stream!Request
  <2>6. ASSUME NEW w \in Writer, Link(w) PROVE \E v \in Writer : Stream!Request(v)
    <3>1. expected[w] = Len(dir) /\ batch[w] \in Batch
      BY <2>1, <2>6 DEF Link, StreamInv, TypeOK
    <3>2. dir' = Append(dir, batch[w])
      BY <2>6, <3>1, NextName DEF Link, StreamInv, Revisions
    <3>3. Asked' = Asked /\ Ans' = Ans /\ w \in Asked
      BY <2>6 DEF Link, TypeOK, told
    <3>4. Stream!Commit(w)
      BY <2>6, <3>1, <3>2, <3>3 DEF Stream!Commit, Link
    <3> QED BY <3>4 DEF Stream!Request
  <2>7. ASSUME NEW w \in Writer, CheckRefused(w) PROVE \E v \in Writer : Stream!Request(v)
    <3>1. ~won[w] /\ ~(batch[w] \subseteq Committed)
      BY <2>7 DEF CheckRefused, CallsOK, CallInv, OneFactPerIdentity, Clashes
    <3> QED BY <2>2, <2>3, <2>7, <3>1 DEF CheckRefused, Stream!Justified
  <2>8. ASSUME NEW w \in Writer, CheckPresent(w) PROVE (\E v \in Writer : Stream!Request(v)) \/ UNCHANGED Stream!vars
    BY <2>2, <2>4, <2>8 DEF CheckPresent, AllPresent, Stream!Justified
  <2>9. ASSUME NEW w \in Writer, CheckStale(w) PROVE (\E v \in Writer : Stream!Request(v)) \/ UNCHANGED Stream!vars
    BY <2>4, <2>9 DEF CheckStale, CallsOK, CallInv, Stream!Justified
  <2>10. ASSUME NEW w \in Writer, CheckCurrent(w) PROVE UNCHANGED Stream!vars
    <3>1. Asked' = Asked /\ Ans' = Ans
      BY <2>10 DEF CheckCurrent, TypeOK, told
    <3> QED BY <2>10, <3>1 DEF CheckCurrent, Stream!vars
  <2>11. ASSUME NEW w \in Writer, LinkExists(w) PROVE (\E v \in Writer : Stream!Request(v)) \/ UNCHANGED Stream!vars
    <3>1. ~won[w] /\ Len(dir) # expected[w]
      BY <2>1, <2>11 DEF LinkExists, CallsOK, CallInv
    <3> QED BY <2>1, <2>4, <2>11, <3>1 DEF LinkExists, Stream!Justified
  <2>12. ASSUME NEW w \in Writer, Sync(w) PROVE (\E v \in Writer : Stream!Request(v)) \/ UNCHANGED Stream!vars
    BY <2>4, <2>12 DEF Sync, CallsOK, CallInv, Stream!Justified
  <2>13. ASSUME NEW w \in Writer, Recheck(w) PROVE \E v \in Writer : Stream!Request(v)
    <3>1. CASE Clashes(batch[w])
      <4>1. ~(batch[w] \subseteq Committed) /\ ~won[w]
        BY <3>1 DEF CallsOK, CallInv, OneFactPerIdentity, Clashes, AllPresent
      <4> QED BY <2>1, <2>2, <2>3, <2>13, <3>1, <4>1 DEF Recheck, Stream!Justified
    <3>2. CASE ~Clashes(batch[w]) /\ AllPresent(batch[w])
      BY <2>1, <2>2, <2>3, <2>13, <3>2 DEF Recheck, AllPresent, Stream!Justified
    <3>3. CASE ~Clashes(batch[w]) /\ ~AllPresent(batch[w])
      <4>1. ~won[w]
        BY <3>3 DEF CallsOK, CallInv
      <4> QED BY <2>1, <2>3, <2>13, <3>3, <4>1 DEF Recheck, Stream!Justified
    <3> QED BY <3>1, <3>2, <3>3
  <2>14. ASSUME NEW w \in Writer, Crash(w) PROVE \E v \in Writer : Stream!Request(v)
    BY <2>3, <2>14 DEF Crash, Stream!Justified
  <2>15. CASE UNCHANGED vars
    BY <2>15 DEF vars, caller, told, Stream!vars
  <2>16. \A w \in Writer : ~CheckCorrupt(w)
    BY <2>1 DEF CheckCorrupt
  <2>17. \A w \in Writer : batch[w] \in Batch
    BY DEF TypeOK
  <2> QED
    BY <2>5, <2>6, <2>7, <2>8, <2>9, <2>10, <2>11, <2>12, <2>13, <2>14, <2>15, <2>16, <2>17
    DEF Next, Step
<1> QED BY <1>1, <1>2, TypeCorrect, CallsCorrect, PTL DEF Spec, StreamSpec, Stream!Spec

-----------------------------------------------------------------------------
(* The record stores.                                                       *)

(* A function on 1 .. n is a sequence of what it takes. *)
LEMMA SequenceOf ==
  ASSUME NEW n \in Nat, NEW s, IsObject(s), DOMAIN s = 1 .. n
  PROVE  s \in Seq(Range(s)) /\ Len(s) = n
<1>1. s \in [1 .. n -> Range(s)]
  BY DEF IsObject, Range
<1> QED BY <1>1

(* One sequence behind another. *)
LEMMA Behind ==
  ASSUME NEW s, NEW t, s \in Seq(Range(s)), t \in Seq(Range(t))
  PROVE  /\ s \o t \in Seq(Range(s \o t))
         /\ Len(s \o t) = Len(s) + Len(t)
         /\ Range(s \o t) = Range(s) \cup Range(t)
<1> DEFINE A == Range(s)
           B == Range(t)
<1>1. s \in Seq(A \cup B) /\ t \in Seq(A \cup B)
  <2> HIDE DEF A, B
  <2>1. s \in Seq(A) /\ t \in Seq(B)
    BY DEF A, B
  <2> QED BY <2>1
<1>2. /\ s \o t \in Seq(A \cup B) /\ Len(s \o t) = Len(s) + Len(t)
      /\ \A i \in 1 .. Len(s) + Len(t) :
           (s \o t)[i] = IF i <= Len(s) THEN s[i] ELSE t[i - Len(s)]
  BY <1>1, ConcatProperties
<1>3. DOMAIN s = 1 .. Len(s) /\ DOMAIN t = 1 .. Len(t) /\ DOMAIN (s \o t) = 1 .. Len(s) + Len(t)
      /\ Len(s) \in Nat /\ Len(t) \in Nat
  BY <1>2
<1>4. s \o t \in Seq(Range(s \o t))
  <2> DEFINE c == s \o t
  <2>1. c \in Seq(A \cup B)
    BY <1>2
  <2> HIDE DEF c
  <2>2. IsObject(c)
    BY <2>1 DEF IsObject
  <2>3. Len(s) + Len(t) \in Nat
    BY <1>3
  <2> QED BY <1>3, <2>2, <2>3, SequenceOf DEF c
<1>5. Range(s \o t) \subseteq Range(s) \cup Range(t)
  BY <1>2, <1>3 DEF Range
<1>6. Range(s) \subseteq Range(s \o t)
  BY <1>2, <1>3 DEF Range
<1>7. Range(t) \subseteq Range(s \o t)
  <2> SUFFICES ASSUME NEW j \in DOMAIN t PROVE t[j] \in Range(s \o t)
    BY DEF Range
  <2>1. Len(s) + j \in DOMAIN (s \o t) /\ (s \o t)[Len(s) + j] = t[j]
    BY <1>2, <1>3
  <2> QED BY <2>1 DEF Range
<1>8. Range(s \o t) = Range(s) \cup Range(t)
  BY <1>5, <1>6, <1>7
<1> QED BY <1>2, <1>4, <1>8

(* What an update leaves of a document, property by property; of its packs *)
(* it keeps everything, unless it appends to them.                          *)
LEMMA Updated ==
  ASSUME NEW op \in Operations, op.kind = "update",
         NEW raw, IsDocument(raw), op.push # <<>> => "packs" \in DOMAIN raw
  PROVE  LET result == Outcome(op, raw)
             keeps  == [i \in DOMAIN raw.packs |-> Keep(raw.packs[i], KnowsPack[op.build])]
         IN /\ IsObject(result)
            /\ "packs" \in DOMAIN result <=> "packs" \in DOMAIN raw
            /\ \A f \in DOMAIN op.set : f \in DOMAIN result /\ result[f] = op.set[f]
            /\ \A f \in DOMAIN raw \ ({"packs"} \cup op.drop \cup DOMAIN op.set) :
                 f \in DOMAIN result /\ result[f] = raw[f]
            /\ "packs" \in DOMAIN raw =>
                 result.packs = IF op.push = <<>> THEN raw.packs ELSE keeps \o op.push
<1> DEFINE b == op.build
           known == DOMAIN raw \cap KnowsTop[b]
           keeps == [i \in DOMAIN raw.packs |-> Keep(raw.packs[i], KnowsPack[b])]
           original == Strip(b, raw)
           updated == Mutate(op, original)
           result == Outcome(op, raw)
           props == (DOMAIN raw \ DOMAIN original) \cup DOMAIN updated
<1>1. /\ "packs" \notin op.drop \cup DOMAIN op.set
      /\ ArePacks(op.push)
      /\ op.push # <<>> => "packs" \in KnowsTop[b]
  BY OperationAssumption
<1>2. /\ DOMAIN original = known
      /\ \A f \in known : original[f] = IF f = "packs" THEN keeps ELSE raw[f]
  BY DEF Strip
<1>3. /\ DOMAIN updated = (known \ op.drop) \cup DOMAIN op.set
      /\ \A f \in DOMAIN op.set : updated[f] = op.set[f]
      /\ \A f \in known \ (op.drop \cup DOMAIN op.set \cup {"packs"}) : updated[f] = raw[f]
      /\ "packs" \in known =>
           updated["packs"] = IF op.push = <<>> THEN keeps ELSE keeps \o op.push
  <2> DEFINE kept == Keep(original, DOMAIN original \ op.drop)
             all == [f \in DOMAIN kept \cup DOMAIN op.set |->
                       IF f \in DOMAIN op.set THEN op.set[f] ELSE kept[f]]
  <2>1. /\ DOMAIN kept = known \ op.drop
        /\ \A f \in known \ op.drop : kept[f] = original[f]
    BY <1>2 DEF Keep
  <2>2. updated = IF op.push = <<>> THEN all ELSE [all EXCEPT !["packs"] = @ \o op.push]
    BY DEF Mutate
  <2> HIDE DEF original, updated, kept, keeps
  <2>3. DOMAIN all = (known \ op.drop) \cup DOMAIN op.set
    BY <2>1
  <2>4. \A f \in DOMAIN op.set : all[f] = op.set[f]
    OBVIOUS
  <2>5. \A f \in known \ (op.drop \cup DOMAIN op.set) : all[f] = original[f]
    BY <2>1
  <2> HIDE DEF all
  <2>6. /\ DOMAIN updated = DOMAIN all
        /\ \A f \in DOMAIN all \ {"packs"} : updated[f] = all[f]
        /\ op.push = <<>> => updated = all
        /\ "packs" \in DOMAIN all /\ op.push # <<>> => updated["packs"] = all["packs"] \o op.push
    BY <2>2
  <2> QED BY <1>1, <1>2, <2>3, <2>4, <2>5, <2>6
<1>4. /\ IsObject(result)
      /\ DOMAIN result = props
      /\ \A f \in props \ DOMAIN updated : result[f] = raw[f]
      /\ \A f \in DOMAIN updated \ {"packs"} : result[f] = updated[f]
      /\ "packs" \in DOMAIN updated \ (DOMAIN raw \cap DOMAIN original) =>
           result["packs"] = updated["packs"]
      /\ "packs" \in DOMAIN updated \cap DOMAIN raw \cap DOMAIN original =>
           result["packs"] = MergePacks(raw["packs"], original["packs"], updated["packs"])
  <2>1. result = [f \in props |->
                    IF f \notin DOMAIN updated THEN raw[f]
                    ELSE IF f \in DOMAIN raw \cap DOMAIN original
                           THEN MergeTop(f, raw[f], original[f], updated[f])
                           ELSE updated[f]]
    BY DEF Outcome, MergeForWrite, PreserveUnknown, MergeObject
  <2>2. \A f \in props \ {"packs"} : MergeTop(f, raw[f], original[f], updated[f]) = updated[f]
    BY DEF MergeTop
  <2>3. MergeTop("packs", raw["packs"], original["packs"], updated["packs"])
          = MergePacks(raw["packs"], original["packs"], updated["packs"])
    BY DEF MergeTop
  <2> HIDE DEF result, original, updated
  <2> QED BY <2>1, <2>2, <2>3 DEF IsObject
<1> HIDE DEF original, updated, result
<1>5. /\ "packs" \in DOMAIN result <=> "packs" \in DOMAIN raw
      /\ \A f \in DOMAIN op.set : f \in DOMAIN result /\ result[f] = op.set[f]
      /\ \A f \in DOMAIN raw \ ({"packs"} \cup op.drop \cup DOMAIN op.set) :
           f \in DOMAIN result /\ result[f] = raw[f]
  BY <1>1, <1>2, <1>3, <1>4
<1>6. ASSUME "packs" \in DOMAIN raw
      PROVE  result["packs"] = IF op.push = <<>> THEN raw["packs"] ELSE keeps \o op.push
  <2> DEFINE r == raw["packs"]
  <2>1. CASE "packs" \notin known
    BY <1>1, <1>2, <1>3, <1>4, <1>6, <2>1
  <2>2. CASE "packs" \in known
    <3>1. original["packs"] = keeps /\ "packs" \in DOMAIN updated
      BY <1>1, <1>2, <1>3, <2>2
    <3>2. result["packs"] = MergePacks(r, keeps, updated["packs"])
      BY <1>2, <1>4, <1>6, <2>2, <3>1
    <3>3. r \in Seq(Range(r)) /\ \A i \in DOMAIN r : IsObject(r[i])
      BY <1>6 DEF IsDocument, ArePacks, Range
    <3>4. keeps \in Seq(Range(keeps)) /\ Len(keeps) = Len(r) /\ DOMAIN r = 1 .. Len(r)
      <4>1. Len(r) \in Nat /\ DOMAIN keeps = 1 .. Len(r) /\ IsObject(keeps) /\ DOMAIN r = 1 .. Len(r)
        BY <3>3 DEF IsObject
      <4> HIDE DEF keeps
      <4> QED BY <4>1, SequenceOf
    <3>5. CASE op.push = <<>>
      <4>1. updated["packs"] = keeps
        BY <1>3, <2>2, <3>5
      <4>2. result["packs"] = [i \in DOMAIN keeps |-> MergeObject(r[i], keeps[i], keeps[i], Opaque)]
        BY <3>2, <3>4, <4>1 DEF MergePacks
      <4>3. \A i \in DOMAIN r : MergeObject(r[i], keeps[i], keeps[i], Opaque) = r[i]
        <5> TAKE i \in DOMAIN r
        <5> DEFINE o == r[i]
                   k == keeps[i]
        <5>1. k = [f \in DOMAIN o \cap KnowsPack[b] |-> o[f]]
          BY DEF Keep
        <5>2. MergeObject(o, k, k, Opaque) =
                [f \in (DOMAIN o \ DOMAIN k) \cup DOMAIN k |->
                   IF f \notin DOMAIN k THEN o[f]
                   ELSE IF f \in DOMAIN o \cap DOMAIN k THEN k[f] ELSE k[f]]
          BY DEF MergeObject, Opaque
        <5>3. IsObject(o)
          BY <3>3
        <5> HIDE DEF o, k
        <5>4. (DOMAIN o \ DOMAIN k) \cup DOMAIN k = DOMAIN o
          BY <5>1
        <5>5. \A f \in DOMAIN k : k[f] = o[f]
          BY <5>1
        <5>6. MergeObject(o, k, k, Opaque) = [f \in DOMAIN o |-> o[f]]
          BY <5>2, <5>4, <5>5
        <5>7. MergeObject(o, k, k, Opaque) = o
          BY <5>3, <5>6 DEF IsObject
        <5> QED BY <5>7 DEF o, k
      <4>4. result["packs"] = [i \in DOMAIN r |-> r[i]]
        BY <4>2, <4>3, <3>4
      <4> QED BY <4>4, <3>3, <3>5
    <3>6. CASE op.push # <<>>
      <4>1. updated["packs"] = keeps \o op.push
        BY <1>3, <2>2, <3>6
      <4>2. Len(updated["packs"]) # Len(keeps)
        <5>1. op.push \in Seq(Range(op.push)) /\ op.push # <<>>
          BY <1>1, <3>6 DEF ArePacks
        <5>2. Len(op.push) \in Nat \ {0}
          BY <5>1
        <5> HIDE DEF keeps
        <5>3. Len(keeps \o op.push) = Len(keeps) + Len(op.push)
          BY <3>4, <5>1, Behind
        <5>4. Len(keeps) \in Nat
          BY <3>4
        <5>5. Len(keeps \o op.push) # Len(keeps)
          BY <5>2, <5>3, <5>4
        <5> QED BY <4>1, <5>5
      <4>3. result["packs"] = updated["packs"]
        BY <3>2, <4>2 DEF MergePacks
      <4> QED BY <4>1, <4>3, <3>6
    <3> QED BY <3>5, <3>6
  <2> QED BY <2>1, <2>2
<1> QED BY <1>4, <1>5, <1>6 DEF result
(* A sequence with one element more. *)
LEMMA OneBehind ==
  ASSUME NEW s, NEW e, s \in Seq(Range(s))
  PROVE  Append(s, e) \in Seq(Range(Append(s, e))) /\ Range(Append(s, e)) = Range(s) \cup {e}
<1>1. <<e>> \in Seq(Range(<<e>>)) /\ Range(<<e>>) = {e}
  BY DEF Range
<1>2. Append(s, e) = s \o <<e>>
  <2> DEFINE S == Range(s) \cup {e}
  <2>1. s \in Seq(S) /\ e \in S
    OBVIOUS
  <2> HIDE DEF S
  <2> QED BY <2>1
<1> DEFINE t == <<e>>
<1> HIDE DEF t
<1>3. t \in Seq(Range(t)) /\ Range(t) = {e} /\ Append(s, e) = s \o t
  BY <1>1, <1>2 DEF t
<1>4. s \o t \in Seq(Range(s \o t)) /\ Range(s \o t) = Range(s) \cup Range(t)
  BY <1>3, Behind
<1> QED BY <1>3, <1>4

(* An update keeps every fact it does not end, says what it set out to say,  *)
(* and leaves a document.                                                   *)
LEMMA UpdateKeeps ==
  ASSUME NEW op \in Operations, op.kind = "update",
         NEW raw, IsDocument(raw), op.push # <<>> => "packs" \in DOMAIN raw
  PROVE  /\ IsDocument(Outcome(op, raw))
         /\ "packs" \in DOMAIN Outcome(op, raw) <=> "packs" \in DOMAIN raw
         /\ \A fact \in DocumentFacts(raw) :
              ~ Ends(op, fact) => fact \in DocumentFacts(Outcome(op, raw))
         /\ Establishes(op) \subseteq DocumentFacts(Outcome(op, raw))
<1> DEFINE result == Outcome(op, raw)
           keeps == [i \in DOMAIN raw.packs |-> Keep(raw.packs[i], KnowsPack[op.build])]
<1>1. /\ IsObject(result)
      /\ "packs" \in DOMAIN result <=> "packs" \in DOMAIN raw
      /\ \A f \in DOMAIN op.set : f \in DOMAIN result /\ result[f] = op.set[f]
      /\ \A f \in DOMAIN raw \ ({"packs"} \cup op.drop \cup DOMAIN op.set) :
           f \in DOMAIN result /\ result[f] = raw[f]
      /\ "packs" \in DOMAIN raw =>
           result.packs = IF op.push = <<>> THEN raw.packs ELSE keeps \o op.push
  BY Updated
<1>2. /\ "packs" \notin op.drop \cup DOMAIN op.set
      /\ ArePacks(op.push)
      /\ op.push # <<>> => "id" \in KnowsPack[op.build]
  BY OperationAssumption
<1>3. "packs" \in DOMAIN raw => ArePacks(raw.packs)
  BY DEF IsDocument
<1> HIDE DEF result
<1>4. ASSUME op.push # <<>>
      PROVE  /\ ArePacks(keeps)
             /\ result.packs = keeps \o op.push
             /\ ArePacks(result.packs)
             /\ Range(result.packs) = Range(keeps) \cup Range(op.push)
  <2>1. DOMAIN raw.packs = 1 .. Len(raw.packs) /\ Len(raw.packs) \in Nat
    BY <1>3, <1>4 DEF ArePacks
  <2>2. keeps \in Seq(Range(keeps))
    <3>1. IsObject(keeps) /\ DOMAIN keeps = 1 .. Len(raw.packs)
      BY <2>1 DEF IsObject
    <3> HIDE DEF keeps
    <3> QED BY <2>1, <3>1, SequenceOf
  <2>3. \A p \in Range(keeps) : IsObject(p) /\ "id" \in DOMAIN p
    <3> SUFFICES ASSUME NEW i \in DOMAIN raw.packs
                 PROVE  IsObject(keeps[i]) /\ "id" \in DOMAIN keeps[i]
      BY DEF Range
    <3>1. raw.packs[i] \in Range(raw.packs)
      BY DEF Range
    <3>2. "id" \in DOMAIN raw.packs[i]
      BY <1>3, <1>4, <3>1 DEF ArePacks
    <3>3. keeps[i] = Keep(raw.packs[i], KnowsPack[op.build])
      OBVIOUS
    <3> QED BY <1>2, <1>4, <3>2, <3>3 DEF Keep, IsObject
  <2>4. ArePacks(keeps)
    BY <2>2, <2>3 DEF ArePacks
  <2>5. result.packs = keeps \o op.push
    BY <1>1, <1>4
  <2> HIDE DEF keeps
  <2>6. op.push \in Seq(Range(op.push))
    BY <1>2 DEF ArePacks
  <2>7. /\ result.packs \in Seq(Range(result.packs))
        /\ Range(result.packs) = Range(keeps) \cup Range(op.push)
    BY <2>2, <2>5, <2>6, Behind
  <2>8. ArePacks(result.packs)
    BY <1>2, <2>4, <2>7 DEF ArePacks
  <2> QED BY <2>4, <2>5, <2>7, <2>8
<1>5. IsDocument(result)
  BY <1>1, <1>3, <1>4 DEF IsDocument
<1>6. ASSUME NEW f \in DOMAIN raw \ {"packs"}, ~ Ends(op, <<f, raw[f]>>)
      PROVE  <<f, raw[f]>> \in DocumentFacts(result)
  <2>1. f \notin op.drop \cup DOMAIN op.set
    BY <1>6 DEF Ends
  <2>2. f \in DOMAIN result \ {"packs"} /\ result[f] = raw[f]
    BY <1>1, <2>1
  <2> QED BY <2>2 DEF DocumentFacts
<1>7. ASSUME "packs" \in DOMAIN raw, NEW p \in Range(raw.packs), NEW f \in DOMAIN p,
             ~ Ends(op, <<"packs", p.id, f, p[f]>>)
      PROVE  <<"packs", p.id, f, p[f]>> \in DocumentFacts(result)
  <2>1. SUFFICES \E q \in Range(result.packs) : f \in DOMAIN q /\ q[f] = p[f] /\ q.id = p.id
    BY <1>1, <1>7 DEF DocumentFacts
  <2>2. CASE op.push = <<>>
    BY <1>1, <1>7, <2>2
  <2>3. CASE op.push # <<>>
    <3>1. f \in KnowsPack[op.build]
      BY <1>7, <2>3 DEF Ends
    <3>2. PICK i \in DOMAIN raw.packs : p = raw.packs[i]
      BY DEF Range
    <3>3. keeps[i] = [g \in DOMAIN p \cap KnowsPack[op.build] |-> p[g]]
      BY <3>2 DEF Keep
    <3>4. "id" \in DOMAIN p
      BY <1>3, <1>7 DEF ArePacks
    <3>5. f \in DOMAIN keeps[i] /\ keeps[i][f] = p[f] /\ keeps[i].id = p.id
      BY <1>2, <2>3, <3>1, <3>3, <3>4
    <3>6. keeps[i] \in Range(keeps)
      BY <3>2 DEF Range
    <3> HIDE DEF keeps
    <3>7. keeps[i] \in Range(result.packs)
      BY <1>4, <2>3, <3>6
    <3> QED BY <3>5, <3>7
  <2> QED BY <2>2, <2>3
<1>8. ASSUME NEW fact \in DocumentFacts(raw), ~ Ends(op, fact)
      PROVE  fact \in DocumentFacts(result)
  <2>1. CASE \E f \in DOMAIN raw \ {"packs"} : fact = <<f, raw[f]>>
    BY <1>6, <1>8, <2>1
  <2>2. CASE "packs" \in DOMAIN raw /\ \E p \in Range(raw.packs) : \E f \in DOMAIN p :
                fact = <<"packs", p.id, f, p[f]>>
    BY <1>7, <1>8, <2>2
  <2> QED BY <1>8, <2>1, <2>2 DEF DocumentFacts
<1>9. ASSUME NEW fact \in Establishes(op)
      PROVE  fact \in DocumentFacts(result)
  <2>1. CASE \E f \in DOMAIN op.set : fact = <<f, op.set[f]>>
    <3>1. PICK f \in DOMAIN op.set : fact = <<f, op.set[f]>>
      BY <2>1
    <3>2. f \in DOMAIN result \ {"packs"} /\ result[f] = op.set[f]
      BY <1>1, <1>2
    <3> QED BY <3>1, <3>2 DEF DocumentFacts
  <2>2. CASE \E p \in Range(op.push) : \E f \in DOMAIN p : fact = <<"packs", p.id, f, p[f]>>
    <3>1. PICK p \in Range(op.push) : \E f \in DOMAIN p : fact = <<"packs", p.id, f, p[f]>>
      BY <2>2
    <3>2. op.push # <<>>
      BY DEF Range
    <3>3. p \in Range(result.packs) /\ "packs" \in DOMAIN result
      BY <1>1, <1>4, <3>2
    <3> QED BY <3>1, <3>3 DEF DocumentFacts
  <2> QED BY <1>2, <1>9, <2>1, <2>2 DEF Establishes, DocumentFacts
<1> QED BY <1>1, <1>5, <1>8, <1>9 DEF result
-----------------------------------------------------------------------------
(* Absent and Torn are marks on a file, and no content is one of them. *)
MarksAreNoContent == \A mark \in {Absent, Torn} : ~ IsObject(mark)

LEMMA ContentIsObject ==
  ASSUME MarksAreNoContent, NEW path, NEW content, IsContent(path, content)
  PROVE  content # Torn
<1>1. CASE content = Absent
  BY <1>1, MarkerAssumption
<1>2. CASE path = "artifacts" /\ content \in Seq(Range(content))
  <2>1. IsObject(content)
    BY <1>2 DEF IsObject
  <2> QED BY <2>1 DEF MarksAreNoContent
<1>3. CASE path # "artifacts" /\ IsDocument(content)
  BY <1>3 DEF IsDocument, MarksAreNoContent
<1> QED BY <1>1, <1>2, <1>3 DEF IsContent

(* What an operation writes is a content of its file; it says all that the   *)
(* file said and the operation did not mean to end, and all it set out to.    *)
LEMMA OutcomeKeeps ==
  ASSUME MarksAreNoContent, NEW op \in Operations, NEW content,
         IsContent(op.path, content), ~ Refuses(op, content)
  PROVE  /\ IsContent(op.path, Outcome(op, content))
         /\ \A fact \in Facts(op.path, content) :
              ~ Ends(op, fact) => fact \in Facts(op.path, Outcome(op, content))
         /\ Establishes(op) \subseteq Facts(op.path, Outcome(op, content))
<1>1. /\ op.kind \in {"put", "create", "update", "add"} /\ op.path \in Path
      /\ op.kind = "add" <=> op.path = "artifacts"
      /\ op.kind \in {"put", "create"} => IsDocument(op.value)
      /\ op.kind \in {"put", "create"} /\ NeedsPacks(op.path) => "packs" \in DOMAIN op.value
      /\ op.kind = "update" /\ op.push # <<>> => NeedsPacks(op.path)
  BY OperationAssumption DEF NeedsPacks
<1>2. \A d : IsDocument(d) => d \notin {Absent, Torn}
  BY DEF IsDocument, MarksAreNoContent
<1>3. content # Torn
  BY ContentIsObject
<1>4. CASE op.kind \in {"put", "create"}
  <2>1. Outcome(op, content) = op.value /\ Establishes(op) = DocumentFacts(op.value)
    BY <1>4 DEF Outcome, Establishes
  <2>2. Facts(op.path, op.value) = DocumentFacts(op.value) /\ IsContent(op.path, op.value)
    BY <1>1, <1>2, <1>4 DEF Facts, IsContent
  <2>3. op.kind = "create" => Facts(op.path, content) = {}
    BY <1>4 DEF Refuses, Missing, Facts
  <2>4. op.kind = "put" => \A fact : Ends(op, fact)
    BY DEF Ends
  <2> QED BY <1>4, <2>1, <2>2, <2>3, <2>4
<1>5. CASE op.kind = "update"
  <2>1. content # Absent
    BY <1>5 DEF Refuses
  <2>2. op.path # "artifacts" /\ IsDocument(content) /\ (NeedsPacks(op.path) => "packs" \in DOMAIN content)
    BY <1>1, <1>5, <2>1 DEF IsContent
  <2>3. /\ IsDocument(Outcome(op, content))
        /\ "packs" \in DOMAIN Outcome(op, content) <=> "packs" \in DOMAIN content
        /\ \A fact \in DocumentFacts(content) :
             ~ Ends(op, fact) => fact \in DocumentFacts(Outcome(op, content))
        /\ Establishes(op) \subseteq DocumentFacts(Outcome(op, content))
    BY <1>1, <1>5, <2>2, UpdateKeeps
  <2>4. /\ Facts(op.path, content) = DocumentFacts(content)
        /\ Facts(op.path, Outcome(op, content)) = DocumentFacts(Outcome(op, content))
    BY <1>2, <2>2, <2>3 DEF Facts
  <2>5. IsContent(op.path, Outcome(op, content))
    BY <2>2, <2>3 DEF IsContent
  <2> QED BY <2>3, <2>4, <2>5
<1>6. CASE op.kind = "add"
  <2> DEFINE s == IF Missing(content) THEN <<>> ELSE content
  <2>1. s \in Seq(Range(s)) /\ \A e \in Facts(op.path, content) : \E r \in Range(s) : e = <<"record", r>>
    BY <1>1, <1>6 DEF IsContent, Missing, Facts, Range
  <2>2. Outcome(op, content) = Append(s, op.value) /\ Establishes(op) = {<<"record", op.value>>}
    BY <1>6 DEF Outcome, Establishes
  <2> HIDE DEF s
  <2> DEFINE t == Append(s, op.value)
  <2>3. t \in Seq(Range(t)) /\ Range(t) = Range(s) \cup {op.value}
    BY <2>1, OneBehind
  <2> HIDE DEF t
  <2>4. IsObject(t)
    BY <2>3 DEF IsObject
  <2>5. IsContent(op.path, t)
    BY <1>1, <1>6, <2>3 DEF IsContent
  <2>6. Facts(op.path, t) = {<<"record", r>> : r \in Range(t)}
    BY <1>1, <1>6, <2>4 DEF Facts, MarksAreNoContent
  <2>7. Outcome(op, content) = t
    BY <2>2 DEF t
  <2> QED BY <2>1, <2>2, <2>3, <2>5, <2>6, <2>7
<1> QED BY <1>1, <1>4, <1>5, <1>6
-----------------------------------------------------------------------------
LEMMA PathHasResource == \A p \in Path : Resource(p) \in {"episode", "run"}
  BY DEF Path, Resource

LEMMA AtWork ==
  ASSUME RecordTypeOK, NEW w \in Client, stage[w] # "idle"
  PROVE  /\ doing[w] \in Operations /\ doing[w].path \in Path
         /\ Resource(doing[w].path) \in DOMAIN lock
  BY OperationAssumption, PathHasResource DEF RecordTypeOK

(* The variables of the record stores keep their types. *)
LEMMA RecordsTyped == RecordSpec => []RecordTypeOK
<1>1. RecordInit => RecordTypeOK
  <2> SUFFICES ASSUME RecordInit PROVE RecordTypeOK
    OBVIOUS
  <2>1. /\ IsObject(visible) /\ DOMAIN visible = Path
        /\ IsObject(durable) /\ DOMAIN durable = Path
        /\ IsObject(owed) /\ DOMAIN owed = Path
    BY DEF RecordInit, IsObject
  <2>2. /\ IsObject(doing) /\ DOMAIN doing = Client
        /\ IsObject(next) /\ DOMAIN next = Client
    BY DEF RecordInit, IsObject
  <2>3. /\ lock \in [{"episode", "run"} -> Client \cup {None, Abandoned}]
        /\ stage \in [Client -> {"idle", "held", "writing", "synced", "renamed", "written"}]
        /\ \A w \in Client : stage[w] # "idle" => doing[w] \in Operations
        /\ flushed \in [Client -> BOOLEAN]
        /\ overrun \in Nat /\ lax \in BOOLEAN
    BY DEF RecordInit
  <2> QED BY <2>1, <2>2, <2>3 DEF RecordTypeOK
<1>2. RecordTypeOK /\ [RecordNext]_recordVars => RecordTypeOK'
  <2> SUFFICES ASSUME RecordTypeOK, [RecordNext]_recordVars PROVE RecordTypeOK'
    OBVIOUS
  <2> USE DEF RecordTypeOK, IsObject, fileVars, writerVars, ghosts
  <2>1. ASSUME NEW w \in Client, NEW op \in Operations, Acquire(w, op) PROVE RecordTypeOK'
    <3>1. op.path \in Path /\ Resource(op.path) \in {"episode", "run"}
      BY OperationAssumption, PathHasResource
    <3>2. /\ IsObject(visible') /\ DOMAIN visible' = Path
          /\ IsObject(durable') /\ DOMAIN durable' = Path
          /\ IsObject(next') /\ DOMAIN next' = Client
          /\ flushed' \in [Client -> BOOLEAN]
          /\ IsObject(owed') /\ DOMAIN owed' = Path
          /\ lax' \in BOOLEAN
      BY <2>1 DEF Acquire
    <3>3. overrun' \in Nat
      BY <2>1 DEF Acquire
    <3>4. /\ stage' \in [Client -> {"idle", "held", "writing", "synced", "renamed", "written"}]
          /\ IsObject(doing') /\ DOMAIN doing' = Client
          /\ \A v \in Client : stage'[v] # "idle" => doing'[v] \in Operations
      BY <2>1 DEF Acquire
    <3>5. lock' \in [{"episode", "run"} -> Client \cup {None, Abandoned}]
      BY <2>1, <3>1 DEF Acquire
    <3> QED BY <3>2, <3>3, <3>4, <3>5
  <2>2. ASSUME NEW w \in Client, Finish(w), Unlock(w),
               UNCHANGED <<fileVars, overrun, lax>>, IsObject(owed'), DOMAIN owed' = Path
        PROVE  RecordTypeOK'
    <3>1. lock' \in [{"episode", "run"} -> Client \cup {None, Abandoned}]
      BY <2>2 DEF Unlock
    <3>2. IsObject(next') /\ DOMAIN next' = Client /\ flushed' \in [Client -> BOOLEAN]
      BY <2>2 DEF Finish
    <3>3. /\ stage' \in [Client -> {"idle", "held", "writing", "synced", "renamed", "written"}]
          /\ IsObject(doing') /\ DOMAIN doing' = Client
          /\ \A v \in Client : stage'[v] # "idle" => doing'[v] \in Operations
      BY <2>2 DEF Finish
    <3> QED BY <2>2, <3>1, <3>2, <3>3
  <2>3. ASSUME NEW w \in Client, Read(w) PROVE RecordTypeOK'
    <3>1. CASE Refuses(doing[w], visible[doing[w].path])
      BY <2>2, <2>3, <3>1 DEF Read
    <3>2. CASE ~ Refuses(doing[w], visible[doing[w].path])
      BY <2>3, <3>2 DEF Read
    <3> QED BY <3>1, <3>2
  <2>4. ASSUME NEW w \in Client, SyncTemporary(w) PROVE RecordTypeOK'
    BY <2>4 DEF SyncTemporary
  <2>5. ASSUME NEW w \in Client, WriteFails(w) PROVE RecordTypeOK'
    BY <2>2, <2>5 DEF WriteFails
  <2>6. ASSUME NEW w \in Client, Rename(w) PROVE RecordTypeOK'
    <3>1. IsObject(visible') /\ DOMAIN visible' = Path
      BY <2>6 DEF Rename
    <3>2. IsObject(durable') /\ DOMAIN durable' = Path
      BY <2>6 DEF Rename
    <3>3. IsObject(owed') /\ DOMAIN owed' = Path
      BY <2>6 DEF Rename
    <3>4. /\ stage' \in [Client -> {"idle", "held", "writing", "synced", "renamed", "written"}]
          /\ \A v \in Client : stage'[v] # "idle" => stage[v] # "idle"
          /\ UNCHANGED <<lock, doing, next, flushed, overrun, lax>>
      BY <2>6 DEF Rename
    <3> QED BY <3>1, <3>2, <3>3, <3>4
  <2>7. ASSUME NEW w \in Client, SyncDirectory(w) PROVE RecordTypeOK'
    BY <2>7 DEF SyncDirectory
  <2>8. ASSUME NEW w \in Client, Return(w) PROVE RecordTypeOK'
    <3>1. IsObject(owed') /\ DOMAIN owed' = Path
      BY <2>8 DEF Return
    <3>2. Finish(w) /\ Unlock(w) /\ UNCHANGED <<fileVars, overrun, lax>>
      BY <2>8 DEF Return
    <3> QED BY <2>2, <3>1, <3>2
  <2>9. ASSUME NEW w \in Client, Die(w) PROVE RecordTypeOK'
    BY <2>9 DEF Die, Finish
  <2>10. CASE PowerFails
    <3>1. IsObject(visible') /\ DOMAIN visible' = Path
      BY <2>10 DEF PowerFails, Path
    <3> QED BY <2>10, <3>1 DEF PowerFails
  <2>11. CASE UNCHANGED recordVars
    BY <2>11 DEF recordVars
  <2> QED BY <2>1, <2>3, <2>4, <2>5, <2>6, <2>7, <2>8, <2>9, <2>10, <2>11 DEF RecordNext
<1> QED BY <1>1, <1>2, PTL DEF RecordSpec
(* Every content of a file is one that a writer meant, and none is Torn.     *)
LEMMA ContentsMeant ==
  ASSUME MarksAreNoContent
  PROVE  RecordSpec => []ContentInv
<1>1. RecordInit => ContentInv
  BY DEF RecordInit, ContentInv, IsContent
<1>2. RecordTypeOK /\ ContentInv /\ [RecordNext]_recordVars => ContentInv'
  <2> SUFFICES ASSUME RecordTypeOK, ContentInv, [RecordNext]_recordVars PROVE ContentInv'
    OBVIOUS
  <2> USE DEF fileVars, writerVars, ghosts
  <2>0. /\ DOMAIN visible = Path /\ DOMAIN durable = Path
        /\ DOMAIN stage = Client /\ DOMAIN doing = Client
        /\ DOMAIN next = Client /\ DOMAIN flushed = Client
        /\ IsObject(visible) /\ IsObject(durable)
        /\ stage = [w \in Client |-> stage[w]] /\ IsObject(doing)
        /\ IsObject(next) /\ flushed = [w \in Client |-> flushed[w]]
    BY DEF RecordTypeOK
  <2>1. ASSUME UNCHANGED fileVars, NEW w \in Client,
               /\ stage'[w] \in {"writing", "synced"} => IsContent(doing'[w].path, next'[w])
               /\ stage'[w] \in {"synced", "renamed", "written"} => flushed'[w],
               \A v \in Client \ {w} : /\ stage'[v] = stage[v] /\ doing'[v] = doing[v]
                                       /\ next'[v] = next[v] /\ flushed'[v] = flushed[v]
        PROVE  ContentInv'
    BY <2>1 DEF ContentInv
  <2>2. ASSUME NEW w \in Client, Finish(w)
        PROVE  /\ stage'[w] = "idle"
               /\ \A v \in Client \ {w} : /\ stage'[v] = stage[v] /\ doing'[v] = doing[v]
                                         /\ next'[v] = next[v] /\ flushed'[v] = flushed[v]
    BY <2>0, <2>2 DEF Finish, IsObject
  <2>3. ASSUME NEW w \in Client, Finish(w), UNCHANGED fileVars PROVE ContentInv'
    BY <2>1, <2>2, <2>3
  <2>4. ASSUME NEW w \in Client, NEW op \in Operations, Acquire(w, op) PROVE ContentInv'
    <3>1. /\ stage'[w] = "held" /\ UNCHANGED fileVars
          /\ \A v \in Client \ {w} : /\ stage'[v] = stage[v] /\ doing'[v] = doing[v]
                                    /\ next'[v] = next[v] /\ flushed'[v] = flushed[v]
      BY <2>0, <2>4 DEF Acquire, IsObject
    <3> QED BY <2>1, <3>1
  <2>5. ASSUME NEW w \in Client, Read(w) PROVE ContentInv'
    <3> DEFINE op == doing[w]
               found == visible[op.path]
    <3>1. CASE Refuses(op, found)
      BY <2>3, <2>5, <3>1 DEF Read
    <3>2. CASE ~ Refuses(op, found)
      <4>1. op \in Operations /\ op.path \in Path
        BY <2>5, AtWork DEF Read
      <4>2. IsContent(op.path, Outcome(op, found))
        BY <3>2, <4>1, OutcomeKeeps DEF ContentInv
      <4>3. /\ stage'[w] = "writing" /\ next'[w] = Outcome(op, found) /\ doing'[w] = op
            /\ UNCHANGED fileVars
            /\ \A v \in Client \ {w} : /\ stage'[v] = stage[v] /\ doing'[v] = doing[v]
                                      /\ next'[v] = next[v] /\ flushed'[v] = flushed[v]
        BY <2>0, <2>5, <3>2 DEF Read, IsObject
      <4> QED BY <2>1, <4>2, <4>3
    <3> QED BY <3>1, <3>2
  <2>6. ASSUME NEW w \in Client, SyncTemporary(w) PROVE ContentInv'
    <3>1. /\ stage[w] = "writing" /\ stage'[w] = "synced" /\ flushed'[w]
          /\ doing'[w] = doing[w] /\ next'[w] = next[w] /\ UNCHANGED fileVars
          /\ \A v \in Client \ {w} : /\ stage'[v] = stage[v] /\ doing'[v] = doing[v]
                                    /\ next'[v] = next[v] /\ flushed'[v] = flushed[v]
      BY <2>0, <2>6 DEF SyncTemporary
    <3>2. IsContent(doing[w].path, next[w])
      BY <3>1 DEF ContentInv
    <3> QED BY <2>1, <3>1, <3>2
  <2>7. ASSUME NEW w \in Client, WriteFails(w) PROVE ContentInv'
    BY <2>3, <2>7 DEF WriteFails
  <2>8. ASSUME NEW w \in Client, Rename(w) PROVE ContentInv'
    <3> DEFINE p == doing[w].path
    <3>1. p \in Path /\ flushed[w] /\ IsContent(p, next[w])
      BY <2>8, AtWork DEF Rename, ContentInv
    <3>2. /\ visible'[p] = next[w] /\ durable'[p] = durable[p] \cup {next[w]}
          /\ \A q \in Path \ {p} : visible'[q] = visible[q] /\ durable'[q] = durable[q]
      BY <2>0, <2>8, <3>1 DEF Rename, IsObject
    <3>3. /\ stage[w] = "synced" /\ stage'[w] = "renamed" /\ UNCHANGED <<doing, next, flushed>>
          /\ \A v \in Client \ {w} : stage'[v] = stage[v]
      BY <2>0, <2>8 DEF Rename
    <3> HIDE DEF p
    <3>4. \A q \in Path : visible'[q] \in durable'[q] /\ \A c \in durable'[q] : IsContent(q, c)
      BY <3>1, <3>2 DEF ContentInv
    <3>5. \A v \in Client :
            /\ stage'[v] \in {"writing", "synced"} => IsContent(doing'[v].path, next'[v])
            /\ stage'[v] \in {"synced", "renamed", "written"} => flushed'[v]
      BY <3>1, <3>3 DEF ContentInv
    <3> QED BY <3>4, <3>5 DEF ContentInv
  <2>9. ASSUME NEW w \in Client, SyncDirectory(w) PROVE ContentInv'
    <3>1. flushed[w]
      BY <2>9 DEF SyncDirectory, ContentInv
    <3>2. /\ UNCHANGED <<visible, doing, next, flushed>>
          /\ stage'[w] = "written" /\ \A v \in Client \ {w} : stage'[v] = stage[v]
      BY <2>0, <2>9 DEF SyncDirectory
    <3>3. \A q \in Path : durable'[q] \in {durable[q], {visible[q]}}
      BY <2>9, <3>1 DEF SyncDirectory
    <3>4. \A q \in Path : visible'[q] \in durable'[q] /\ \A c \in durable'[q] : IsContent(q, c)
      BY <3>2, <3>3 DEF ContentInv
    <3>5. \A v \in Client :
            /\ stage'[v] \in {"writing", "synced"} => IsContent(doing'[v].path, next'[v])
            /\ stage'[v] \in {"synced", "renamed", "written"} => flushed'[v]
      BY <3>1, <3>2 DEF ContentInv
    <3> QED BY <3>4, <3>5 DEF ContentInv
  <2>10. ASSUME NEW w \in Client, Return(w) PROVE ContentInv'
    BY <2>3, <2>10 DEF Return
  <2>11. ASSUME NEW w \in Client, Die(w) PROVE ContentInv'
    BY <2>3, <2>11 DEF Die
  <2>12. CASE PowerFails
    <3>1. \A q \in Path : visible'[q] \in durable[q] /\ durable'[q] = {visible'[q]}
      BY <2>12 DEF PowerFails, Path
    <3>2. \A w \in Client : stage'[w] = "idle"
      BY <2>12 DEF PowerFails
    <3> QED BY <3>1, <3>2 DEF ContentInv
  <2>13. CASE UNCHANGED recordVars
    BY <2>13 DEF recordVars, ContentInv
  <2> QED BY <2>4, <2>5, <2>6, <2>7, <2>8, <2>9, <2>10, <2>11, <2>12, <2>13 DEF RecordNext
<1> QED BY <1>1, <1>2, RecordsTyped, PTL DEF RecordSpec

(* A client at work holds its lock, unless some live holder lost its own. *)
LEMMA WorkIsLocked == RecordSpec => []HoldInv
<1>1. RecordInit => HoldInv
  BY DEF RecordInit, HoldInv
<1>2. RecordTypeOK /\ HoldInv /\ [RecordNext]_recordVars => HoldInv'
  <2> SUFFICES ASSUME RecordTypeOK, HoldInv, [RecordNext]_recordVars, overrun' = 0,
                      NEW v \in Client, stage'[v] # "idle"
               PROVE  lock'[Resource(doing'[v].path)] = v
    BY DEF HoldInv, Held
  <2> DEFINE Res(u) == Resource(doing[u].path)
             Goal == lock'[Resource(doing'[v].path)] = v
  <2> USE DEF fileVars, writerVars, ghosts
  <2>0. /\ lock \in [{"episode", "run"} -> Client \cup {None, Abandoned}]
        /\ stage \in [Client -> {"idle", "held", "writing", "synced", "renamed", "written"}]
        /\ DOMAIN doing = Client /\ doing = [u \in Client |-> doing[u]]
        /\ overrun \in Nat
    BY DEF RecordTypeOK, IsObject
  <2>1. ASSUME overrun = 0, NEW u \in Client, stage[u] # "idle"
        PROVE  lock[Res(u)] = u /\ Res(u) \in {"episode", "run"}
    <3>1. Res(u) \in {"episode", "run"}
      BY <2>0, <2>1, AtWork
    <3> QED BY <2>1, <3>1 DEF HoldInv, Held
  <2>2. ASSUME NEW w \in Client, stage[w] # "idle", Finish(w), overrun' = overrun,
               \/ lock' = [lock EXCEPT ![Res(w)] = None]
               \/ lock' = [lock EXCEPT ![Res(w)] = Abandoned]
               \/ lock' = lock
        PROVE  Goal
    <3>1. v # w /\ stage[v] # "idle" /\ doing'[v] = doing[v]
      BY <2>0, <2>2 DEF Finish
    <3>2. lock[Res(v)] = v /\ lock[Res(w)] = w /\ Res(v) \in {"episode", "run"}
      BY <2>1, <2>2, <3>1
    <3>3. Res(v) # Res(w)
      BY <3>1, <3>2
    <3> QED BY <2>0, <2>2, <3>1, <3>2, <3>3
  <2>3. ASSUME NEW w \in Client, NEW op \in Operations, Acquire(w, op) PROVE Goal
    <3>1. Resource(op.path) \in {"episode", "run"}
      BY OperationAssumption, PathHasResource
    <3>2. CASE v = w
      BY <2>0, <2>3, <3>1, <3>2 DEF Acquire
    <3>3. CASE v # w
      <4>1. overrun = 0 /\ lock[Resource(op.path)] \in {None, Abandoned}
        BY <2>0, <2>3 DEF Acquire
      <4>2. stage[v] # "idle" /\ doing'[v] = doing[v]
        BY <2>0, <2>3, <3>3 DEF Acquire
      <4>3. lock[Res(v)] = v /\ v \notin {None, Abandoned}
        BY <2>1, <4>1, <4>2, MarkerAssumption
      <4>4. lock'[Res(v)] = lock[Res(v)]
        BY <2>0, <2>1, <2>3, <4>1, <4>2, <4>3 DEF Acquire
      <4> QED BY <4>2, <4>3, <4>4
    <3> QED BY <3>2, <3>3
  <2>4. ASSUME NEW w \in Client, stage[w] # "idle", UNCHANGED <<lock, doing, overrun>>,
               \A u \in Client \ {w} : stage'[u] = stage[u]
        PROVE  Goal
    <3>1. stage[v] # "idle"
      BY <2>4
    <3> QED BY <2>1, <2>4, <3>1
  <2>5. ASSUME NEW w \in Client, Read(w) PROVE Goal
    <3>1. CASE Refuses(doing[w], visible[doing[w].path])
      BY <2>2, <2>5, <3>1 DEF Read, Unlock
    <3>2. CASE ~ Refuses(doing[w], visible[doing[w].path])
      <4>1. stage[w] # "idle" /\ UNCHANGED <<lock, doing, overrun>>
        BY <2>5, <3>2 DEF Read
      <4>2. \A u \in Client \ {w} : stage'[u] = stage[u]
        BY <2>0, <2>5, <3>2 DEF Read
      <4> QED BY <2>4, <4>1, <4>2
    <3> QED BY <3>1, <3>2
  <2>6. ASSUME NEW w \in Client, SyncTemporary(w) \/ Rename(w) \/ SyncDirectory(w) PROVE Goal
    BY <2>0, <2>4, <2>6 DEF SyncTemporary, Rename, SyncDirectory
  <2>7. ASSUME NEW w \in Client, WriteFails(w) \/ Return(w) PROVE Goal
    BY <2>2, <2>7 DEF WriteFails, Return, Unlock
  <2>8. ASSUME NEW w \in Client, Die(w) PROVE Goal
    BY <2>2, <2>8 DEF Die
  <2>9. CASE PowerFails
    BY <2>9 DEF PowerFails
  <2>10. CASE UNCHANGED recordVars
    BY <2>1, <2>10 DEF recordVars
  <2> QED BY <2>3, <2>5, <2>6, <2>7, <2>8, <2>9, <2>10 DEF RecordNext
<1> QED BY <1>1, <1>2, RecordsTyped, PTL DEF RecordSpec
(* What a client is about to write is made of what is there, and what is owed *)
(* is in every content the disk may come back with.                           *)
LEMMA PromisesKept ==
  ASSUME MarksAreNoContent
  PROVE  RecordSpec => [](WorkInv /\ OwedInv)
<1>1. RecordInit => WorkInv /\ OwedInv
  BY DEF RecordInit, WorkInv, WorkOK, OwedInv
<1>2. RecordTypeOK /\ ContentInv /\ HoldInv /\ WorkInv /\ OwedInv /\ [RecordNext]_recordVars
        => (WorkInv /\ OwedInv)'
  <2> SUFFICES ASSUME RecordTypeOK, ContentInv, HoldInv, WorkInv, OwedInv,
                      [RecordNext]_recordVars, overrun' = 0
               PROVE  /\ \A v \in Client : WorkOK(v)'
                      /\ ~ lax' => \A p \in Path : \A c \in durable'[p] : owed'[p] \subseteq Facts(p, c)
    BY DEF WorkInv, OwedInv
  <2> DEFINE Owed == ~ lax' => \A p \in Path : \A c \in durable'[p] : owed'[p] \subseteq Facts(p, c)
             Goal == (\A v \in Client : WorkOK(v)') /\ Owed
             Others(w) == \A v \in Client \ {w} : /\ stage'[v] = stage[v] /\ doing'[v] = doing[v]
                                                 /\ next'[v] = next[v]
  <2> USE DEF fileVars, writerVars, ghosts
  <2>0. /\ DOMAIN visible = Path /\ DOMAIN durable = Path /\ DOMAIN owed = Path
        /\ DOMAIN stage = Client /\ DOMAIN doing = Client
        /\ DOMAIN next = Client
        /\ IsObject(visible) /\ IsObject(durable) /\ IsObject(owed)
        /\ stage = [w \in Client |-> stage[w]] /\ IsObject(doing) /\ IsObject(next)
        /\ overrun \in Nat /\ lax \in BOOLEAN
    BY DEF RecordTypeOK
  <2>1. overrun = 0
    BY <2>0 DEF RecordNext, recordVars, Acquire, Read, SyncTemporary, WriteFails, Rename,
                SyncDirectory, Return, Die, PowerFails
  <2>2. /\ \A v \in Client : WorkOK(v)
        /\ ~ lax => \A p \in Path : \A c \in durable[p] : owed[p] \subseteq Facts(p, c)
    BY <2>1 DEF WorkInv, OwedInv
  <2>3. ASSUME NEW v \in Client, NEW w \in Client, v # w, stage[v] # "idle", stage[w] # "idle"
        PROVE  /\ Resource(doing[v].path) # Resource(doing[w].path)
               /\ doing[v].path # doing[w].path
    BY <2>1, <2>3 DEF HoldInv, Held
  <2>4. ASSUME NEW v \in Client, stage'[v] = stage[v], doing'[v] = doing[v], next'[v] = next[v],
               lax => lax',
               stage[v] # "idle" => /\ visible'[doing[v].path] = visible[doing[v].path]
                                    /\ durable'[doing[v].path] = durable[doing[v].path]
        PROVE  WorkOK(v)'
    BY <2>2, <2>4 DEF WorkOK
  <2>5. ASSUME NEW v \in Client, stage'[v] \in {"idle", "held"} PROVE WorkOK(v)'
    BY <2>5 DEF WorkOK
  <2>6. ASSUME UNCHANGED <<durable, owed>>, lax => lax' PROVE Owed
    BY <2>2, <2>6
  <2>7. ASSUME NEW w \in Client, Finish(w)
        PROVE  stage'[w] = "idle" /\ Others(w)
    BY <2>0, <2>7 DEF Finish, IsObject
  <2>8. ASSUME NEW w \in Client, UNCHANGED <<visible, durable, lax>>, Others(w), WorkOK(w)'
        PROVE  \A v \in Client : WorkOK(v)'
    BY <2>4, <2>8
  <2>9. ASSUME NEW w \in Client, Finish(w), UNCHANGED <<visible, durable, owed, lax>> PROVE Goal
    BY <2>5, <2>6, <2>7, <2>8, <2>9
  <2>10. ASSUME NEW w \in Client, NEW op \in Operations, Acquire(w, op) PROVE Goal
    <3>1. stage'[w] = "held" /\ Others(w) /\ UNCHANGED <<visible, durable, owed, lax>>
      BY <2>0, <2>10 DEF Acquire, IsObject
    <3> QED BY <2>5, <2>6, <2>8, <3>1
  <2>11. ASSUME NEW w \in Client, Read(w) PROVE Goal
    <3> DEFINE op == doing[w]
               found == visible[op.path]
    <3>1. CASE Refuses(op, found)
      BY <2>9, <2>11, <3>1 DEF Read
    <3>2. CASE ~ Refuses(op, found)
      <4>1. /\ stage'[w] = "writing" /\ next'[w] = Outcome(op, found) /\ doing'[w] = op
            /\ Others(w) /\ UNCHANGED <<visible, durable, owed, lax>>
        BY <2>0, <2>11, <3>2 DEF Read, IsObject
      <4>2. WorkOK(w)'
        BY <3>2, <4>1 DEF WorkOK
      <4> QED BY <2>6, <2>8, <4>1, <4>2
    <3> QED BY <3>1, <3>2
  <2>12. ASSUME NEW w \in Client, SyncTemporary(w) PROVE Goal
    <3>1. /\ stage[w] = "writing" /\ stage'[w] = "synced" /\ UNCHANGED <<doing, next>>
          /\ Others(w) /\ UNCHANGED <<visible, durable, owed, lax>>
      BY <2>0, <2>12 DEF SyncTemporary
    <3>2. WorkOK(w)'
      BY <2>2, <3>1 DEF WorkOK
    <3> QED BY <2>6, <2>8, <3>1, <3>2
  <2>13. ASSUME NEW w \in Client, WriteFails(w) PROVE Goal
    BY <2>9, <2>13 DEF WriteFails
  <2>14. ASSUME NEW w \in Client, Rename(w) PROVE Goal
    <3> DEFINE op == doing[w]
               p == op.path
               found == visible[p]
    <3>1. /\ op \in Operations /\ p \in Path /\ flushed[w] /\ stage[w] = "synced"
          /\ ~ Refuses(op, found) /\ next[w] = Outcome(op, found) /\ found \in durable[p]
          /\ IsContent(p, found)
      BY <2>2, <2>14, AtWork DEF Rename, ContentInv, WorkOK
    <3>2. /\ visible'[p] = next[w] /\ durable'[p] = durable[p] \cup {next[w]}
          /\ owed'[p] = {fact \in owed[p] : ~ Ends(op, fact)}
          /\ \A q \in Path \ {p} : /\ visible'[q] = visible[q] /\ durable'[q] = durable[q]
                                  /\ owed'[q] = owed[q]
      BY <2>0, <2>14, <3>1 DEF Rename, IsObject
    <3>3. /\ stage'[w] = "renamed" /\ UNCHANGED <<doing, next, lax>> /\ Others(w)
      BY <2>0, <2>14 DEF Rename
    <3>4. /\ \A fact \in Facts(p, found) : ~ Ends(op, fact) => fact \in Facts(p, next[w])
          /\ Establishes(op) \subseteq Facts(p, next[w])
      BY <3>1, OutcomeKeeps
    <3>5. WorkOK(w)'
      BY <3>2, <3>3, <3>4 DEF WorkOK
    <3>6. \A v \in Client \ {w} : WorkOK(v)'
      <4> TAKE v \in Client \ {w}
      <4>1. stage[v] # "idle" => doing[v].path \in Path \ {p}
        BY <2>3, <3>1, AtWork
      <4> QED BY <2>4, <3>2, <3>3, <4>1
    <3>7. ASSUME ~ lax', NEW q \in Path, NEW c \in durable'[q]
          PROVE  owed'[q] \subseteq Facts(q, c)
      <4>1. \A d \in durable[q] : owed[q] \subseteq Facts(q, d)
        BY <2>2, <3>3, <3>7
      <4>2. CASE q # p
        BY <3>2, <3>7, <4>1, <4>2
      <4>3. CASE q = p /\ c \in durable[p]
        BY <3>2, <4>1, <4>3
      <4>4. CASE q = p /\ c = next[w]
        BY <3>1, <3>2, <3>4, <4>1, <4>4
      <4> QED BY <3>2, <3>7, <4>2, <4>3, <4>4
    <3> QED BY <3>5, <3>6, <3>7
  <2>15. ASSUME NEW w \in Client, SyncDirectory(w) PROVE Goal
    <3> DEFINE p == doing[w].path
    <3>1. p \in Path /\ flushed[w] /\ stage[w] = "renamed"
      BY <2>15, AtWork DEF SyncDirectory, ContentInv
    <3>2. /\ stage'[w] = "written" /\ UNCHANGED <<visible, doing, next, owed>> /\ Others(w)
          /\ lax => lax'
      BY <2>0, <2>15 DEF SyncDirectory
    <3>3. /\ \A q \in Path : durable'[q] \in {durable[q], {visible[q]}}
          /\ \A q \in Path : Resource(q) # Resource(p) => durable'[q] = durable[q]
          /\ ~ lax' => durable'[p] = {visible[p]}
      BY <2>15, <3>1 DEF SyncDirectory
    <3>4. WorkOK(w)'
      BY <2>2, <3>1, <3>2, <3>3 DEF WorkOK
    <3>5. \A v \in Client \ {w} : WorkOK(v)'
      <4> TAKE v \in Client \ {w}
      <4>1. stage[v] # "idle" => doing[v].path \in Path /\ Resource(doing[v].path) # Resource(p)
        BY <2>3, <3>1, AtWork
      <4> QED BY <2>4, <3>2, <3>3, <4>1
    <3>6. Owed
      <4> SUFFICES ASSUME ~ lax', NEW q \in Path, NEW c \in durable'[q]
                   PROVE  owed'[q] \subseteq Facts(q, c)
        OBVIOUS
      <4>1. c \in durable[q]
        BY <3>3 DEF ContentInv
      <4> QED BY <2>2, <3>2, <4>1
    <3> QED BY <3>4, <3>5, <3>6
  <2>16. ASSUME NEW w \in Client, Return(w) PROVE Goal
    <3> DEFINE op == doing[w]
               p == op.path
    <3>1. stage[w] = "written" /\ p \in Path
      BY <2>16, AtWork DEF Return
    <3>2. stage'[w] = "idle" /\ Others(w) /\ UNCHANGED <<visible, durable, lax>>
      BY <2>7, <2>16 DEF Return
    <3>3. \A v \in Client : WorkOK(v)'
      BY <2>5, <2>8, <3>2
    <3>4. /\ owed'[p] \subseteq owed[p] \cup Establishes(op)
          /\ \A q \in Path \ {p} : owed'[q] = owed[q]
      BY <2>0, <2>16, <3>1 DEF Return, IsObject
    <3>5. ~ lax => durable[p] = {visible[p]} /\ Establishes(op) \subseteq Facts(p, visible[p])
      BY <2>2, <3>1 DEF WorkOK
    <3>6. Owed
      BY <2>2, <3>1, <3>2, <3>4, <3>5
    <3> QED BY <3>3, <3>6
  <2>17. ASSUME NEW w \in Client, Die(w) PROVE Goal
    BY <2>9, <2>17 DEF Die
  <2>18. CASE PowerFails
    <3>1. \A q \in Path : visible'[q] \in durable[q] /\ durable'[q] = {visible'[q]}
      BY <2>18 DEF PowerFails, Path
    <3>2. UNCHANGED <<owed, lax>> /\ \A w \in Client : stage'[w] = "idle"
      BY <2>18 DEF PowerFails
    <3> QED BY <2>2, <2>5, <3>1, <3>2
  <2>19. CASE UNCHANGED recordVars
    BY <2>4, <2>6, <2>19 DEF recordVars
  <2> QED BY <2>10, <2>11, <2>12, <2>13, <2>14, <2>15, <2>16, <2>17, <2>18, <2>19 DEF RecordNext
<1> QED BY <1>1, <1>2, RecordsTyped, ContentsMeant, WorkIsLocked, PTL DEF RecordSpec

(* No reader finds bytes that no writer meant, whatever crashes or loses     *)
(* power; and while every body ends within its lease and every directory is  *)
(* synced, what an acknowledged call wrote stays until a call ends it.        *)
THEOREM Survival ==
  ASSUME MarksAreNoContent
  PROVE  RecordSpec => []RecordsSurvive
<1>1. ContentInv /\ OwedInv => RecordsSurvive
  <2> SUFFICES ASSUME ContentInv, OwedInv PROVE RecordsSurvive
    OBVIOUS
  <2>1. \A p \in Path : visible[p] # Torn
    BY ContentIsObject DEF ContentInv
  <2>2. overrun = 0 /\ ~ lax => \A p \in Path : owed[p] \subseteq Facts(p, visible[p])
    BY DEF ContentInv, OwedInv
  <2> QED BY <2>1, <2>2 DEF RecordsSurvive
<1> QED BY <1>1, ContentsMeant, PromisesKept, PTL
=============================================================================
