------------------------ MODULE ExecutorProofs -----------------------------
(***************************************************************************)
(* Proofs about HostExecutor, for any workspace, any changesets, any       *)
(* number of executions, edits, errors and crashes: IInv is inductive, a   *)
(* success that is recorded has been applied, and a rollback after all     *)
(* changes were applied restores the workspace.                            *)
(*                                                                         *)
(* And about the lock file of the executor, ExecutionLock, for any number  *)
(* of executions, retries, crashes and slow lookups, and on both           *)
(* platforms: LockInv is inductive, two executions hold the lock at once   *)
(* only after a cleanup removed the lock of a live process, and that takes *)
(* Windows and a crash or a timeout.                                       *)
(*                                                                         *)
(* And about the records it leaves, ExecutionRecords, for any processes,   *)
(* requests, faults, crashes and similarity of executions: RecordsInv is   *)
(* inductive, and with it the rows fit the directories, the events of an   *)
(* execution are in order, a repair rests on a success, the version of the *)
(* schema is only recorded over the columns, and the look-ups in the graph *)
(* of executions agree, because it is a forest.                            *)
(***************************************************************************)
EXTENDS HostExecutor, ExecutionLock, ExecutionRecords, FiniteSetTheorems, SequenceTheorems,
        WellFoundedInduction, TLAPS

\* The names whose definitions are plain abbreviations.
USE DEF Positions, Inside, Outcomes, Unedited, Workspace, Goes, Fault, NoFault, Untouched,
        world, calls, local, bounds, vars

LEMMA ChangeSetType ==
  ASSUME NEW c \in ChangeSets
  PROVE  /\ c \in Seq(Change) /\ Len(c) \in Nat
         /\ \A i \in 1..Len(c) :
               /\ c[i] \in Change /\ c[i].path \in Paths
               /\ c[i].new \in Contents \cup {NoFile}
<1>1. c \in Seq(Change) /\ Len(c) \in Nat /\ \A i \in 1..Len(c) : c[i] \in Change
  BY HostExecutorAssumption DEF HostExecutorAssumption
<1>2. \A x \in Change : x.path \in Paths /\ x.new \in Contents \cup {NoFile}
  BY DEF Change
<1> QED
  BY <1>1, <1>2

LEMMA BoundsAreNumbers == MaxEdits \in Nat /\ MaxFaults \in Nat /\ MaxCrashes \in Nat
  BY HostExecutorAssumption DEF HostExecutorAssumption

LEMMA NoCopiesType == NoCopies \in Workspace
  BY DEF NoCopies

\* An error, or none, keeps the counter of errors within its bound.
LEMMA FaultType ==
  ASSUME faults \in 0..MaxFaults, Fault \/ NoFault
  PROVE  faults' \in 0..MaxFaults
  BY BoundsAreNumbers

\* The change at hand is one of the changeset.
LEMMA CurrentType ==
  ASSUME TypeOK, NEW e \in Execs, MoreChanges(e)
  PROVE  /\ idx \in 1..Len(request[e])
         /\ Current(e).path \in Paths
         /\ Current(e).new \in Contents \cup {NoFile}
<1>1. request[e] \in ChangeSets /\ idx \in Nat \ {0}
  BY DEF TypeOK
<1>2. idx \in 1..Len(request[e])
  BY <1>1, ChangeSetType DEF MoreChanges
<1> QED
  BY <1>1, <1>2, ChangeSetType DEF Current

LEMMA InitIsTyped == Init => TypeOK
<1> SUFFICES ASSUME Init PROVE TypeOK
  OBVIOUS
<1>1. 0 \in 0..MaxEdits /\ 0 \in 0..MaxFaults /\ 0 \in 0..MaxCrashes
  BY BoundsAreNumbers
<1>2. backup \in Workspace /\ files \in Workspace /\ before \in Workspace
  BY NoCopiesType DEF Init
<1>3. idx \in Nat \ {0}
  BY DEF Init
<1> QED
  BY <1>1, <1>2, <1>3 DEF Init, TypeOK

\* Every variable stays in its domain.
LEMMA TypeStep == TypeOK /\ [Next]_vars => TypeOK'
<1> SUFFICES ASSUME TypeOK, [Next]_vars PROVE TypeOK'
  OBVIOUS
<1>1. ASSUME NEW e \in Execs, Ask(e) PROVE TypeOK'
  BY <1>1 DEF TypeOK, Ask
<1>2. ASSUME NEW e \in Execs, Lock(e) PROVE TypeOK'
  <2>1. backup' \in Workspace /\ before' \in Workspace /\ idx' \in Nat \ {0}
    BY <1>2, NoCopiesType DEF TypeOK, Lock
  <2> QED
    BY <1>2, <2>1 DEF TypeOK, Lock
<1>3. ASSUME NEW e \in Execs, GiveUp(e) PROVE TypeOK'
  BY <1>3 DEF TypeOK, GiveUp
<1>4. ASSUME NEW e \in Execs, Check(e) PROVE TypeOK'
  <2>1. faults' \in 0..MaxFaults
    BY <1>4, FaultType DEF TypeOK, Check
  <2>2. CASE NoFault
    BY <1>4, <2>1, <2>2 DEF TypeOK, Check
  <2>3. CASE Fault
    BY <1>4, <2>1, <2>3 DEF TypeOK, Check
  <2> QED
    BY <1>4, <2>2, <2>3 DEF Check
<1>5. ASSUME NEW e \in Execs, RecordStart(e) PROVE TypeOK'
  <2>1. faults' \in 0..MaxFaults
    BY <1>5, FaultType DEF TypeOK, RecordStart
  <2>2. CASE NoFault
    BY <1>5, <2>1, <2>2 DEF TypeOK, RecordStart
  <2>3. CASE Fault
    BY <1>5, <2>1, <2>3 DEF TypeOK, RecordStart
  <2> QED
    BY <1>5, <2>2, <2>3 DEF RecordStart
<1>6. ASSUME NEW e \in Execs, Validate(e) PROVE TypeOK'
  BY <1>6 DEF TypeOK, Validate
<1>7. ASSUME NEW e \in Execs, BackUp(e) PROVE TypeOK'
  BY <1>7, CurrentType DEF TypeOK, BackUp
<1>8. ASSUME NEW e \in Execs, BackedUp(e) PROVE TypeOK'
  <2>1. faults' \in 0..MaxFaults
    BY <1>8, FaultType DEF TypeOK, BackedUp
  <2>2. CASE NoFault
    BY <1>8, <2>1, <2>2 DEF TypeOK, BackedUp
  <2>3. CASE Fault
    BY <1>8, <2>1, <2>3 DEF TypeOK, BackedUp
  <2> QED
    BY <1>8, <2>2, <2>3 DEF BackedUp
<1>9. ASSUME NEW e \in Execs, BackUpFails(e) PROVE TypeOK'
  BY <1>9, BoundsAreNumbers DEF TypeOK, BackUpFails
<1>10. ASSUME NEW e \in Execs, CheckChange(e) PROVE TypeOK'
  BY <1>10 DEF TypeOK, CheckChange
<1>11. ASSUME NEW e \in Execs, WriteChange(e) PROVE TypeOK'
  <2>1. Current(e).path \in Paths /\ Current(e).new \in Contents \cup {NoFile}
    BY <1>11, CurrentType DEF WriteChange
  <2> QED
    BY <1>11, <2>1 DEF TypeOK, WriteChange
<1>12. ASSUME NEW e \in Execs, WriteFails(e) PROVE TypeOK'
  BY <1>12, BoundsAreNumbers DEF TypeOK, WriteFails
<1>13. ASSUME NEW e \in Execs, Applied(e) PROVE TypeOK'
  BY <1>13 DEF TypeOK, Applied
<1>14. ASSUME NEW e \in Execs, Verify(e) PROVE TypeOK'
  BY <1>14 DEF TypeOK, Verify
<1>15. ASSUME NEW e \in Execs, RecordSuccess(e) PROVE TypeOK'
  <2>1. faults' \in 0..MaxFaults
    BY <1>15, FaultType DEF TypeOK, RecordSuccess
  <2>2. CASE NoFault
    BY <1>15, <2>1, <2>2 DEF TypeOK, RecordSuccess
  <2>3. CASE Fault
    BY <1>15, <2>1, <2>3 DEF TypeOK, RecordSuccess
  <2> QED
    BY <1>15, <2>2, <2>3 DEF RecordSuccess
<1>16. ASSUME NEW e \in Execs, Fail(e) PROVE TypeOK'
  <2>1. faults' \in 0..MaxFaults
    BY <1>16, FaultType DEF TypeOK, Fail
  <2>2. CASE NoFault
    BY <1>16, <2>1, <2>2 DEF TypeOK, Fail
  <2>3. CASE Fault
    BY <1>16, <2>1, <2>3 DEF TypeOK, Fail
  <2> QED
    BY <1>16, <2>2, <2>3 DEF Fail
<1>17. ASSUME NEW e \in Execs, Restore(e) PROVE TypeOK'
  BY <1>17, CurrentType DEF TypeOK, Restore, ToRestore
<1>18. ASSUME NEW e \in Execs, RestoreFails(e) PROVE TypeOK'
  BY <1>18, BoundsAreNumbers DEF TypeOK, RestoreFails
<1>19. ASSUME NEW e \in Execs, Restored(e) PROVE TypeOK'
  BY <1>19 DEF TypeOK, Restored
<1>20. ASSUME NEW e \in Execs, RecordFailure(e) PROVE TypeOK'
  <2>1. faults' \in 0..MaxFaults
    BY <1>20, FaultType DEF TypeOK, RecordFailure
  <2>2. CASE NoFault
    BY <1>20, <2>1, <2>2 DEF TypeOK, RecordFailure
  <2>3. CASE Fault
    BY <1>20, <2>1, <2>3 DEF TypeOK, RecordFailure
  <2> QED
    BY <1>20, <2>2, <2>3 DEF RecordFailure
<1>21. ASSUME NEW e \in Execs, Remember(e) PROVE TypeOK'
  <2>1. faults' \in 0..MaxFaults
    BY <1>21, FaultType DEF TypeOK, Remember
  <2>2. CASE NoFault
    BY <1>21, <2>1, <2>2 DEF TypeOK, Remember, Succeeded
  <2>3. CASE Fault
    BY <1>21, <2>1, <2>3 DEF TypeOK, Remember, Succeeded
  <2> QED
    BY <1>21, <2>2, <2>3 DEF Remember
<1>22. ASSUME NEW e \in Execs, Release(e) PROVE TypeOK'
  BY <1>22 DEF TypeOK, Release
<1>23. ASSUME NEW e \in Execs, Crash(e) PROVE TypeOK'
  BY <1>23, BoundsAreNumbers DEF TypeOK, Crash
<1>24. ASSUME NEW c \in ChangeSets, RecordExpires(c) PROVE TypeOK'
  BY <1>24 DEF TypeOK, RecordExpires
<1>25. ASSUME NEW p \in Paths, NEW content \in Contents \cup {NoFile}, UserEdits(p, content)
      PROVE TypeOK'
  BY <1>25, BoundsAreNumbers DEF TypeOK, UserEdits
<1>26. CASE LockCleaned
  BY <1>26 DEF TypeOK, LockCleaned
<1>27. CASE UNCHANGED vars
  BY <1>27 DEF TypeOK
<1> QED
  BY <1>1, <1>2, <1>3, <1>4, <1>5, <1>6, <1>7, <1>8, <1>9, <1>10,
     <1>11, <1>12, <1>13, <1>14, <1>15, <1>16, <1>17, <1>18, <1>19, <1>20, <1>21, <1>22,
     <1>23, <1>24, <1>25, <1>26, <1>27 DEF Next, Pipeline

\* Whoever is inside has the lock.
LEMMA HoldsStep == IInv /\ [Next]_vars => InsideHolds'
<1> SUFFICES ASSUME TypeOK, InsideHolds, [Next]_vars PROVE InsideHolds'
  BY DEF IInv
<1> USE DEF TypeOK, InsideHolds
<1>1. ASSUME NEW e \in Execs,
             Check(e) \/ RecordStart(e) \/ Validate(e) \/ BackUp(e)
             \/ BackedUp(e) \/ BackUpFails(e)
      PROVE InsideHolds'
  BY <1>1 DEF Check, RecordStart, Validate, BackUp, BackedUp, BackUpFails
<1>2. ASSUME NEW e \in Execs,
             CheckChange(e) \/ WriteChange(e) \/ WriteFails(e) \/ Applied(e)
             \/ Verify(e) \/ RecordSuccess(e)
      PROVE InsideHolds'
  BY <1>2 DEF CheckChange, WriteChange, WriteFails, Applied, Verify, RecordSuccess
<1>3. ASSUME NEW e \in Execs,
             Fail(e) \/ Restore(e) \/ RestoreFails(e) \/ Restored(e)
             \/ RecordFailure(e) \/ Remember(e)
      PROVE InsideHolds'
  BY <1>3 DEF Fail, Restore, RestoreFails, Restored, RecordFailure, Remember
<1>4. ASSUME NEW e \in Execs,
             Ask(e) \/ GiveUp(e) \/ Crash(e)
      PROVE InsideHolds'
  BY <1>4 DEF Ask, GiveUp, Crash
<1>5. ASSUME NEW e \in Execs,
             Lock(e)
      PROVE InsideHolds'
  BY <1>5, HostExecutorAssumption DEF HostExecutorAssumption, Lock
<1>6. ASSUME NEW e \in Execs,
             Release(e)
      PROVE InsideHolds'
  BY <1>6 DEF Release
<1>7. ASSUME NEW c \in ChangeSets, RecordExpires(c) PROVE InsideHolds'
  BY <1>7 DEF RecordExpires
<1>8. ASSUME NEW p \in Paths, NEW content \in Contents \cup {NoFile}, UserEdits(p, content)
      PROVE InsideHolds'
  BY <1>8 DEF UserEdits
<1>9. CASE LockCleaned
  BY <1>9 DEF LockCleaned
<1>10. CASE UNCHANGED vars
  BY <1>10
<1> QED
  BY <1>1, <1>2, <1>3, <1>4, <1>5, <1>6, <1>7, <1>8, <1>9, <1>10 DEF Next, Pipeline

\* The steps of the pipeline come in order.
LEMMA OrderStep == IInv /\ [Next]_vars => InOrder'
<1> SUFFICES ASSUME TypeOK, InsideHolds, InOrder, [Next]_vars PROVE InOrder'
  BY DEF IInv
<1> USE DEF TypeOK, InsideHolds, InOrder, Succeeded
<1>1. ASSUME NEW e \in Execs,
             Check(e) \/ RecordStart(e) \/ Validate(e) \/ BackUp(e)
             \/ BackedUp(e) \/ BackUpFails(e)
      PROVE InOrder'
  BY <1>1 DEF Check, RecordStart, Validate, BackUp, BackedUp, BackUpFails, MoreChanges, ToRestore
<1>2. ASSUME NEW e \in Execs,
             CheckChange(e) \/ WriteChange(e) \/ WriteFails(e) \/ Applied(e)
             \/ Verify(e) \/ RecordSuccess(e)
      PROVE InOrder'
  BY <1>2 DEF CheckChange, WriteChange, WriteFails, Applied, Verify, RecordSuccess,
             MoreChanges, ToRestore
<1>3. ASSUME NEW e \in Execs,
             Fail(e) \/ Restore(e) \/ RestoreFails(e) \/ Restored(e)
             \/ RecordFailure(e) \/ Remember(e)
      PROVE InOrder'
  BY <1>3 DEF Fail, Restore, RestoreFails, Restored, RecordFailure, Remember, MoreChanges, ToRestore
<1>4. ASSUME NEW e \in Execs,
             Ask(e) \/ GiveUp(e) \/ Crash(e) \/ Release(e)
      PROVE InOrder'
  BY <1>4 DEF Ask, GiveUp, Crash, Release
<1>5. ASSUME NEW e \in Execs,
             Lock(e)
      PROVE InOrder'
  <2>1. /\ pc' = [pc EXCEPT ![e] = "checking"] /\ outcome' = outcome
        /\ hasBackup' = FALSE /\ applied' = FALSE /\ idx' = 1
    BY <1>5 DEF Lock, Goes
  <2>2. pc[e] = "asked" /\ \A f \in Execs : pc[f] \notin Inside
    BY <1>5, HostExecutorAssumption DEF HostExecutorAssumption, Lock
  <2> QED
    BY <2>1, <2>2 DEF Inside, Untouched, Positions
<1>6. ASSUME NEW c \in ChangeSets, RecordExpires(c) PROVE InOrder'
  BY <1>6 DEF RecordExpires
<1>7. ASSUME NEW p \in Paths, NEW content \in Contents \cup {NoFile}, UserEdits(p, content)
      PROVE InOrder'
  BY <1>7 DEF UserEdits
<1>8. CASE LockCleaned
  BY <1>8 DEF LockCleaned
<1>9. CASE UNCHANGED vars
  BY <1>9
<1> QED
  BY <1>1, <1>2, <1>3, <1>4, <1>5, <1>6, <1>7, <1>8, <1>9 DEF Next, Pipeline

LEMMA CurrentTouched ==
  ASSUME TypeOK, NEW e \in Execs, MoreChanges(e)
  PROVE  Current(e).path \in Touched(request[e])
  BY CurrentType DEF Current, Touched

\* Whoever locks is the only one inside.
LEMMA LockAlone ==
  ASSUME InsideHolds, NEW e \in Execs, Lock(e), NEW d \in Execs, d # e
  PROVE  pc[d] \notin Inside /\ pc'[d] = pc[d]
  BY HostExecutorAssumption DEF HostExecutorAssumption, InsideHolds, Lock

\* Only the files of the changeset are written, and those after the backup.
LEMMA UntouchedStep == IInv /\ [Next]_vars => UntouchedKept'
<1> SUFFICES ASSUME TypeOK, InsideHolds, UntouchedKept, [Next]_vars PROVE UntouchedKept'
  BY DEF IInv
<1> USE DEF TypeOK, InsideHolds, UntouchedKept
<1>1. ASSUME NEW e \in Execs, Check(e) \/ RecordStart(e) \/ Validate(e) \/ BackUp(e)
                              \/ BackedUp(e) \/ BackUpFails(e)
      PROVE UntouchedKept'
  BY <1>1 DEF Check, RecordStart, Validate, BackUp, BackedUp, BackUpFails
<1>2. ASSUME NEW e \in Execs, CheckChange(e) \/ WriteFails(e) \/ Applied(e) \/ Verify(e)
                              \/ RecordSuccess(e) \/ Fail(e)
      PROVE UntouchedKept'
  BY <1>2 DEF CheckChange, WriteFails, Applied, Verify, RecordSuccess, Fail
<1>3. ASSUME NEW e \in Execs, RestoreFails(e) \/ Restored(e) \/ RecordFailure(e)
                              \/ Remember(e)
      PROVE UntouchedKept'
  BY <1>3 DEF RestoreFails, Restored, RecordFailure, Remember
<1>4. ASSUME NEW e \in Execs, Ask(e) \/ GiveUp(e) \/ Crash(e) \/ Release(e)
      PROVE UntouchedKept'
  BY <1>4 DEF Ask, GiveUp, Crash, Release
<1>5. ASSUME NEW e \in Execs, WriteChange(e)
      PROVE UntouchedKept'
  <2>1. Current(e).path \in Touched(request[e])
    BY <1>5, CurrentTouched DEF WriteChange
  <2> QED
    BY <1>5, <2>1 DEF WriteChange
<1>6. ASSUME NEW e \in Execs, Restore(e)
      PROVE UntouchedKept'
  <2>1. Current(e).path \in Touched(request[e])
    BY <1>6, CurrentTouched DEF Restore, ToRestore
  <2> QED
    BY <1>6, <2>1 DEF Restore
<1>7. ASSUME NEW e \in Execs, Lock(e)
      PROVE UntouchedKept'
  BY <1>7, LockAlone DEF Lock
<1>8. ASSUME NEW c \in ChangeSets, RecordExpires(c) PROVE UntouchedKept'
  BY <1>8 DEF RecordExpires
<1>9. ASSUME NEW p \in Paths, NEW content \in Contents \cup {NoFile}, UserEdits(p, content)
      PROVE UntouchedKept'
  BY <1>9 DEF UserEdits
<1>10. CASE LockCleaned
  BY <1>10 DEF LockCleaned
<1>11. CASE UNCHANGED vars
  BY <1>11
<1> QED
  BY <1>1, <1>2, <1>3, <1>4, <1>5, <1>6, <1>7, <1>8, <1>9, <1>10, <1>11 DEF Next, Pipeline

\* The copies are those of the files as they were.
LEMMA BackupBeforeStep == IInv /\ [Next]_vars => BackupIsBefore'
<1> SUFFICES ASSUME TypeOK, InsideHolds, InOrder, UntouchedKept, BackupIsBefore, [Next]_vars
              PROVE  BackupIsBefore'
  BY DEF IInv
<1> USE DEF TypeOK, InsideHolds, InOrder, BackupIsBefore
<1>1. ASSUME NEW e \in Execs, \/ Check(e) \/ RecordStart(e) \/ Validate(e) \/ BackUp(e)
                              \/ BackedUp(e) \/ BackUpFails(e)
      PROVE BackupIsBefore'
  <2>1. CASE Check(e) \/ RecordStart(e) \/ Validate(e) \/ BackUpFails(e)
    BY <2>1 DEF Check, RecordStart, Validate, BackUpFails
  <2>2. CASE BackedUp(e)
    <3>1. /\ pc[e] = "backing" /\ holder = e
          /\ request' = request /\ before' = before /\ edited' = edited /\ backup' = backup
          /\ \A d \in Execs \ {e} : pc'[d] \notin Inside
      BY <2>2 DEF BackedUp
    <3>2. \A i \in 1..Len(request[e]) : i < idx
      <4>1. idx \in Nat /\ Len(request[e]) \in Nat /\ ~(idx <= Len(request[e]))
        BY <2>2, ChangeSetType DEF BackedUp, MoreChanges
      <4> QED
        BY <4>1
    <3> QED
      BY <3>1, <3>2
  <2>3. CASE BackUp(e)
    <3>1. /\ pc' = pc /\ request' = request /\ before' = before /\ edited' = edited
          /\ hasBackup' = hasBackup /\ idx' = idx + 1 /\ holder = e /\ ~hasBackup
          /\ \A d \in Execs : pc[d] \in Inside => d = e
      BY <2>3 DEF BackUp
    <3>2. \A p \in Unedited : files[p] = before[p]
      BY <2>3 DEF BackUp, UntouchedKept
    <3>3. \A p \in Paths : backup'[p] = IF p = Current(e).path THEN files[p] ELSE backup[p]
      BY <2>3 DEF BackUp
    <3>4. ASSUME NEW i \in 1..Len(request[e]), i < idx + 1, request[e][i].path \in Unedited
          PROVE  backup'[request[e][i].path] = before[request[e][i].path]
      <4>1. CASE i < idx
        BY <2>3, <3>1, <3>2, <3>3, <3>4, <4>1 DEF BackUp
      <4>2. CASE i = idx
        BY <3>2, <3>3, <3>4, <4>2 DEF Current
      <4> QED
        BY <3>4, <4>1, <4>2, ChangeSetType
    <3> QED
      BY <3>1, <3>4
  <2> QED
    BY <1>1, <2>1, <2>2, <2>3
<1>2. ASSUME NEW e \in Execs, CheckChange(e) \/ WriteFails(e) \/ Applied(e) \/ Verify(e)
                              \/ RecordSuccess(e) \/ Fail(e)
      PROVE BackupIsBefore'
  BY <1>2 DEF CheckChange, WriteFails, Applied, Verify, RecordSuccess, Fail
<1>3. ASSUME NEW e \in Execs, RestoreFails(e) \/ Restored(e) \/ RecordFailure(e)
                              \/ Remember(e)
      PROVE BackupIsBefore'
  BY <1>3 DEF RestoreFails, Restored, RecordFailure, Remember
<1>4. ASSUME NEW e \in Execs, Ask(e) \/ GiveUp(e) \/ Crash(e) \/ Release(e)
      PROVE BackupIsBefore'
  BY <1>4 DEF Ask, GiveUp, Crash, Release
<1>5. ASSUME NEW e \in Execs, WriteChange(e)
      PROVE BackupIsBefore'
  BY <1>5 DEF WriteChange
<1>6. ASSUME NEW e \in Execs, Restore(e)
      PROVE BackupIsBefore'
  BY <1>6 DEF Restore
<1>7. ASSUME NEW e \in Execs, Lock(e)
      PROVE BackupIsBefore'
  BY <1>7, LockAlone DEF Lock
<1>8. ASSUME NEW c \in ChangeSets, RecordExpires(c) PROVE BackupIsBefore'
  BY <1>8 DEF RecordExpires
<1>9. ASSUME NEW p \in Paths, NEW content \in Contents \cup {NoFile}, UserEdits(p, content)
      PROVE BackupIsBefore'
  BY <1>9 DEF UserEdits
<1>10. CASE LockCleaned
  BY <1>10 DEF LockCleaned
<1>11. CASE UNCHANGED vars
  BY <1>11
<1> QED
  BY <1>1, <1>2, <1>3, <1>4, <1>5, <1>6, <1>7, <1>8, <1>9, <1>10, <1>11 DEF Next, Pipeline

\* Whatever the user edits is no longer looked at.
LEMMA EditKeepsApplied ==
  ASSUME TypeOK, NEW p \in Paths, NEW content \in Contents \cup {NoFile}, UserEdits(p, content),
         NEW c \in ChangeSets, NEW n \in Nat, n <= Len(c), AppliedUpTo(c, n)
  PROVE  AppliedUpTo(c, n)'
<1>1. /\ edited' = edited \cup {p}
      /\ \A q \in Paths : q # p => files'[q] = files[q]
  BY DEF UserEdits, TypeOK
<1>2. \A i \in 1..n : c[i].path \in Paths
  BY ChangeSetType
<1> QED
  BY <1>1, <1>2 DEF AppliedUpTo, Latest

\* Writing the next change extends what has been applied.
LEMMA WriteExtends ==
  ASSUME TypeOK, NEW c \in ChangeSets, NEW k \in 1..Len(c), AppliedUpTo(c, k - 1),
         files' = [files EXCEPT ![c[k].path] = c[k].new], edited' = edited
  PROVE  AppliedUpTo(c, k)'
<1>1. /\ Len(c) \in Nat /\ \A i \in 1..Len(c) : c[i].path \in Paths
      /\ files \in Workspace
  BY ChangeSetType DEF TypeOK
<1> SUFFICES ASSUME NEW i \in 1..k, Latest(c, k, i), c[i].path \in Unedited
             PROVE  files'[c[i].path] = c[i].new
  BY DEF AppliedUpTo, Latest
<1>2. CASE i = k
  BY <1>1, <1>2
<1>3. CASE i # k
  <2>1. i \in 1..(k - 1) /\ k \in (i + 1)..k
    BY <1>3
  <2>2. c[k].path # c[i].path /\ Latest(c, k - 1, i)
    BY <2>1 DEF Latest
  <2>3. files[c[i].path] = c[i].new
    BY <2>1, <2>2 DEF AppliedUpTo
  <2> QED
    BY <1>1, <2>2, <2>3
<1> QED
  BY <1>2, <1>3

\* A step that leaves the files and the edited paths alone changes nothing of it.
LEMMA SameFilesSameApplied ==
  ASSUME files' = files, edited' = edited, NEW c, NEW n
  PROVE  AppliedUpTo(c, n)' <=> AppliedUpTo(c, n)
  BY DEF AppliedUpTo, Latest

\* What the pipeline has applied so far is what the files hold.
LEMMA WrittenStep == IInv /\ [Next]_vars => WrittenSoFar'
<1> SUFFICES ASSUME TypeOK, InsideHolds, InOrder, WrittenSoFar, [Next]_vars PROVE WrittenSoFar'
  BY DEF IInv
<1> DEFINE W(d) == /\ pc[d] \in {"applying", "writing"} =>
                         /\ idx <= Len(request[d]) + 1
                         /\ AppliedUpTo(request[d], idx - 1)
                   /\ pc[d] \in {"verifying", "recording"} =>
                         AppliedUpTo(request[d], Len(request[d]))
<1> SUFFICES ASSUME NEW d \in Execs PROVE W(d)'
  BY DEF WrittenSoFar
<1>a. W(d)
  BY DEF WrittenSoFar
<1>b. /\ idx \in Nat \ {0} /\ request[d] \in ChangeSets /\ Len(request[d]) \in Nat
      /\ pc \in [Execs -> Positions]
      /\ \A e \in Execs : pc[e] \in Inside /\ pc[d] \in Inside => e = d
  BY ChangeSetType DEF TypeOK, InsideHolds
<1> HIDE DEF W
<1>1. ASSUME NEW e \in Execs, \/ Check(e) \/ RecordStart(e) \/ Validate(e) \/ BackUpFails(e)
                              \/ CheckChange(e) \/ WriteFails(e) \/ Verify(e)
                              \/ RecordSuccess(e) \/ RestoreFails(e) \/ Restored(e)
                              \/ RecordFailure(e) \/ Remember(e)
      PROVE W(d)'
  <2>1. /\ files' = files /\ edited' = edited /\ idx' = idx /\ request' = request
        /\ \/ pc'[d] = pc[d]
           \/ pc'[d] \notin {"applying", "writing", "verifying", "recording"}
           \/ pc[d] = "applying" /\ pc'[d] = "writing"
           \/ pc[d] = "verifying" /\ pc'[d] = "recording"
    BY <1>1, <1>b DEF Check, RecordStart, Validate, BackUpFails, CheckChange, WriteFails, Verify,
                      RecordSuccess, RestoreFails, Restored, RecordFailure, Remember
  <2> QED
    BY <1>a, <2>1, SameFilesSameApplied DEF W
<1>2. ASSUME NEW e \in Execs, BackUp(e) \/ BackedUp(e) \/ Fail(e) \/ Lock(e)
      PROVE W(d)'
  <2>1. CASE e = d
    <3>1. CASE pc'[d] \notin {"applying", "writing", "verifying", "recording"}
      BY <3>1 DEF W
    <3>2. CASE pc'[d] \in {"applying", "writing", "verifying", "recording"}
      <4>1. idx' = 1 /\ pc'[d] = "applying" /\ request'[d] = request[d]
        BY <1>2, <1>b, <2>1, <3>2 DEF BackUp, BackedUp, Fail, Lock
      <4>2. AppliedUpTo(request[d], 0)'
        BY DEF AppliedUpTo
      <4>3. idx' - 1 = 0 /\ idx' <= Len(request[d]) + 1
        BY <1>b, <4>1
      <4> QED
        BY <4>1, <4>2, <4>3 DEF W
    <3> QED
      BY <3>1, <3>2
  <2>2. CASE e # d
    <3>1. pc'[d] = pc[d] /\ pc[d] \notin Inside
      BY <1>2, <1>b, <2>2, LockAlone DEF BackUp, BackedUp, Fail, Lock
    <3> QED
      BY <3>1 DEF W
  <2> QED
    BY <2>1, <2>2
<1>3. ASSUME NEW e \in Execs, Applied(e) PROVE W(d)'
  <2>1. CASE e = d
    <3>1. /\ files' = files /\ edited' = edited /\ idx' = idx /\ request' = request
          /\ pc[d] = "applying" /\ pc'[d] = "verifying" /\ ~(idx <= Len(request[d]))
      BY <1>3, <1>b, <2>1 DEF Applied, MoreChanges
    <3>2. idx - 1 = Len(request[d])
      BY <1>a, <1>b, <3>1 DEF W
    <3> QED
      BY <1>a, <3>1, <3>2, SameFilesSameApplied DEF W
  <2>2. CASE e # d
    BY <1>3, <1>b, <2>2 DEF Applied, W
  <2> QED
    BY <2>1, <2>2
<1>4. ASSUME NEW e \in Execs, WriteChange(e) PROVE W(d)'
  <2>1. CASE e = d /\ pc'[d] = "applying"
    <3>1. /\ pc[d] = "writing" /\ idx \in 1..Len(request[d]) /\ idx' = idx + 1
          /\ request' = request /\ edited' = edited
          /\ files' = [files EXCEPT ![request[d][idx].path] = request[d][idx].new]
      BY <1>4, <1>b, <2>1 DEF WriteChange, MoreChanges, Current
    <3> PICK c \in ChangeSets, k \in Nat : c = request[d] /\ k = idx
      BY <1>b
    <3>2. AppliedUpTo(c, k - 1)
      BY <1>a, <3>1 DEF W
    <3>3. AppliedUpTo(c, k)'
      BY <3>1, <3>2, WriteExtends
    <3>4. idx' - 1 = k /\ idx' <= Len(request[d]) + 1 /\ request'[d] = c
      BY <1>b, <3>1
    <3>5. AppliedUpTo(request[d], idx - 1)'
      BY <3>3, <3>4 DEF AppliedUpTo, Latest
    <3> QED
      BY <2>1, <3>1, <3>4, <3>5 DEF W
  <2>2. CASE e = d /\ pc'[d] # "applying"
    BY <1>4, <1>b, <2>2 DEF WriteChange, W
  <2>3. CASE e # d
    BY <1>4, <1>b, <2>3 DEF WriteChange, W
  <2> QED
    BY <2>1, <2>2, <2>3
<1>5. ASSUME NEW e \in Execs, Restore(e) \/ Ask(e) \/ GiveUp(e) \/ Crash(e) \/ Release(e)
      PROVE W(d)'
  <2>1. CASE pc'[d] \notin {"applying", "writing", "verifying", "recording"}
    BY <2>1 DEF W
  <2>2. CASE pc'[d] \in {"applying", "writing", "verifying", "recording"}
    <3>1. /\ pc'[d] = pc[d] /\ files' = files /\ edited' = edited /\ idx' = idx
          /\ request'[d] = request[d]
      BY <1>5, <1>b, <2>2 DEF Restore, Ask, GiveUp, Crash, Release, TypeOK
    <3> QED
      BY <1>a, <3>1, SameFilesSameApplied DEF W
  <2> QED
    BY <2>1, <2>2
<1>6. ASSUME NEW p \in Paths, NEW content \in Contents \cup {NoFile}, UserEdits(p, content)
      PROVE W(d)'
  <2>1. pc' = pc /\ idx' = idx /\ request' = request
    BY <1>6 DEF UserEdits
  <2>2. CASE pc[d] \in {"applying", "writing"}
    <3> PICK c \in ChangeSets, n \in Nat : c = request[d] /\ n = idx - 1
      BY <1>b
    <3>1. n <= Len(c) /\ AppliedUpTo(c, n)
      BY <1>a, <1>b, <2>2 DEF W
    <3>2. AppliedUpTo(c, n)'
      BY <1>6, <3>1, EditKeepsApplied
    <3>3. AppliedUpTo(request[d], idx - 1)'
      BY <2>1, <3>2 DEF AppliedUpTo, Latest
    <3> QED
      BY <1>a, <2>1, <2>2, <3>3 DEF W
  <2>3. CASE pc[d] \in {"verifying", "recording"}
    <3> PICK c \in ChangeSets, n \in Nat : c = request[d] /\ n = Len(request[d])
      BY <1>b
    <3>1. AppliedUpTo(c, n)
      BY <1>a, <2>3 DEF W
    <3>2. AppliedUpTo(c, n)'
      BY <1>6, <3>1, EditKeepsApplied
    <3>3. AppliedUpTo(request[d], Len(request[d]))'
      BY <2>1, <3>2 DEF AppliedUpTo, Latest
    <3> QED
      BY <2>1, <2>3, <3>3 DEF W
  <2>4. CASE pc[d] \notin {"applying", "writing", "verifying", "recording"}
    BY <2>1, <2>4 DEF W
  <2> QED
    BY <2>2, <2>3, <2>4
<1>7. ASSUME \/ \E c \in ChangeSets : RecordExpires(c)
             \/ LockCleaned \/ UNCHANGED vars
      PROVE W(d)'
  <2>1. pc' = pc /\ files' = files /\ edited' = edited /\ idx' = idx /\ request' = request
    BY <1>7 DEF RecordExpires, LockCleaned
  <2> QED
    BY <1>a, <2>1, SameFilesSameApplied DEF W
<1> QED
  BY <1>1, <1>2, <1>3, <1>4, <1>5, <1>6, <1>7 DEF Next, Pipeline

\* A success stays applied until the lock is given back.
LEMMA CompletedStep == IInv /\ [Next]_vars => CompletedIsApplied'
<1> SUFFICES ASSUME TypeOK, InsideHolds, InOrder, WrittenSoFar, CompletedIsApplied, [Next]_vars
             PROVE  CompletedIsApplied'
  BY DEF IInv
<1> DEFINE C(d) == pc[d] \in Inside /\ Succeeded(d) => AppliedUpTo(request[d], Len(request[d]))
<1> SUFFICES ASSUME NEW d \in Execs PROVE C(d)'
  BY DEF CompletedIsApplied
<1>a. C(d)
  BY DEF CompletedIsApplied
<1>b. /\ request[d] \in ChangeSets /\ Len(request[d]) \in Nat
      /\ pc \in [Execs -> Positions] /\ outcome \in [Execs -> Outcomes]
      /\ \A e \in Execs : pc[e] \in Inside /\ pc[d] \in Inside => e = d
  BY ChangeSetType DEF TypeOK, InsideHolds
<1> HIDE DEF C
<1>1. ASSUME NEW e \in Execs, \/ Check(e) \/ RecordStart(e) \/ Validate(e) \/ BackUpFails(e)
                              \/ BackUp(e) \/ BackedUp(e) \/ Applied(e) \/ CheckChange(e)
                              \/ WriteFails(e) \/ Verify(e) \/ Fail(e) \/ RestoreFails(e)
                              \/ Restored(e) \/ RecordFailure(e) \/ Remember(e)
      PROVE C(d)'
  <2>1. /\ files' = files /\ edited' = edited /\ request' = request
        /\ pc'[d] \in Inside /\ Succeeded(d)' => pc[d] \in Inside /\ Succeeded(d)
    BY <1>1, <1>b DEF Check, RecordStart, Validate, BackUpFails, BackUp, BackedUp, Applied,
                      CheckChange, WriteFails, Verify, Fail, RestoreFails, Restored,
                      RecordFailure, Remember, Succeeded
  <2> QED
    BY <1>a, <2>1, SameFilesSameApplied DEF C
<1>2. ASSUME NEW e \in Execs, RecordSuccess(e) PROVE C(d)'
  <2>1. /\ files' = files /\ edited' = edited /\ request' = request
        /\ \/ pc'[d] \in Inside /\ Succeeded(d)' => pc[d] \in Inside /\ Succeeded(d)
           \/ pc[d] = "recording"
    BY <1>2, <1>b DEF RecordSuccess, Succeeded
  <2>2. pc[d] = "recording" => AppliedUpTo(request[d], Len(request[d]))
    BY DEF WrittenSoFar
  <2> QED
    BY <1>a, <2>1, <2>2, SameFilesSameApplied DEF C
<1>3. ASSUME NEW e \in Execs, WriteChange(e) \/ Restore(e) \/ Lock(e) PROVE C(d)'
  <2>1. ~(pc'[d] \in Inside /\ Succeeded(d)')
    <3>1. CASE e = d
      BY <1>3, <1>b, <3>1 DEF WriteChange, Restore, Lock, InOrder, Succeeded
    <3>2. CASE e # d
      <4>1. pc'[d] = pc[d] /\ pc[d] \notin Inside
        BY <1>3, <1>b, <3>2, LockAlone DEF WriteChange, Restore, Lock
      <4> QED
        BY <4>1
    <3> QED
      BY <3>1, <3>2
  <2> QED
    BY <2>1 DEF C
<1>4. ASSUME NEW e \in Execs, Ask(e) \/ GiveUp(e) \/ Crash(e) \/ Release(e) PROVE C(d)'
  <2>1. CASE pc'[d] \notin Inside
    BY <2>1 DEF C
  <2>2. CASE pc'[d] \in Inside
    <3>1. /\ pc'[d] = pc[d] /\ files' = files /\ edited' = edited
          /\ request'[d] = request[d] /\ outcome'[d] = outcome[d]
      BY <1>4, <1>b, <2>2 DEF Ask, GiveUp, Crash, Release, TypeOK
    <3> QED
      BY <1>a, <3>1, SameFilesSameApplied DEF C, Succeeded
  <2> QED
    BY <2>1, <2>2
<1>5. ASSUME NEW p \in Paths, NEW content \in Contents \cup {NoFile}, UserEdits(p, content)
      PROVE C(d)'
  <2>1. pc' = pc /\ outcome' = outcome /\ request' = request
    BY <1>5 DEF UserEdits
  <2>2. CASE pc[d] \in Inside /\ Succeeded(d)
    <3> PICK c \in ChangeSets, n \in Nat : c = request[d] /\ n = Len(request[d])
      BY <1>b
    <3>1. AppliedUpTo(c, n)'
      BY <1>a, <1>5, <2>2, EditKeepsApplied DEF C
    <3>2. AppliedUpTo(request[d], Len(request[d]))'
      BY <2>1, <3>1 DEF AppliedUpTo, Latest
    <3> QED
      BY <3>2 DEF C
  <2> QED
    BY <2>1, <2>2 DEF C, Succeeded
<1>6. ASSUME \/ \E c \in ChangeSets : RecordExpires(c)
             \/ LockCleaned \/ UNCHANGED vars
      PROVE C(d)'
  <2>1. /\ pc' = pc /\ files' = files /\ edited' = edited /\ outcome' = outcome
        /\ request' = request
    BY <1>6 DEF RecordExpires, LockCleaned
  <2> QED
    BY <1>a, <2>1, SameFilesSameApplied DEF C, Succeeded
<1> QED
  BY <1>1, <1>2, <1>3, <1>4, <1>5, <1>6 DEF Next, Pipeline

\* The rollback puts back one file after the other.
LEMMA RestoredStep == IInv /\ [Next]_vars => RestoredSoFar'
<1> SUFFICES ASSUME TypeOK, InsideHolds, InOrder, BackupIsBefore, RestoredSoFar, [Next]_vars
             PROVE  RestoredSoFar'
  BY DEF IInv
<1> USE DEF TypeOK, InsideHolds, InOrder, RestoredSoFar
<1>1. ASSUME NEW e \in Execs, Restore(e) PROVE RestoredSoFar'
  <2>1. /\ pc' = pc /\ request' = request /\ before' = before /\ edited' = edited
        /\ applied' = applied /\ idx' = idx + 1 /\ pc[e] = "restoring" /\ applied
        /\ idx \in 1..Len(request[e]) /\ hasBackup
        /\ \A d \in Execs : pc[d] = "restoring" => d = e
    BY <1>1, CurrentType DEF Restore, ToRestore
  <2>2. \A p \in Paths : files'[p] = IF p = Current(e).path THEN backup[p] ELSE files[p]
    BY <1>1 DEF Restore
  <2>3. ASSUME NEW i \in 1..Len(request[e]), i < idx + 1, request[e][i].path \in Unedited
        PROVE  files'[request[e][i].path] = before[request[e][i].path]
    <3>1. backup[request[e][i].path] = before[request[e][i].path]
      BY <2>1, <2>3 DEF BackupIsBefore
    <3>2. CASE i < idx
      BY <2>1, <2>2, <2>3, <3>1, <3>2
    <3>3. CASE i = idx
      BY <2>2, <2>3, <3>1, <3>3 DEF Current
    <3> QED
      BY <2>1, <2>3, <3>2, <3>3, ChangeSetType
  <2> QED
    BY <2>1, <2>3
<1>2. ASSUME NEW e \in Execs, Fail(e) PROVE RestoredSoFar'
  <2>1. idx' = 1 /\ \A d \in Execs : pc'[d] = "restoring" => d = e /\ request' = request
    BY <1>2 DEF Fail
  <2> QED
    BY <2>1, ChangeSetType
<1>3. ASSUME NEW e \in Execs, \/ Check(e) \/ RecordStart(e) \/ Validate(e) \/ BackUp(e)
                              \/ BackedUp(e) \/ BackUpFails(e) \/ CheckChange(e)
      PROVE RestoredSoFar'
  BY <1>3 DEF Check, RecordStart, Validate, BackUp, BackedUp, BackUpFails, CheckChange
<1>4. ASSUME NEW e \in Execs, \/ WriteChange(e) \/ WriteFails(e) \/ Applied(e) \/ Verify(e)
                              \/ RecordSuccess(e) \/ RestoreFails(e) \/ Restored(e)
      PROVE RestoredSoFar'
  <2>1. \A d \in Execs : pc'[d] # "restoring"
    BY <1>4 DEF WriteChange, WriteFails, Applied, Verify, RecordSuccess, RestoreFails, Restored
  <2> QED
    BY <2>1
<1>5. ASSUME NEW e \in Execs, \/ RecordFailure(e) \/ Remember(e) \/ Release(e)
                              \/ Ask(e) \/ GiveUp(e) \/ Crash(e)
      PROVE RestoredSoFar'
  <2>1. /\ files' = files /\ before' = before /\ edited' = edited /\ applied' = applied
        /\ idx' = idx
        /\ \A d \in Execs : pc'[d] = "restoring" => pc[d] = "restoring" /\ request'[d] = request[d]
    BY <1>5 DEF RecordFailure, Remember, Release, Ask, GiveUp, Crash
  <2> QED
    BY <2>1
<1>6. ASSUME NEW e \in Execs, Lock(e) PROVE RestoredSoFar'
  BY <1>6, LockAlone DEF Lock
<1>7. ASSUME NEW p \in Paths, NEW content \in Contents \cup {NoFile}, UserEdits(p, content)
      PROVE RestoredSoFar'
  BY <1>7, ChangeSetType DEF UserEdits
<1>8. ASSUME \/ \E c \in ChangeSets : RecordExpires(c)
             \/ LockCleaned \/ UNCHANGED vars
      PROVE RestoredSoFar'
  <2>1. /\ files' = files /\ before' = before /\ edited' = edited /\ applied' = applied
        /\ idx' = idx /\ pc' = pc /\ request' = request
    BY <1>8 DEF RecordExpires, LockCleaned
  <2> QED
    BY <2>1
<1> QED
  BY <1>1, <1>2, <1>3, <1>4, <1>5, <1>6, <1>7, <1>8 DEF Next, Pipeline

\* The rollback is over when every file of the changeset is back; the others were
\* never written.
LEMMA RollbackStep == IInv /\ [Next]_vars => RollbackRestores'
<1> SUFFICES ASSUME TypeOK, InsideHolds, InOrder, UntouchedKept, RestoredSoFar, RollbackRestores,
                    [Next]_vars
             PROVE  RollbackRestores'
  BY DEF IInv
<1> DEFINE R(d) == pc[d] \in Inside /\ outcome[d] = "rolled_back" /\ applied
                      => \A p \in Unedited : files[p] = before[p]
<1> SUFFICES ASSUME NEW d \in Execs PROVE R(d)'
  BY DEF RollbackRestores
<1>a. R(d)
  BY DEF RollbackRestores
<1>b. /\ request[d] \in ChangeSets /\ Len(request[d]) \in Nat /\ idx \in Nat
      /\ pc \in [Execs -> Positions] /\ outcome \in [Execs -> Outcomes]
      /\ \A e \in Execs : pc[e] \in Inside /\ pc[d] \in Inside => e = d
  BY ChangeSetType DEF TypeOK, InsideHolds
<1>1. ASSUME NEW e \in Execs, \/ Check(e) \/ RecordStart(e) \/ Validate(e) \/ BackUpFails(e)
                              \/ BackUp(e) \/ BackedUp(e) \/ CheckChange(e) \/ WriteFails(e)
                              \/ Verify(e) \/ RecordSuccess(e) \/ Fail(e) \/ RestoreFails(e)
                              \/ RecordFailure(e) \/ Remember(e)
      PROVE R(d)'
  <2>1. /\ files' = files /\ edited' = edited /\ before' = before /\ applied' = applied
        /\ pc'[d] \in Inside /\ outcome'[d] = "rolled_back"
              => pc[d] \in Inside /\ outcome[d] = "rolled_back"
    BY <1>1, <1>b DEF Check, RecordStart, Validate, BackUpFails, BackUp, BackedUp, CheckChange,
                      WriteFails, Verify, RecordSuccess, Fail, RestoreFails, RecordFailure,
                      Remember
  <2> QED
    BY <1>a, <2>1
<1>2. ASSUME NEW e \in Execs, Restored(e) PROVE R(d)'
  <2>1. /\ files' = files /\ edited' = edited /\ before' = before /\ applied' = applied
        /\ pc[e] = "restoring"
    BY <1>2 DEF Restored
  <2>2. CASE e = d /\ applied
    <3>1. \A i \in 1..Len(request[d]) : i < idx
      BY <1>2, <1>b, <2>2 DEF Restored, ToRestore, MoreChanges
    <3>2. ASSUME NEW p \in Unedited PROVE files[p] = before[p]
      <4>1. CASE p \in Touched(request[d])
        BY <2>1, <2>2, <3>1, <4>1 DEF Touched, RestoredSoFar
      <4>2. CASE p \notin Touched(request[d])
        BY <2>1, <2>2, <4>2 DEF UntouchedKept
      <4> QED
        BY <4>1, <4>2
    <3> QED
      BY <2>1, <3>2
  <2>3. CASE e # d
    <3>1. pc'[d] \notin Inside
      BY <1>2, <1>b, <2>1, <2>3 DEF Restored
    <3> QED
      BY <3>1
  <2>4. CASE ~applied
    BY <2>1, <2>4
  <2> QED
    BY <2>2, <2>3, <2>4
<1>3. ASSUME NEW e \in Execs, WriteChange(e) \/ Restore(e) \/ Applied(e) \/ Lock(e) PROVE R(d)'
  <2>1. ~(pc'[d] \in Inside /\ outcome'[d] = "rolled_back")
    <3>1. CASE e = d
      BY <1>3, <1>b, <3>1, ZenonT(40) DEF WriteChange, Restore, Applied, Lock, InOrder
    <3>2. CASE e # d
      <4>1. pc'[d] = pc[d] /\ pc[d] \notin Inside
        BY <1>3, <1>b, <3>2, LockAlone DEF WriteChange, Restore, Applied, Lock
      <4> QED
        BY <4>1
    <3> QED
      BY <3>1, <3>2
  <2> QED
    BY <2>1
<1>4. ASSUME NEW e \in Execs, Ask(e) \/ GiveUp(e) \/ Crash(e) \/ Release(e) PROVE R(d)'
  <2>1. CASE pc'[d] \notin Inside
    BY <2>1
  <2>2. CASE pc'[d] \in Inside
    <3>1. /\ pc'[d] = pc[d] /\ files' = files /\ edited' = edited /\ before' = before
          /\ applied' = applied /\ outcome'[d] = outcome[d]
      BY <1>4, <1>b, <2>2 DEF Ask, GiveUp, Crash, Release
    <3> QED
      BY <1>a, <3>1
  <2> QED
    BY <2>1, <2>2
<1>5. ASSUME NEW p \in Paths, NEW content \in Contents \cup {NoFile}, UserEdits(p, content)
      PROVE R(d)'
  <2>1. /\ pc' = pc /\ outcome' = outcome /\ applied' = applied /\ before' = before
        /\ edited' = edited \cup {p} /\ \A q \in Paths : q # p => files'[q] = files[q]
    BY <1>5 DEF UserEdits, TypeOK
  <2> QED
    BY <1>a, <2>1
<1>6. ASSUME \/ \E c \in ChangeSets : RecordExpires(c)
             \/ LockCleaned \/ UNCHANGED vars
      PROVE R(d)'
  <2>1. /\ pc' = pc /\ outcome' = outcome /\ applied' = applied /\ before' = before
        /\ edited' = edited /\ files' = files
    BY <1>6 DEF RecordExpires, LockCleaned
  <2> QED
    BY <1>a, <2>1
<1> QED
  BY <1>1, <1>2, <1>3, <1>4, <1>5, <1>6 DEF Next, Pipeline

\* A completed changeset is on record before the lock is given back, so that the
\* next execution that asks is answered from the record.
LEMMA DoneStep == IInv /\ [Next]_vars => DoneIsRecorded' /\ DuplicatesAreCached'
<1> DEFINE Lossless == faults = 0 /\ crashes = 0
           Fresh(d) == pc[d] \in Inside \ {"checking", "remembering", "releasing"}
                          => request[d] \notin done
           FailedCall(d) == pc[d] = "remembering" /\ ~Succeeded(d) => request[d] \notin done
           Kept(c) == \/ record[c] = "completed"
                      \/ \E e \in Execs : pc[e] = "remembering" /\ request[e] = c /\ Succeeded(e)
           Good == /\ \A c \in done : Kept(c)
                   /\ \A d \in Execs : Fresh(d) /\ FailedCall(d)
<1> SUFFICES ASSUME TypeOK, InsideHolds, InOrder, Lossless => Good, [Next]_vars, Lossless'
             PROVE  Good'
  BY DEF IInv, DoneIsRecorded, DuplicatesAreCached
<1>a. Lossless /\ ~Fault /\ \A e \in Execs : ~Crash(e)
  <2>1. faults \in Nat /\ crashes \in Nat
    BY BoundsAreNumbers DEF TypeOK
  <2>2. faults' # faults + 1 /\ crashes' # crashes + 1
    BY <2>1
  <2>3. faults' = faults \/ faults' = faults + 1
    BY DEF Next, Pipeline, Ask, Lock, GiveUp, Check, RecordStart, Validate, BackUp, BackedUp,
           BackUpFails, CheckChange, WriteChange, WriteFails, Applied, Verify, RecordSuccess,
           Fail, Restore, RestoreFails, Restored, RecordFailure, Remember, Release, Crash,
           RecordExpires, UserEdits, LockCleaned
  <2>4. crashes' = crashes \/ crashes' = crashes + 1
    BY DEF Next, Pipeline, Ask, Lock, GiveUp, Check, RecordStart, Validate, BackUp, BackedUp,
           BackUpFails, CheckChange, WriteChange, WriteFails, Applied, Verify, RecordSuccess,
           Fail, Restore, RestoreFails, Restored, RecordFailure, Remember, Release, Crash,
           RecordExpires, UserEdits, LockCleaned
  <2> QED
    BY <2>1, <2>2, <2>3, <2>4 DEF Crash
<1>b. /\ Good
      /\ pc \in [Execs -> Positions] /\ outcome \in [Execs -> Outcomes]
      /\ request \in [Execs -> ChangeSets] /\ done \subseteq ChangeSets
      /\ \A d, e \in Execs : pc[e] \in Inside /\ pc[d] \in Inside => e = d
      /\ record \in [ChangeSets -> {"none", "completed", "failed"}]
  BY <1>a DEF TypeOK, InsideHolds
<1> HIDE DEF Lossless
<1>1. ASSUME NEW e \in Execs, Check(e) PROVE Good'
  <2>1. record[request[e]] # "completed" => request[e] \notin done
    BY <1>b, <1>1 DEF Check
  <2>2. /\ done' = done /\ record' = record /\ request' = request
        /\ \A d \in Execs : pc'[d] = "remembering" <=> pc[d] = "remembering"
        /\ \A d \in Execs : pc[d] = "remembering" => outcome'[d] = outcome[d]
        /\ \A d \in Execs : pc'[d] \in Inside => d = e
        /\ pc'[e] # "releasing" => record[request[e]] # "completed"
    BY <1>b, <1>1 DEF Check
  <2>3. \A d \in Execs : Fresh(d)' /\ FailedCall(d)'
    BY <1>b, <2>1, <2>2 DEF Succeeded
  <2>4. \A c \in done' : Kept(c)'
    BY <1>b, <2>2 DEF Succeeded
  <2> QED
    BY <2>3, <2>4
<1>2. ASSUME NEW e \in Execs, \/ RecordStart(e) \/ Validate(e) \/ BackUp(e) \/ BackedUp(e)
                              \/ BackUpFails(e) \/ CheckChange(e) \/ WriteChange(e)
                              \/ WriteFails(e) \/ Applied(e) \/ Verify(e) \/ Fail(e)
                              \/ Restore(e) \/ RestoreFails(e) \/ Restored(e)
                              \/ RecordFailure(e)
      PROVE Good'
  <2>1. /\ done' = done /\ record' = record /\ request' = request
        /\ pc[e] \in Inside \ {"checking", "remembering", "releasing"}
        /\ \A d \in Execs : d # e => pc'[d] = pc[d] /\ outcome'[d] = outcome[d]
    BY <1>b, <1>2 DEF RecordStart, Validate, BackUp, BackedUp, BackUpFails, CheckChange,
                      WriteChange, WriteFails, Applied, Verify, Fail, Restore, RestoreFails,
                      Restored, RecordFailure
  <2>2. \A d \in Execs : Fresh(d)' /\ FailedCall(d)'
    BY <1>b, <2>1 DEF Succeeded
  <2>3. \A c \in done' : Kept(c)'
    BY <1>b, <2>1 DEF Succeeded
  <2> QED
    BY <2>2, <2>3
<1>3. ASSUME NEW e \in Execs, RecordSuccess(e) PROVE Good'
  <2>1. /\ done' = done \cup {request[e]} /\ record' = record /\ request' = request
        /\ pc[e] = "recording" /\ pc'[e] = "remembering" /\ outcome'[e] = "completed"
        /\ \A d \in Execs : d # e => pc'[d] = pc[d] /\ outcome'[d] = outcome[d]
    BY <1>a, <1>b, <1>3 DEF RecordSuccess
  <2>2. \A d \in Execs : Fresh(d)' /\ FailedCall(d)'
    BY <1>b, <2>1 DEF Succeeded
  <2>3. \A c \in done' : Kept(c)'
    BY <1>b, <2>1 DEF Succeeded
  <2> QED
    BY <2>2, <2>3
<1>4. ASSUME NEW e \in Execs, Remember(e) PROVE Good'
  <2>1. /\ done' = done /\ request' = request /\ outcome' = outcome
        /\ pc[e] = "remembering" /\ pc'[e] = "releasing"
        /\ record' = [record EXCEPT ![request[e]] = IF Succeeded(e) THEN "completed" ELSE "failed"]
        /\ \A d \in Execs : d # e => pc'[d] = pc[d]
    BY <1>a, <1>b, <1>4 DEF Remember
  <2>2. \A d \in Execs : Fresh(d)' /\ FailedCall(d)'
    BY <1>b, <2>1 DEF Succeeded
  <2>3. ASSUME NEW c \in done PROVE Kept(c)'
    <3>1. CASE c = request[e]
      BY <1>b, <2>1, <3>1
    <3>2. CASE c # request[e]
      BY <1>b, <2>1, <3>2
    <3> QED
      BY <3>1, <3>2
  <2> QED
    BY <2>1, <2>2, <2>3
<1>5. ASSUME NEW e \in Execs, Ask(e) \/ Lock(e) \/ GiveUp(e) \/ Release(e) PROVE Good'
  <2>1. /\ done' = done /\ record' = record
        /\ pc[e] \in {"idle", "asked", "releasing"} /\ pc'[e] \in {"idle", "asked", "checking"}
        /\ \A d \in Execs : d # e => /\ pc'[d] = pc[d] /\ outcome'[d] = outcome[d]
                                     /\ request'[d] = request[d]
    BY <1>b, <1>5 DEF Ask, Lock, GiveUp, Release
  <2>2. \A d \in Execs : Fresh(d)' /\ FailedCall(d)'
    BY <1>b, <2>1 DEF Succeeded
  <2>3. \A c \in done' : Kept(c)'
    BY <1>b, <2>1 DEF Succeeded
  <2> QED
    BY <2>2, <2>3
<1>6. ASSUME NEW c \in ChangeSets, RecordExpires(c) PROVE Good'
  <2>1. /\ done' = done \ {c} /\ pc' = pc /\ request' = request /\ outcome' = outcome
        /\ \A b \in ChangeSets : b # c => record'[b] = record[b]
    BY <1>b, <1>6 DEF RecordExpires
  <2> QED
    BY <1>b, <2>1 DEF Succeeded
<1>7. ASSUME \/ \E p \in Paths, content \in Contents \cup {NoFile} : UserEdits(p, content)
             \/ LockCleaned \/ UNCHANGED vars
      PROVE Good'
  <2>1. /\ done' = done /\ pc' = pc /\ request' = request /\ outcome' = outcome
        /\ record' = record
    BY <1>7 DEF UserEdits, LockCleaned
  <2> QED
    BY <1>b, <2>1 DEF Succeeded
<1> QED
  BY <1>a, <1>1, <1>2, <1>3, <1>4, <1>5, <1>6, <1>7 DEF Next, Pipeline

-----------------------------------------------------------------------------
LEMMA InitIsGood == Init => IInv
<1> SUFFICES ASSUME Init PROVE IInv
  OBVIOUS
<1>1. TypeOK
  BY InitIsTyped
<1>2. /\ pc = [e \in Execs |-> "idle"] /\ done = {}
      /\ outcome = [e \in Execs |-> "none"]
  BY DEF Init
<1> QED
  BY <1>1, <1>2 DEF IInv, InsideHolds, UntouchedKept, InOrder, BackupIsBefore, WrittenSoFar,
     RestoredSoFar, CompletedIsApplied, RollbackRestores, DoneIsRecorded, DuplicatesAreCached,
     Succeeded

\* IInv holds in every reachable state.
THEOREM Inductive == Spec => []IInv
<1>1. IInv /\ [Next]_vars => IInv'
  BY TypeStep, HoldsStep, UntouchedStep, OrderStep, BackupBeforeStep, WrittenStep, RestoredStep,
     CompletedStep, RollbackStep, DoneStep DEF IInv
<1> QED
  BY InitIsGood, <1>1, PTL DEF Spec

\* Every variable stays in its domain.
THEOREM TypeCorrect == Spec => []TypeOK
<1>1. IInv => TypeOK
  BY DEF IInv
<1> QED
  BY Inductive, <1>1, PTL

\* A success that is recorded means that every file has its new content.
THEOREM CompletedCorrect == Spec => []CompletedIsApplied
<1>1. IInv => CompletedIsApplied
  BY DEF IInv
<1> QED
  BY Inductive, <1>1, PTL

\* A rollback after all changes were applied restores the workspace.
THEOREM RollbackCorrect == Spec => []RollbackRestores
<1>1. IInv => RollbackRestores
  BY DEF IInv
<1> QED
  BY Inductive, <1>1, PTL

\* Without errors and crashes no changeset is executed again within the hour.
THEOREM DuplicatesCorrect == Spec => []DuplicatesAreCached
<1>1. IInv => DuplicatesAreCached
  BY DEF IInv
<1> QED
  BY Inductive, <1>1, PTL

-----------------------------------------------------------------------------
(* The lock that the executor holds                                        *)

\* The names whose definitions are plain abbreviations.
USE DEF Places, Absent, Readable, Moves, Unlinked, AfterFailure, file, lockVars

LEMMA LockInitIsGood == LockInit => LockInv
<1> SUFFICES ASSUME LockInit PROVE LockInv
  OBVIOUS
<1>1. LockTypeOK
  <2>1. 0 \in 0..Retries /\ 0 \in 0..MaxDeaths /\ 0 \in 0..MaxSlowLookups
    BY ExecutionLockAssumption DEF ExecutionLockAssumption
  <2> QED
    BY <2>1 DEF LockInit, LockTypeOK
<1>2. HoldersHaveTheFile /\ CleanersHaveCause /\ DeadAreCounted /\ MisfireHasCause
  BY DEF LockInit, HoldersHaveTheFile, CleanersHaveCause, DeadAreCounted, MisfireHasCause
<1> QED
  BY <1>1, <1>2 DEF LockInv

\* Every variable of the lock file stays in its domain.
LEMMA LockTypeStep == LockTypeOK /\ [LockNext]_lockVars => LockTypeOK'
<1> SUFFICES ASSUME LockTypeOK, [LockNext]_lockVars PROVE LockTypeOK'
  OBVIOUS
<1> USE ExecutionLockAssumption DEF LockTypeOK
<1>1. ASSUME NEW e \in Owners, Begin(e) PROVE LockTypeOK'
  BY <1>1 DEF Begin
<1>2. ASSUME NEW e \in Owners, TryCreate(e) PROVE LockTypeOK'
  BY <1>2 DEF TryCreate
<1>3. ASSUME NEW e \in Owners, TryFails(e) PROVE LockTypeOK'
  BY <1>3 DEF TryFails
<1>4. ASSUME NEW e \in Owners, WriteMetadata(e) PROVE LockTypeOK'
  BY <1>4 DEF WriteMetadata
<1>5. ASSUME NEW e \in Owners, MetadataFails(e) PROVE LockTypeOK'
  BY <1>5 DEF MetadataFails
<1>6. ASSUME NEW e \in Owners, Retry(e) PROVE LockTypeOK'
  BY <1>6 DEF Retry
<1>7. ASSUME NEW e \in Owners, TimeOut(e) PROVE LockTypeOK'
  BY <1>7 DEF TimeOut
<1>8. ASSUME NEW e \in Owners, Judge(e) PROVE LockTypeOK'
  BY <1>8 DEF Judge
<1>9. ASSUME NEW e \in Owners, JudgeSlowly(e) PROVE LockTypeOK'
  BY <1>9 DEF JudgeSlowly
<1>10. ASSUME NEW e \in Owners, ForceRelease(e) PROVE LockTypeOK'
  BY <1>10 DEF ForceRelease
<1>11. ASSUME NEW e \in Owners, ForceReleaseFails(e) PROVE LockTypeOK'
  BY <1>11 DEF ForceReleaseFails
<1>12. ASSUME NEW e \in Owners, Refuse(e) PROVE LockTypeOK'
  BY <1>12 DEF Refuse
<1>13. ASSUME NEW e \in Owners, CheckOwner(e) PROVE LockTypeOK'
  BY <1>13 DEF CheckOwner
<1>14. ASSUME NEW e \in Owners, Unlink(e) PROVE LockTypeOK'
  BY <1>14 DEF Unlink
<1>15. ASSUME NEW e \in Owners, Die(e) PROVE LockTypeOK'
  BY <1>15 DEF Die
<1>16. CASE GetsOld
  BY <1>16 DEF GetsOld
<1>17. CASE UNCHANGED lockVars
  BY <1>17
<1>18. ASSUME NEW e \in Owners, UnlinkFails(e) PROVE LockTypeOK'
  BY <1>18 DEF UnlinkFails
<1> QED
  BY <1>1, <1>2, <1>3, <1>4, <1>5, <1>6, <1>7, <1>8, <1>9, <1>10, <1>11, <1>12, <1>13,
     <1>14, <1>15, <1>16, <1>17, <1>18 DEF LockNext, Acquire, GiveBack

\* Whoever has created the file keeps it at the path: others create only where
\* there is none, a live execution unlinks its own, and a cleanup that removes the
\* file of a live execution sets misfired.
LEMMA HoldersStep == LockInv /\ [LockNext]_lockVars => HoldersHaveTheFile'
<1> SUFFICES ASSUME LockTypeOK, HoldersHaveTheFile, [LockNext]_lockVars PROVE HoldersHaveTheFile'
  BY DEF LockInv
<1> USE ExecutionLockAssumption DEF LockTypeOK, HoldersHaveTheFile
<1>1. ASSUME NEW e \in Owners, Begin(e) PROVE HoldersHaveTheFile'
  BY <1>1 DEF Begin
<1>2. ASSUME NEW e \in Owners, TryCreate(e) PROVE HoldersHaveTheFile'
  BY <1>2 DEF TryCreate
<1>3. ASSUME NEW e \in Owners, TryFails(e) \/ Retry(e) \/ TimeOut(e) \/ Judge(e)
                              \/ JudgeSlowly(e) \/ ForceReleaseFails(e) \/ Refuse(e)
                              \/ UnlinkFails(e)
      PROVE HoldersHaveTheFile'
  BY <1>3 DEF TryFails, Retry, TimeOut, Judge, JudgeSlowly, ForceReleaseFails, Refuse, UnlinkFails
<1>4. ASSUME NEW e \in Owners, WriteMetadata(e) \/ MetadataFails(e) PROVE HoldersHaveTheFile'
  BY <1>4 DEF WriteMetadata, MetadataFails
<1>5. ASSUME NEW e \in Owners, ForceRelease(e) PROVE HoldersHaveTheFile'
  <2>1. CASE place[creator] # "dead"
    BY <1>5, <2>1 DEF ForceRelease
  <2>2. CASE place[creator] = "dead"
    <3>1. misfired \/ \A d \in Owners : place[d] \notin {"writing", "held", "unlinking"}
      BY <2>2
    <3> QED
      BY <1>5, <3>1 DEF ForceRelease
  <2> QED
    BY <2>1, <2>2
<1>6. ASSUME NEW e \in Owners, CheckOwner(e) PROVE HoldersHaveTheFile'
  BY <1>6 DEF CheckOwner
<1>7. ASSUME NEW e \in Owners, Unlink(e) PROVE HoldersHaveTheFile'
  BY <1>7 DEF Unlink
<1>8. ASSUME NEW e \in Owners, Die(e) PROVE HoldersHaveTheFile'
  BY <1>8 DEF Die
<1>9. CASE GetsOld \/ UNCHANGED lockVars
  BY <1>9 DEF GetsOld
<1> QED
  BY <1>1, <1>2, <1>3, <1>4, <1>5, <1>6, <1>7, <1>8, <1>9 DEF LockNext, Acquire, GiveBack

\* A cleanup has a reason, which stays; a dead process has been counted.
LEMMA CauseStep ==
  LockInv /\ [LockNext]_lockVars => CleanersHaveCause' /\ DeadAreCounted' /\ MisfireHasCause'
<1> DEFINE Good == CleanersHaveCause /\ DeadAreCounted /\ MisfireHasCause
<1> SUFFICES ASSUME LockTypeOK, Good, [LockNext]_lockVars PROVE Good'
  BY DEF LockInv
<1> USE ExecutionLockAssumption
        DEF LockTypeOK, CleanersHaveCause, DeadAreCounted, MisfireHasCause
<1>1. ASSUME NEW e \in Owners, Judge(e) PROVE Good'
  <2>1. CASE IsStale
    <3>1. Windows /\ deaths + slowLookups > 0
      BY <2>1 DEF IsStale
    <3> QED
      BY <1>1, <3>1 DEF Judge
  <2>2. CASE ~IsStale
    BY <1>1, <2>2 DEF Judge
  <2> QED
    BY <2>1, <2>2
<1>2. ASSUME NEW e \in Owners, JudgeSlowly(e) PROVE Good'
  BY <1>2 DEF JudgeSlowly
<1>3. ASSUME NEW e \in Owners, ForceRelease(e) PROVE Good'
  BY <1>3 DEF ForceRelease
<1>4. ASSUME NEW e \in Owners, Die(e) PROVE Good'
  BY <1>4 DEF Die
<1>5. ASSUME NEW e \in Owners, Begin(e) \/ TryCreate(e) \/ TryFails(e) \/ WriteMetadata(e)
                              \/ MetadataFails(e) \/ Retry(e) \/ TimeOut(e)
      PROVE Good'
  BY <1>5 DEF Begin, TryCreate, TryFails, WriteMetadata, MetadataFails, Retry, TimeOut
<1>6. ASSUME NEW e \in Owners, ForceReleaseFails(e) \/ Refuse(e) \/ CheckOwner(e) \/ Unlink(e)
                              \/ UnlinkFails(e)
      PROVE Good'
  BY <1>6 DEF ForceReleaseFails, Refuse, CheckOwner, Unlink, UnlinkFails
<1>7. CASE GetsOld \/ UNCHANGED lockVars
  BY <1>7 DEF GetsOld
<1> QED
  BY <1>1, <1>2, <1>3, <1>4, <1>5, <1>6, <1>7 DEF LockNext, Acquire, GiveBack

\* LockInv holds in every reachable state.
THEOREM LockInductive == LockSpec => []LockInv
<1>1. LockInv /\ [LockNext]_lockVars => LockInv'
  BY LockTypeStep, HoldersStep, CauseStep DEF LockInv
<1> QED
  BY LockInitIsGood, <1>1, PTL DEF LockSpec

\* Every variable of the lock file stays in its domain.
THEOREM LockTypeCorrect == LockSpec => []LockTypeOK
<1>1. LockInv => LockTypeOK
  BY DEF LockInv
<1> QED
  BY LockInductive, <1>1, PTL

\* Two executions hold the lock at once only after a cleanup that removed the
\* lock of a live process.
THEOREM Exclusive == LockSpec => []ExclusiveUnlessMisfired
<1>1. LockInv => ExclusiveUnlessMisfired
  BY DEF LockInv, HoldersHaveTheFile, ExclusiveUnlessMisfired, OneHolder
<1> QED
  BY LockInductive, <1>1, PTL

\* Such a cleanup takes Windows, and a process that died or a lookup that timed out.
THEOREM MisfiresHaveACause == LockSpec => []MisfireHasCause
<1>1. LockInv => MisfireHasCause
  BY DEF LockInv
<1> QED
  BY LockInductive, <1>1, PTL

\* On Unix, where no cleanup happens, two executions never hold the lock at once.
THEOREM ExclusiveOnUnix == ~Windows => (LockSpec => []OneHolder)
<1> SUFFICES ASSUME ~Windows PROVE LockSpec => []OneHolder
  OBVIOUS
<1>1. LockInv => OneHolder
  BY DEF LockInv, HoldersHaveTheFile, MisfireHasCause, OneHolder
<1> QED
  BY LockInductive, <1>1, PTL

\* Nobody holds the lock that an execution is about to take.
LEMMA LeaseStep ==
  ASSUME ~Windows, LockInv, [LockNext]_lockVars
  PROVE  [Lease!Next]_Holders
<1> USE DEF LockInv, LockTypeOK, Holders
<1>1. ASSUME NEW e \in Owners, WriteMetadata(e) PROVE Lease!Next
  <2>1. \A d \in Owners : place[d] # "held"
    BY <1>1 DEF WriteMetadata, HoldersHaveTheFile, MisfireHasCause
  <2>2. Holders["workspace"] = {} /\ Holders' = [Holders EXCEPT !["workspace"] = {e}]
    BY <1>1, <2>1 DEF WriteMetadata
  <2> QED
    BY <2>2 DEF Lease!Next, Lease!Acquire
<1>2. CASE \A e \in Owners : ~WriteMetadata(e)
  <2>1. \A e \in Owners : place'[e] = "held" => place[e] = "held"
    BY <1>2 DEF LockNext, Acquire, GiveBack, Begin, TryCreate, TryFails, MetadataFails, Retry, TimeOut,
       Judge, JudgeSlowly, ForceRelease, ForceReleaseFails, Refuse, CheckOwner, Unlink,
       UnlinkFails, Die, GetsOld
  <2> QED
    BY <2>1 DEF Lease!Next, Lease!Lose
<1> QED
  BY <1>1, <1>2

\* On Unix the lock file implements the exclusive lease of the workspace that
\* execution_lock.py promises.
THEOREM OnUnixImplementsLease == ~Windows => (LockSpec => OneExecutionAtATime)
<1> SUFFICES ASSUME ~Windows PROVE LockSpec => OneExecutionAtATime
  OBVIOUS
<1>1. LockInit => Lease!Init
  BY DEF LockInit, Lease!Init, Holders
<1>2. LockInv /\ [LockNext]_lockVars => [Lease!Next]_Holders
  BY LeaseStep
<1> QED
  BY LockInductive, <1>1, <1>2, PTL DEF LockSpec, OneExecutionAtATime, Lease!Spec

-----------------------------------------------------------------------------
(* The records of executions                                               *)

\* The stages of an execution that has a row.
Inserted == Executing \ {"preparing"}

\* One process executes at a time, and then the last execution is its own.
OneExecutes ==
    /\ \A p, q \in Procs : At(p, Executing) /\ At(q, Executing) => p = q
    /\ Busy => rows # <<>>

\* The row of the execution under way is pending, and so are those that were lost.
RowIsOpen(e) == e \in Recorded(rows) /\ rows[e].status = "pending"

PendingRows ==
    /\ \A e \in DOMAIN rows :
          RowIsOpen(e) <=> e \in lost \/ (e = Newest /\ \E p \in Procs : At(p, Inserted))
    /\ \A p \in Procs : At(p, Executing) => Newest \notin lost
    /\ \A p \in Procs : At(p, {"preparing"}) => rows[Newest] = None

\* What an execution has written and found out by each stage.
ProgressMade ==
    /\ open => step # 0
    /\ \A p \in Procs :
        /\ At(p, Inserted) => dirs[Newest].inputs = 3
        /\ At(p, {"reported"}) => dirs[Newest].report = "completed"
        /\ At(p, {"reporting", "closing"}) => status \in Failed
        /\ At(p, {"closing"}) => dirs[Newest].report = status

\* The events of an execution are about the steps it has begun, and none says that a step
\* failed before the handler says so.
EventsAreBehind ==
    \A p \in Procs : At(p, {"preparing", "running", "reported", "raised"}) =>
        \A i \in DOMAIN dirs[Newest].events :
            LET event == dirs[Newest].events[i]
            IN  /\ event.step <= step
                /\ event.kind # "failed"
                /\ open /\ event.step = step => event.kind = "start"

\* A repair is suggested for a failure, which keeps its row.
RepairsAreOfFailures ==
    \A e \in DOMAIN dirs : dirs[e].repair # None =>
        /\ e \in WithStatus(rows, Failed)
        /\ dirs[e].repair.evidence # None => dirs[e].repair.evidence \in Recorded(rows)

\* One process adds the columns, in their order; when nobody does, all of them are there or
\* none is, unless a migration was left half way.
ColumnsInOrder ==
    /\ \A p \in Procs : column[p] > 1 =>
          At(p, {"altering"}) /\ columns = {GraphColumns[i] : i \in 1..(column[p] - 1)}
    /\ \A p, q \in Procs : column[p] > 1 /\ column[q] > 1 => p = q
    /\ (\A p \in Procs : column[p] = 1) => columns \in {{}, AllColumns} \/ torn
    /\ columns # {} => "correlation_id" \in columns
    /\ version = 1 \/ (\E p \in Procs : At(p, {"recording"})) => columns # {}

RecordsInv ==
    /\ RecordsTypeOK /\ OneExecutes /\ PendingRows /\ ProgressMade
    /\ EndedIsReported /\ EventsAreBehind /\ EventsInOrder
    /\ RepairsAreOfFailures /\ RepairIsGrounded
    /\ ColumnsInOrder

LEMMA PathsAreFinite ==
  ASSUME NEW r \in Requests
  PROVE  IsFiniteSet(r.paths) /\ r.checks \subseteq {2, 5, 6}
BY HistoryAssumption DEF HistoryAssumption

\* What two sets of paths score is a number: the quotient is taken only if there is a path.
LEMMA PathScoreType ==
  ASSUME NEW a, NEW b, IsFiniteSet(a), IsFiniteSet(b)
  PROVE  PathScore(a, b) \in Int
<1>1. CASE a \cup b = {}
  BY <1>1 DEF PathScore
<1>2. CASE a \cup b # {}
  <2>1. IsFiniteSet(a \cup b) /\ IsFiniteSet(a \cap b)
    BY FS_Union, FS_Intersection
  <2>2. Cardinality(a \cup b) \in Nat /\ Cardinality(a \cap b) \in Nat
    BY <2>1, FS_CardinalityType
  <2>3. Cardinality(a \cup b) # 0
    BY <1>2, <2>1, FS_EmptySet
  <2>4. \A m, n \in Nat : n # 0 => (6 * m) \div n \in Int
    OBVIOUS
  <2>5. PathScore(a, b) = (6 * Cardinality(a \cap b)) \div Cardinality(a \cup b)
    BY <1>2 DEF PathScore
  <2> QED
    BY <2>2, <2>3, <2>4, <2>5
<1> QED
  BY <1>1, <1>2

LEMMA ScoreType ==
  ASSUME NEW a \in Row, NEW b \in Row
  PROVE  Score(a, b) \in Int
<1>1. ErrorScore(a.error, b.error) \in Int
  <2>1. a.error \in {NoError} \cup Errors /\ b.error \in {NoError} \cup Errors
    BY DEF Row
  <2>2. \A i, j \in Errors : ErrorAlike[<<i, j>>] \in 0..10
    BY HistoryAssumption DEF HistoryAssumption
  <2> QED
    BY <2>1, <2>2 DEF ErrorScore
<1>2. PathScore(a.request.paths, b.request.paths) \in Int
  <2>1. a.request \in Requests /\ b.request \in Requests
    BY DEF Row
  <2> QED
    BY <2>1, PathsAreFinite, PathScoreType
<1>3. Same(a.status, b.status) \in Int /\ Same(a.request.verdict, b.request.verdict) \in Int
  BY DEF Same
<1> QED
  BY <1>1, <1>2, <1>3 DEF Score

\* Best first is a strict order, and a total one.
LEMMA PrecedesIsAnOrder ==
  ASSUME NEW table \in Seq(Row \cup {None}), NEW e \in Recorded(table)
  PROVE  /\ \A c \in Recorded(table) : ~Precedes(table, e, c, c)
         /\ \A c, d \in Recorded(table) :
               c # d => Precedes(table, e, c, d) \/ Precedes(table, e, d, c)
         /\ \A c, d, f \in Recorded(table) :
               Precedes(table, e, c, d) /\ Precedes(table, e, d, f) => Precedes(table, e, c, f)
<1> DEFINE Rank(c) == Score(table[e], table[c])
<1>1. \A c \in Recorded(table) : c \in Nat /\ table[c] \in Row
  BY DEF Recorded
<1>2. \A c \in Recorded(table) : Rank(c) \in Int
  BY <1>1, ScoreType
<1>3. \A c, d : Precedes(table, e, c, d) <=> Rank(c) > Rank(d) \/ (Rank(c) = Rank(d) /\ c > d)
  BY DEF Precedes
<1> HIDE DEF Rank
<1>4. \A c \in Recorded(table) : ~Precedes(table, e, c, c)
  BY <1>1, <1>2, <1>3
<1>5. \A c, d \in Recorded(table) :
         c # d => Precedes(table, e, c, d) \/ Precedes(table, e, d, c)
  BY <1>1, <1>2, <1>3
<1>6. \A c, d, f \in Recorded(table) :
         Precedes(table, e, c, d) /\ Precedes(table, e, d, f) => Precedes(table, e, c, f)
  BY <1>1, <1>2, <1>3
<1> QED
  BY <1>4, <1>5, <1>6

\* Among finitely many successes one precedes all others, so the choice of the evidence is
\* one of them: where what precedes a candidate is smallest, nothing precedes it.
LEMMA EvidenceIsASuccess ==
  ASSUME NEW table \in Seq(Row \cup {None}), NEW e \in Recorded(table),
         Successes(table, e) # {}
  PROVE  Evidence(table, e) \in Successes(table, e)
<1> DEFINE S == Successes(table, e)
           Before(c) == {d \in S : Precedes(table, e, d, c)}
           All == {Before(c) : c \in S}
<1>1. S \subseteq Recorded(table) /\ Recorded(table) \subseteq 1..Len(table)
  BY DEF Successes, Similar, Matches, Recorded
<1>2. IsFiniteSet(S)
  BY <1>1, FS_Interval, FS_Subset
<1>3. All \subseteq FiniteSubsetsOf(S) /\ All # {}
  <2>1. \A c \in S : Before(c) \subseteq S /\ IsFiniteSet(Before(c))
    BY <1>2, FS_Subset
  <2> QED
    BY <2>1 DEF FiniteSubsetsOf
<1>4. PICK x \in All : \A y \in All : <<y, x>> \notin StrictSubsetOrdering(S)
  BY <1>3, FS_StrictSubsetOrderingWellFounded, WFMin
<1>5. PICK c \in S : x = Before(c)
  BY <1>4
<1>6. ASSUME NEW d \in S, Precedes(table, e, d, c) PROVE FALSE
  <2>1. Before(d) \subseteq Before(c) /\ d \in Before(c) /\ d \notin Before(d)
    BY <1>1, <1>6, PrecedesIsAnOrder
  <2>2. <<Before(d), Before(c)>> \in StrictSubsetOrdering(S)
    BY <2>1 DEF StrictSubsetOrdering
  <2> QED
    BY <2>2, <1>4, <1>5
<1>7. \A d \in S \ {c} : Precedes(table, e, c, d)
  BY <1>1, <1>5, <1>6, PrecedesIsAnOrder
<1> QED
  BY <1>5, <1>7 DEF Evidence


USE DEF At, Proceeds, Newest, Migrating, Executing, schema, locals, recordsVars

\* What the invariant says about table and directories, in the form the steps need.
LEMMA RecordsFacts ==
  ASSUME RecordsInv
  PROVE  /\ rows \in Seq(Row \cup {None}) /\ dirs \in Seq(Dir)
         /\ Newest \in Nat /\ Len(dirs) = Newest
         /\ DOMAIN rows = 1..Newest /\ DOMAIN dirs = 1..Newest
         /\ \A e \in 1..Newest : /\ dirs[e] \in Dir
                                 /\ rows[e] # None => rows[e] \in Row
         /\ \A p \in Procs : At(p, Executing) => Newest \in 1..Newest
<1>1. rows \in Seq(Row \cup {None}) /\ dirs \in Seq(Dir) /\ Len(dirs) = Newest
  BY DEF RecordsInv, RecordsTypeOK
<1>2. \A p \in Procs : At(p, Executing) => Newest # 0
  BY <1>1, EmptySeq DEF RecordsInv, OneExecutes, Busy
<1> QED
  BY <1>1, <1>2

LEMMA EmptyDirType == EmptyDir \in Dir
<1>1. <<>> \in Seq(Event)
  OBVIOUS
<1> QED
  BY <1>1 DEF EmptyDir, Dir

LEMMA ChosenRequest == (CHOOSE r \in Requests : TRUE) \in Requests
BY RecordsAssumption DEF RecordsAssumption

LEMMA TroubleType ==
  ASSUME RecordsInv, Trouble \/ UNCHANGED troubles
  PROVE  troubles' \in 0..MaxEvents
<1>1. troubles \in 0..MaxEvents /\ MaxEvents \in Nat /\ Newest \in Nat
  BY RecordsAssumption DEF RecordsInv, RecordsTypeOK, RecordsAssumption
<1> QED
  BY <1>1 DEF Trouble, MayHappen

\* The two ways in which the table changes in a place: a pending row is inserted, or closed.
LEMMA InsertEffect ==
  ASSUME RecordsInv, NEW p \in Procs, InsertRoot(p) \/ InsertChild(p)
  PROVE  \E rec \in Row : /\ rec.status = "pending"
                          /\ rows' = [rows EXCEPT ![Newest] = rec]
<1>1. PICK parent, chain : Insert(p, parent, chain) /\ parent \in Ids \cup {None} /\ chain \in Ids
  <2>1. CASE InsertRoot(p)
    <3>1. Insert(p, None, Newest) /\ Newest \in Ids
      BY <2>1, RecordsFacts DEF InsertRoot, Insert, Ids
    <3> QED
      BY <3>1
  <2>2. CASE InsertChild(p)
    <3>1. PICK parent \in Recorded(rows) : Insert(p, parent, rows[parent].chain)
      BY <2>2 DEF InsertChild
    <3>2. parent \in Ids /\ rows[parent] \in Row
      BY RecordsFacts DEF Recorded, Ids
    <3> QED
      BY <3>1, <3>2 DEF Row
  <2> QED
    BY <2>1, <2>2
<1>2. NewRow(parent, chain) \in Row /\ NewRow(parent, chain).status = "pending"
  BY <1>1 DEF NewRow, Row, RecordsInv, RecordsTypeOK
<1> QED
  BY <1>1, <1>2 DEF Insert

LEMMA CloseEffect ==
  ASSUME RecordsInv, NEW p \in Procs, CloseRow(p) \/ CloseFailedRow(p)
  PROVE  /\ rows[Newest].status = "pending" /\ rows[Newest] \in Row
         /\ \E rec \in Row : /\ rec.status \in Ended /\ rec.status = dirs[Newest].report
                             /\ CloseRow(p) => rec.status = "completed"
                             /\ CloseFailedRow(p) => rec.status \in Failed
                             /\ rows' = [rows EXCEPT ![Newest] = rec]
<1> DEFINE Closed(s, e) == [rows[Newest] EXCEPT !.status = s, !.error = e,
                                                !.undone = s = "rolled_back"]
<1>1. At(p, {"reported", "closing"}) /\ Newest \in 1..Newest
  BY RecordsFacts DEF CloseRow, CloseFailedRow
<1>2. rows[Newest] # None /\ rows[Newest].status = "pending"
  BY <1>1, RecordsFacts DEF RecordsInv, PendingRows, Inserted, RowIsOpen, Recorded
<1>3. rows[Newest] \in Row
  BY <1>1, <1>2, RecordsFacts
<1>4. PICK s \in Ended, e \in {NoError} \cup Errors :
         /\ Close(s, e) /\ s = dirs[Newest].report
         /\ CloseRow(p) => s = "completed"
         /\ CloseFailedRow(p) => s \in Failed
  <2>1. CASE CloseRow(p)
    <3>1. Close("completed", NoError) /\ dirs[Newest].report = "completed" /\ ~CloseFailedRow(p)
      BY <2>1 DEF CloseRow, CloseFailedRow, RecordsInv, ProgressMade
    <3> QED
      BY <3>1 DEF Ended
  <2>2. CASE CloseFailedRow(p)
    <3>1. Close(status, error) /\ dirs[Newest].report = status /\ status \in Failed
          /\ ~CloseRow(p) /\ error \in {NoError} \cup Errors
      BY <2>2 DEF CloseRow, CloseFailedRow, RecordsInv, RecordsTypeOK, ProgressMade
    <3> QED
      BY <3>1 DEF Ended, Failed
  <2> QED
    BY <2>1, <2>2
<1>5. Closed(s, e) \in Row /\ Closed(s, e).status = s
  BY <1>3, <1>4 DEF Row
<1>6. rows' = [rows EXCEPT ![Newest] = Closed(s, e)]
  BY <1>4 DEF Close
<1> QED
  BY <1>2, <1>3, <1>4, <1>5, <1>6

\* Which actions change the table, and that it only grows: rows of executions that ended stay.
LEMMA RowsStep ==
  ASSUME RecordsInv, [RecordsNext]_recordsVars
  PROVE  \/ UNCHANGED rows
         \/ \E p \in Procs : BeginExecution(p)
         \/ \E p \in Procs : InsertRoot(p) \/ InsertChild(p)
         \/ \E p \in Procs : CloseRow(p) \/ CloseFailedRow(p)
<1>1. CASE UNCHANGED recordsVars
  BY <1>1
<1>2. ASSUME NEW p \in Procs,
             Open(p) \/ Migrate(p) \/ Try(p) \/ Handle(p) \/ SuggestRepair(p) \/ ProcessDies(p)
      PROVE  UNCHANGED rows \/ CloseRow(p) \/ CloseFailedRow(p)
  BY <1>2 DEF Open, Migrate, Inspect, AddColumn, RecordVersion, MigrationFails, Try, StartStep,
              EndStep, BackUpStep, StepFails, Breaks, WriteReport, TearReport, Handle, EndFailedStep,
              RollBack, ReportFailure, HandlerBreaks, SuggestRepair, ProcessDies
<1>3. ASSUME NEW p \in Procs, Prepare(p)
      PROVE  UNCHANGED rows \/ InsertRoot(p) \/ InsertChild(p)
  BY <1>3 DEF Prepare, WriteInput, NeverStarts
<1> QED
  BY <1>1, <1>2, <1>3 DEF RecordsNext, Work

\* Which actions change the directories, and which part.
Writes(p) ==
    \/ WriteInput(p)
    \/ \E event \in Event : dirs' = [dirs EXCEPT ![Newest].events = Append(@, event)]
    \/ \E s \in Ended \cup {"torn"} : dirs' = [dirs EXCEPT ![Newest].report = s]

LEMMA DirsStep ==
  ASSUME RecordsInv, [RecordsNext]_recordsVars
  PROVE  \/ UNCHANGED dirs
         \/ \E p \in Procs : BeginExecution(p)
         \/ \E p \in Procs : SuggestRepair(p)
         \/ \E p \in Procs : At(p, Executing) /\ Writes(p)
<1>1. CASE UNCHANGED recordsVars
  BY <1>1
<1>2. ASSUME NEW p \in Procs,
             \/ Open(p) \/ Migrate(p) \/ InsertRoot(p) \/ InsertChild(p) \/ NeverStarts(p)
             \/ BackUpStep(p) \/ StepFails(p) \/ Breaks(p) \/ CloseRow(p)
             \/ RollBack(p) \/ CloseFailedRow(p)
      PROVE  UNCHANGED dirs
  BY <1>2 DEF Open, Migrate, Inspect, AddColumn, RecordVersion, MigrationFails, InsertRoot,
              InsertChild, Insert, NeverStarts, BackUpStep, StepFails, Breaks, CloseRow,
              RollBack, CloseFailedRow
<1>3. ASSUME NEW p \in Procs, WriteInput(p)
      PROVE  At(p, Executing) /\ Writes(p)
  BY <1>3 DEF WriteInput, Writes
<1>4. ASSUME NEW p \in Procs, StartStep(p) \/ EndStep(p) \/ EndFailedStep(p)
      PROVE  At(p, Executing) /\ (UNCHANGED dirs \/ Writes(p))
  <2>1. PICK kind \in {"start", "ok", "failed"}, n \in Steps : Emit(kind, n) \/ UNCHANGED dirs
    <3>1. step \in 0..6 /\ (open => step # 0) /\ open \in BOOLEAN
      BY DEF RecordsInv, RecordsTypeOK, ProgressMade
    <3>2. CASE StartStep(p)
      <4>1. Emit("start", step + 1) /\ step + 1 \in Steps
        BY <3>1, <3>2 DEF StartStep, Steps
      <4> QED
        BY <4>1
    <3>3. CASE EndStep(p)
      <4>1. Emit("ok", step) /\ step \in Steps
        BY <3>1, <3>3 DEF EndStep, Steps
      <4> QED
        BY <4>1
    <3>4. CASE EndFailedStep(p)
      <4>1. CASE open
        <5>1. Emit("failed", step) /\ step \in Steps
          BY <3>1, <3>4, <4>1 DEF EndFailedStep, Steps
        <5> QED
          BY <5>1
      <4>2. CASE ~open
        BY <3>4, <4>2 DEF EndFailedStep, Steps
      <4> QED
        BY <4>1, <4>2
    <3> QED
      BY <1>4, <3>2, <3>3, <3>4
  <2>2. [kind |-> kind, step |-> n] \in Event
    BY DEF Event
  <2>3. At(p, Executing)
    BY <1>4 DEF StartStep, EndStep, EndFailedStep
  <2> QED
    BY <2>1, <2>2, <2>3 DEF Emit, Writes
<1>5. ASSUME NEW p \in Procs,
             WriteReport(p) \/ TearReport(p) \/ ReportFailure(p) \/ HandlerBreaks(p)
      PROVE  At(p, Executing) /\ (UNCHANGED dirs \/ Writes(p))
  <2>1. At(p, Executing)
    BY <1>5 DEF WriteReport, TearReport, ReportFailure, HandlerBreaks, Ready
  <2>2. UNCHANGED dirs \/ \E s \in Ended \cup {"torn"} : Report(s)
    <3>1. CASE WriteReport(p)
      BY <3>1 DEF WriteReport, Ended
    <3>2. CASE TearReport(p)
      BY <3>2 DEF TearReport, Ended
    <3>3. CASE ReportFailure(p)
      BY <3>3 DEF ReportFailure, Ended, Failed, RecordsInv, ProgressMade
    <3>4. CASE HandlerBreaks(p)
      BY <3>4 DEF HandlerBreaks, Ended
    <3> QED
      BY <1>5, <3>1, <3>2, <3>3, <3>4
  <2> QED
    BY <2>1, <2>2 DEF Report, Writes
<1>6. ASSUME NEW p \in Procs, ProcessDies(p)
      PROVE  UNCHANGED dirs \/ (At(p, Executing) /\ Writes(p))
  <2>1. UNCHANGED dirs \/ (At(p, Executing) /\ Report("torn"))
    BY <1>6 DEF ProcessDies, Ready, MayTear
  <2> QED
    BY <2>1 DEF Report, Writes
<1> QED
  BY <1>1, <1>2, <1>3, <1>4, <1>5, <1>6 DEF RecordsNext, Work, Prepare, Try, Handle

\* A write replaces the last directory, and leaves its repair.
LEMMA WriteEffect ==
  ASSUME RecordsInv, NEW p \in Procs, At(p, Executing), Writes(p)
  PROVE  \E d \in Dir : d.repair = dirs[Newest].repair /\ dirs' = [dirs EXCEPT ![Newest] = d]
<1>1. Newest \in 1..Newest /\ dirs[Newest] \in Dir
  BY RecordsFacts
<1>2. CASE WriteInput(p)
  <2>1. dirs' = [dirs EXCEPT ![Newest] = [dirs[Newest] EXCEPT !.inputs = @ + 1]]
    BY <1>2 DEF WriteInput
  <2>2. [dirs[Newest] EXCEPT !.inputs = @ + 1] \in Dir
    BY <1>1, <1>2 DEF WriteInput, Dir
  <2> QED
    BY <1>1, <2>1, <2>2 DEF Dir
<1>3. ASSUME NEW event \in Event, dirs' = [dirs EXCEPT ![Newest].events = Append(@, event)]
      PROVE  \E d \in Dir : d.repair = dirs[Newest].repair /\ dirs' = [dirs EXCEPT ![Newest] = d]
  <2>1. dirs' = [dirs EXCEPT ![Newest] =
                   [dirs[Newest] EXCEPT !.events = Append(dirs[Newest].events, event)]]
    BY <1>3
  <2>2. Append(dirs[Newest].events, event) \in Seq(Event)
    BY <1>1 DEF Dir
  <2>3. [dirs[Newest] EXCEPT !.events = Append(dirs[Newest].events, event)] \in Dir
    BY <1>1, <2>2 DEF Dir
  <2> QED
    BY <1>1, <2>1, <2>3 DEF Dir
<1>4. ASSUME NEW s \in Ended \cup {"torn"}, dirs' = [dirs EXCEPT ![Newest].report = s]
      PROVE  \E d \in Dir : d.repair = dirs[Newest].repair /\ dirs' = [dirs EXCEPT ![Newest] = d]
  <2>1. dirs' = [dirs EXCEPT ![Newest] = [dirs[Newest] EXCEPT !.report = s]]
    BY <1>4
  <2>2. [dirs[Newest] EXCEPT !.report = s] \in Dir
    BY <1>1 DEF Dir
  <2> QED
    BY <1>1, <2>1, <2>2 DEF Dir
<1> QED
  BY <1>2, <1>3, <1>4 DEF Writes

\* A suggestion replaces the repair of a failure, and nothing else.
LEMMA SuggestEffect ==
  ASSUME RecordsInv, NEW p \in Procs, SuggestRepair(p)
  PROVE  \E e \in WithStatus(rows, Failed) :
            /\ e \in 1..Newest /\ Proposal(e) \in Repair
            /\ Proposal(e).evidence # None => Proposal(e).evidence \in Successes(rows, e)
            /\ dirs' = [dirs EXCEPT ![e] = [dirs[e] EXCEPT !.repair = Proposal(e)]]
            /\ [dirs[e] EXCEPT !.repair = Proposal(e)] \in Dir
<1>1. PICK e \in WithStatus(rows, Failed) : dirs' = [dirs EXCEPT ![e].repair = Proposal(e)]
  BY DEF SuggestRepair
<1>2. e \in Recorded(rows) /\ e \in 1..Newest /\ dirs[e] \in Dir
  BY RecordsFacts DEF WithStatus, Recorded
<1>3. Evidence(rows, e) = None \/ Evidence(rows, e) \in Successes(rows, e)
  BY <1>2, RecordsFacts, EvidenceIsASuccess DEF Evidence
<1>4. Successes(rows, e) \subseteq Ids
  BY RecordsFacts DEF Successes, WithStatus, Recorded, Ids
<1>5. Proposal(e) \in Repair /\ Proposal(e).evidence = Evidence(rows, e)
  BY <1>3, <1>4 DEF Proposal, HasPlan, Repair
<1>6. [dirs[e] EXCEPT !.repair = Proposal(e)] \in Dir
  BY <1>2, <1>5 DEF Dir
<1> QED
  BY <1>1, <1>2, <1>3, <1>5, <1>6

\* Table and directories grow together, and only the last execution is written to while it
\* is under way.
LEMMA RowsAreKept ==
  ASSUME RecordsInv, [RecordsNext]_recordsVars
  PROVE  /\ rows' \in Seq(Row \cup {None})
         /\ \/ Newest' = Newest
            \/ \E p \in Procs : BeginExecution(p) /\ Newest' = Newest + 1 /\ rows'[Newest'] = None
         /\ \A e \in 1..Newest : rows'[e] = rows[e] \/ (e = Newest /\ Busy)
<1>1. CASE UNCHANGED rows
  BY <1>1, RecordsFacts
<1>2. ASSUME NEW p \in Procs, BeginExecution(p)
      PROVE  /\ rows' \in Seq(Row \cup {None})
             /\ Newest' = Newest + 1 /\ rows'[Newest'] = None
             /\ \A e \in 1..Newest : rows'[e] = rows[e]
  <2>1. rows' = Append(rows, None)
    BY <1>2 DEF BeginExecution
  <2>2. rows \in Seq(Row \cup {None}) /\ None \in Row \cup {None}
    BY RecordsFacts
  <2> QED
    BY <2>1, <2>2, AppendProperties
<1>3. ASSUME NEW p \in Procs, At(p, Executing),
             NEW rec \in Row, rows' = [rows EXCEPT ![Newest] = rec]
      PROVE  /\ rows' \in Seq(Row \cup {None}) /\ Newest' = Newest /\ Busy
             /\ \A e \in 1..Newest : e # Newest => rows'[e] = rows[e]
  <2>1. Newest \in 1..Newest /\ Busy /\ rows \in Seq(Row \cup {None})
    BY <1>3, RecordsFacts DEF Busy
  <2> QED
    BY <1>3, <2>1, ExceptSeq
<1>4. ASSUME NEW p \in Procs, InsertRoot(p) \/ InsertChild(p)
      PROVE  At(p, Executing) /\ \E rec \in Row : rows' = [rows EXCEPT ![Newest] = rec]
  BY <1>4, InsertEffect DEF InsertRoot, InsertChild, Insert
<1>5. ASSUME NEW p \in Procs, CloseRow(p) \/ CloseFailedRow(p)
      PROVE  At(p, Executing) /\ \E rec \in Row : rows' = [rows EXCEPT ![Newest] = rec]
  BY <1>5, CloseEffect DEF CloseRow, CloseFailedRow
<1> QED
  BY <1>1, <1>2, <1>3, <1>4, <1>5, RowsStep

LEMMA DirsAreKept ==
  ASSUME RecordsInv, [RecordsNext]_recordsVars
  PROVE  /\ dirs' \in Seq(Dir) /\ Len(dirs') = Newest'
         /\ Newest' # Newest => dirs'[Newest'] = EmptyDir
         /\ \A e \in 1..Newest :
               \/ (e = Newest /\ Busy)
               \/ /\ dirs'[e].inputs = dirs[e].inputs /\ dirs'[e].events = dirs[e].events
                  /\ dirs'[e].report = dirs[e].report
         /\ \A e \in 1..Newest :
               dirs'[e].repair = dirs[e].repair \/ \E p \in Procs : SuggestRepair(p)
<1>1. ASSUME NEW p \in Procs, BeginExecution(p)
      PROVE  /\ dirs' \in Seq(Dir) /\ Len(dirs') = Newest'
             /\ dirs'[Newest'] = EmptyDir /\ \A e \in 1..Newest : dirs'[e] = dirs[e]
  <2>1. dirs' = Append(dirs, EmptyDir) /\ rows' = Append(rows, None)
    BY <1>1 DEF BeginExecution
  <2>2. rows \in Seq(Row \cup {None}) /\ dirs \in Seq(Dir) /\ Len(dirs) = Newest
        /\ EmptyDir \in Dir /\ None \in Row \cup {None}
    BY RecordsFacts, EmptyDirType
  <2>3. Len(rows') = Newest + 1
    BY <2>1, <2>2, AppendProperties
  <2> QED
    BY <2>1, <2>2, <2>3, AppendProperties
<1>2. CASE \A p \in Procs : ~BeginExecution(p)
  <2>1. Newest' = Newest
    BY <1>2, RowsAreKept
  <2>2. CASE UNCHANGED dirs
    BY <2>1, <2>2, RecordsFacts
  <2>3. ASSUME NEW p \in Procs, SuggestRepair(p)
        PROVE  /\ dirs' \in Seq(Dir) /\ Len(dirs') = Newest
               /\ \A e \in 1..Newest :
                     /\ dirs'[e].inputs = dirs[e].inputs /\ dirs'[e].events = dirs[e].events
                     /\ dirs'[e].report = dirs[e].report
    <3>1. PICK f \in 1..Newest, r \in Repair :
             /\ dirs' = [dirs EXCEPT ![f] = [dirs[f] EXCEPT !.repair = r]]
             /\ [dirs[f] EXCEPT !.repair = r] \in Dir
      BY <2>3, SuggestEffect
    <3>2. /\ dirs' \in Seq(Dir) /\ Len(dirs') = Newest
          /\ dirs'[f] = [dirs[f] EXCEPT !.repair = r]
          /\ \A e \in 1..Newest : e # f => dirs'[e] = dirs[e]
      BY <3>1, RecordsFacts, ExceptSeq
    <3>3. dirs[f] \in Dir
      BY RecordsFacts
    <3> QED
      BY <3>2, <3>3 DEF Dir
  <2>4. ASSUME NEW p \in Procs, At(p, Executing), Writes(p)
        PROVE  /\ dirs' \in Seq(Dir) /\ Len(dirs') = Newest /\ Busy
               /\ \A e \in 1..Newest : e # Newest => dirs'[e] = dirs[e]
               /\ \A e \in 1..Newest : dirs'[e].repair = dirs[e].repair
    <3>1. PICK d \in Dir : d.repair = dirs[Newest].repair /\ dirs' = [dirs EXCEPT ![Newest] = d]
      BY <2>4, WriteEffect
    <3>2. Newest \in 1..Newest /\ dirs \in Seq(Dir) /\ Len(dirs) = Newest /\ Busy
      BY <2>4, RecordsFacts DEF Busy
    <3>3. /\ dirs' \in Seq(Dir) /\ Len(dirs') = Newest
          /\ dirs'[Newest] = d /\ \A e \in 1..Newest : e # Newest => dirs'[e] = dirs[e]
      BY <3>1, <3>2, ExceptSeq
    <3> QED
      BY <3>1, <3>2, <3>3
  <2> QED
    BY <1>2, <2>1, <2>2, <2>3, <2>4, DirsStep
<1>3. ASSUME NEW p \in Procs, BeginExecution(p)
      PROVE  \A e \in 1..Newest :
               /\ dirs'[e].inputs = dirs[e].inputs /\ dirs'[e].events = dirs[e].events
               /\ dirs'[e].report = dirs[e].report /\ dirs'[e].repair = dirs[e].repair
  BY <1>1, <1>3
<1> QED
  BY <1>1, <1>2, <1>3

\* The stage of a process, and who may be executing afterwards.
LEMMA StageStep ==
  ASSUME RecordsInv, [RecordsNext]_recordsVars
  PROVE  /\ stage' \in [Procs -> {"down", "up"} \cup Migrating \cup Executing]
         /\ \A p \in Procs : stage'[p] \in Executing =>
               At(p, Executing) \/ (BeginExecution(p) /\ ~Busy)
<1> DEFINE Stages == {"down", "up"} \cup Migrating \cup Executing
<1>1. stage \in [Procs -> Stages]
  BY DEF RecordsInv, RecordsTypeOK
<1>2. ASSUME NEW p \in Procs, NEW where \in Stages, stage' = [stage EXCEPT ![p] = where],
             where \in Executing => At(p, Executing)
      PROVE  /\ stage' \in [Procs -> Stages]
             /\ \A q \in Procs : stage'[q] \in Executing => At(q, Executing)
  BY <1>1, <1>2
<1>3. CASE UNCHANGED stage
  BY <1>1, <1>3
<1>4. ASSUME NEW p \in Procs, BeginExecution(p)
      PROVE  /\ stage' \in [Procs -> Stages] /\ ~Busy
             /\ \A q \in Procs : stage'[q] \in Executing => At(q, Executing) \/ q = p
  BY <1>1, <1>4 DEF BeginExecution
<1>5. ASSUME NEW p \in Procs, Open(p) \/ Migrate(p) \/ SuggestRepair(p) \/ ProcessDies(p)
      PROVE  \/ UNCHANGED stage
             \/ \E where \in Stages \ Executing : stage' = [stage EXCEPT ![p] = where]
  BY <1>5 DEF Open, Migrate, Inspect, AddColumn, RecordVersion, MigrationFails, SuggestRepair,
              ProcessDies, Leaves
<1>6. ASSUME NEW p \in Procs, Prepare(p) \/ Try(p) \/ Handle(p)
      PROVE  /\ At(p, Executing)
             /\ UNCHANGED stage \/ \E where \in Stages : stage' = [stage EXCEPT ![p] = where]
  BY <1>6 DEF Prepare, WriteInput, InsertRoot, InsertChild, Insert, NeverStarts, Try, StartStep,
              EndStep, BackUpStep, StepFails, Breaks, Raise, Ready, WriteReport, TearReport,
              CloseRow, Handle, EndFailedStep, RollBack, ReportFailure, HandlerBreaks,
              CloseFailedRow, Leaves
<1>7. CASE UNCHANGED recordsVars
  BY <1>3, <1>7
<1> QED
  BY <1>2, <1>3, <1>4, <1>5, <1>6, <1>7 DEF RecordsNext, Work

\* The part of the schema, the locals of the execution, what is lost and the bound.
LEMMA SchemaType ==
  ASSUME RecordsInv, [RecordsNext]_recordsVars
  PROVE  /\ columns' \subseteq AllColumns /\ version' \in {0, 1}
         /\ column' \in [Procs -> 1..4] /\ torn' \in BOOLEAN
<1>1. /\ columns \subseteq AllColumns /\ version \in {0, 1}
      /\ column \in [Procs -> 1..4] /\ torn \in BOOLEAN
  BY DEF RecordsInv, RecordsTypeOK
<1>2. ASSUME NEW p \in Procs, AddColumn(p)
      PROVE  /\ columns' \subseteq AllColumns /\ column' \in [Procs -> 1..4]
             /\ UNCHANGED <<version, torn>>
  <2>1. GraphColumns[column[p]] \in AllColumns
    BY <1>1 DEF AllColumns
  <2>2. columns' \subseteq columns \cup {GraphColumns[column[p]]} /\ UNCHANGED <<version, torn>>
    BY <1>2 DEF AddColumn
  <2>3. \/ UNCHANGED column
        \/ column' = [column EXCEPT ![p] = 1]
        \/ column[p] # 4 /\ column' = [column EXCEPT ![p] = @ + 1]
    BY <1>2 DEF AddColumn
  <2> QED
    BY <1>1, <2>1, <2>2, <2>3
<1>3. ASSUME NEW p \in Procs, RecordVersion(p)
      PROVE  version' = 1 /\ UNCHANGED <<columns, column, torn>>
  BY <1>3 DEF RecordVersion
<1>4. ASSUME NEW p \in Procs, MigrationFails(p) \/ ProcessDies(p)
      PROVE  /\ column' \in [Procs -> 1..4] /\ torn' \in BOOLEAN
             /\ UNCHANGED <<columns, version>>
  <2>1. /\ column' = [column EXCEPT ![p] = 1] /\ UNCHANGED <<columns, version>>
        /\ torn' = (torn \/ column[p] > 1)
    BY <1>4 DEF MigrationFails, ProcessDies
  <2>2. torn' \in BOOLEAN
    BY <2>1, Zenon
  <2> QED
    BY <1>1, <2>1, <2>2
<1>5. ASSUME NEW p \in Procs,
             \/ Open(p) \/ Inspect(p) \/ Prepare(p) \/ Try(p) \/ Handle(p)
             \/ BeginExecution(p) \/ SuggestRepair(p)
      PROVE  UNCHANGED schema
  BY <1>5 DEF Open, Inspect, Prepare, WriteInput, InsertRoot, InsertChild, Insert, NeverStarts,
              Try, StartStep, EndStep, BackUpStep, StepFails, Breaks, WriteReport,
              TearReport, CloseRow, Handle, EndFailedStep, RollBack, ReportFailure, HandlerBreaks,
              CloseFailedRow, BeginExecution, SuggestRepair
<1>6. CASE UNCHANGED recordsVars
  BY <1>1, <1>6
<1> QED
  BY <1>1, <1>2, <1>3, <1>4, <1>5, <1>6 DEF RecordsNext, Work, Migrate

LEMMA LocalsType ==
  ASSUME RecordsInv, [RecordsNext]_recordsVars
  PROVE  /\ requested' \in Requests /\ step' \in 0..6 /\ open' \in BOOLEAN
         /\ backedUp' \in BOOLEAN /\ error' \in {NoError} \cup Errors
         /\ status' \in {"pending"} \cup Failed
<1> DEFINE Typed == /\ requested \in Requests /\ step \in 0..6 /\ open \in BOOLEAN
                    /\ backedUp \in BOOLEAN /\ error \in {NoError} \cup Errors
                    /\ status \in {"pending"} \cup Failed
<1>1. Typed
  BY DEF RecordsInv, RecordsTypeOK
<1>2. CASE UNCHANGED locals
  BY <1>1, <1>2
<1>3. ASSUME NEW p, NEW where, Leaves(p, where)
      PROVE  Typed'
  <2>1. requested' \in Requests
    BY <1>3, ChosenRequest DEF Leaves
  <2>2. /\ step' \in 0..6 /\ open' \in BOOLEAN /\ backedUp' \in BOOLEAN
        /\ error' \in {NoError} \cup Errors /\ status' \in {"pending"} \cup Failed
    <3>1. /\ step' = 0 /\ open' = FALSE /\ backedUp' = FALSE
          /\ error' = NoError /\ status' = "pending"
      BY <1>3 DEF Leaves
    <3>2. step' \in 0..6 /\ error' \in {NoError} \cup Errors /\ status' \in {"pending"} \cup Failed
      BY <3>1
    <3>3. open' \in BOOLEAN /\ backedUp' \in BOOLEAN
      BY <3>1, Zenon
    <3> QED
      BY <3>2, <3>3
  <2> QED
    BY <2>1, <2>2
<1>4. ASSUME NEW p, BeginExecution(p)
      PROVE  Typed'
  BY <1>1, <1>4 DEF BeginExecution
<1>5. ASSUME NEW p, StartStep(p) \/ EndStep(p) \/ BackUpStep(p) \/ EndFailedStep(p)
      PROVE  Typed'
  <2>1. CASE StartStep(p)
    BY <1>1, <2>1 DEF StartStep
  <2>2. CASE EndStep(p) \/ BackUpStep(p) \/ EndFailedStep(p)
    BY <1>1, <2>2 DEF EndStep, BackUpStep, EndFailedStep
  <2> QED
    BY <1>5, <2>1, <2>2
<1>6. ASSUME NEW p, StepFails(p) \/ Breaks(p) \/ TearReport(p)
      PROVE  Typed'
  <2>1. \E e \in {NoError} \cup Errors : error' = e
    BY <1>1, <1>6 DEF StepFails, Breaks, TearReport, Raise, OtherError, NoError, Errors
  <2>2. UNCHANGED <<requested, step, open, backedUp, status>>
    BY <1>6 DEF StepFails, Breaks, TearReport
  <2> QED
    BY <1>1, <2>1, <2>2
<1>7. ASSUME NEW p, RollBack(p)
      PROVE  Typed'
  BY <1>1, <1>7 DEF RollBack, Failed
<1>8. ASSUME NEW p \in Procs,
             \/ Open(p) \/ Migrate(p) \/ Prepare(p) \/ WriteReport(p) \/ CloseRow(p)
             \/ ReportFailure(p) \/ HandlerBreaks(p) \/ CloseFailedRow(p) \/ SuggestRepair(p)
             \/ ProcessDies(p)
      PROVE  UNCHANGED locals \/ \E where : Leaves(p, where)
  BY <1>8 DEF Open, Migrate, Inspect, AddColumn, RecordVersion, MigrationFails, Prepare,
              WriteInput, InsertRoot, InsertChild, Insert, NeverStarts, WriteReport, CloseRow,
              ReportFailure,
              HandlerBreaks, CloseFailedRow, SuggestRepair, ProcessDies
<1>9. CASE UNCHANGED recordsVars
  BY <1>2, <1>9
<1> QED
  BY <1>2, <1>3, <1>4, <1>5, <1>6, <1>7, <1>8, <1>9 DEF RecordsNext, Work, Try, Handle

\* What is lost is the execution under way, once it has a row.
LEMMA LostStep ==
  ASSUME RecordsInv, [RecordsNext]_recordsVars
  PROVE  \/ UNCHANGED lost
         \/ /\ lost' = lost \cup {Newest} /\ UNCHANGED rows
            /\ \E p \in Procs : At(p, Inserted) /\ stage'[p] \notin Executing
<1>1. stage \in [Procs -> {"down", "up"} \cup Migrating \cup Executing]
  BY DEF RecordsInv, RecordsTypeOK
<1>2. CASE UNCHANGED recordsVars
  BY <1>2
<1>3. ASSUME NEW p \in Procs,
             \/ Open(p) \/ Migrate(p) \/ Prepare(p) \/ Try(p) \/ EndFailedStep(p) \/ RollBack(p)
             \/ ReportFailure(p) \/ CloseFailedRow(p) \/ BeginExecution(p) \/ SuggestRepair(p)
      PROVE  UNCHANGED lost
  BY <1>3 DEF Open, Migrate, Inspect, AddColumn, RecordVersion, MigrationFails, Prepare,
              WriteInput, InsertRoot, InsertChild, Insert, NeverStarts, Try, StartStep, EndStep,
              BackUpStep, StepFails,
              Breaks, WriteReport, TearReport, CloseRow, EndFailedStep, RollBack, ReportFailure,
              CloseFailedRow, BeginExecution, SuggestRepair
<1>4. ASSUME NEW p \in Procs, HandlerBreaks(p)
      PROVE  lost' = lost \cup {Newest} /\ UNCHANGED rows /\ At(p, Inserted)
             /\ stage'[p] \notin Executing
  BY <1>1, <1>4 DEF HandlerBreaks, Leaves, Inserted
<1>5. ASSUME NEW p \in Procs, ProcessDies(p), At(p, Inserted)
      PROVE  lost' = lost \cup {Newest} /\ UNCHANGED rows /\ stage'[p] \notin Executing
  BY <1>1, <1>5 DEF ProcessDies, Leaves, Inserted
<1>6. ASSUME NEW p \in Procs, ProcessDies(p), ~At(p, Inserted)
      PROVE  UNCHANGED lost
  BY <1>6 DEF ProcessDies, Inserted
<1> QED
  BY <1>2, <1>3, <1>4, <1>5, <1>6 DEF RecordsNext, Work, Handle

LEMMA TroublesStep ==
  ASSUME [RecordsNext]_recordsVars
  PROVE  Trouble \/ UNCHANGED troubles
<1>1. ASSUME NEW p \in Procs,
             \/ Open(p) \/ Migrate(p) \/ Prepare(p)
             \/ BeginExecution(p) \/ SuggestRepair(p) \/ ProcessDies(p)
      PROVE  Trouble \/ UNCHANGED troubles
  BY <1>1 DEF Open, Migrate, Inspect, AddColumn, RecordVersion, MigrationFails, Prepare,
              WriteInput, InsertRoot, InsertChild, Insert, NeverStarts, BeginExecution,
              SuggestRepair, ProcessDies
<1>2. ASSUME NEW p \in Procs, Try(p) \/ Handle(p)
      PROVE  Trouble \/ UNCHANGED troubles
  BY <1>2 DEF Try, StartStep, EndStep, BackUpStep, StepFails, Emit, Breaks, WriteReport,
              TearReport, CloseRow, Handle, EndFailedStep, RollBack, ReportFailure, HandlerBreaks,
              CloseFailedRow
<1>3. CASE UNCHANGED recordsVars
  BY <1>3
<1> QED
  BY <1>1, <1>2, <1>3 DEF RecordsNext, Work

LEMMA NewestGrows ==
  ASSUME RecordsInv, [RecordsNext]_recordsVars
  PROVE  /\ Newest \in Nat /\ Newest' \in {Newest, Newest + 1}
         /\ DOMAIN rows' = 1..Newest'
         /\ rows' = <<>> => Newest = 0
<1>1. Newest \in Nat
  BY RecordsFacts
<1>2. rows' \in Seq(Row \cup {None}) /\ Newest' \in {Newest, Newest + 1}
  BY RowsAreKept
<1> QED
  BY <1>1, <1>2

LEMMA RecordsTypeStep == RecordsInv /\ [RecordsNext]_recordsVars => RecordsTypeOK'
<1> SUFFICES ASSUME RecordsInv, [RecordsNext]_recordsVars PROVE RecordsTypeOK'
  OBVIOUS
<1>1. lost' \subseteq DOMAIN rows'
  <2>1. lost \subseteq 1..Newest /\ Newest \in Nat
    BY RecordsFacts DEF RecordsInv, RecordsTypeOK
  <2>2. DOMAIN rows' = 1..Newest' /\ (Newest' = Newest \/ Newest' = Newest + 1)
    BY NewestGrows
  <2>3. \A p \in Procs : At(p, Inserted) => Newest \in 1..Newest
    BY RecordsFacts DEF Inserted
  <2>4. lost' \subseteq 1..Newest
    BY <2>1, <2>3, LostStep
  <2>5. \A n \in Nat : 1..n \subseteq 1..(n + 1)
    OBVIOUS
  <2> QED
    BY <2>1, <2>2, <2>4, <2>5, Zenon
<1>2. troubles' \in 0..MaxEvents
  BY TroublesStep, TroubleType
<1> QED
  BY <1>1, <1>2, SchemaType, LocalsType, RowsAreKept, DirsAreKept, StageStep DEF RecordsTypeOK

\* Only one process begins when none executes, and others take no part.
LEMMA OneExecutesStep == RecordsInv /\ [RecordsNext]_recordsVars => OneExecutes'
<1> SUFFICES ASSUME RecordsInv, [RecordsNext]_recordsVars PROVE OneExecutes'
  OBVIOUS
<1>1. \A p, q \in Procs : At(p, Executing) /\ At(q, Executing) => p = q
  BY DEF RecordsInv, OneExecutes
<1>2. CASE \A p \in Procs : stage'[p] \in Executing => At(p, Executing)
  <2>1. \A p, q \in Procs : stage'[p] \in Executing /\ stage'[q] \in Executing => p = q
    BY <1>1, <1>2
  <2>2. Busy' => \E p \in Procs : At(p, Executing)
    BY <1>2 DEF Busy
  <2>3. Busy' => Newest \in 1..Newest
    BY <2>2, RecordsFacts
  <2>4. Busy' => rows' # <<>>
    BY <2>3, NewestGrows
  <2> QED
    BY <2>1, <2>4 DEF OneExecutes
<1>3. ASSUME NEW p \in Procs, BeginExecution(p), ~Busy
      PROVE  OneExecutes'
  <2>1. \A q \in Procs : q # p => stage'[q] \notin Executing
    BY <1>3 DEF BeginExecution, Busy
  <2>2. rows' # <<>>
    BY <1>3 DEF BeginExecution
  <2> QED
    BY <2>1, <2>2 DEF OneExecutes
<1> QED
  BY <1>2, <1>3, StageStep

\* All other steps leave a row's execution where it is: under way, or not.
Ends(p) ==
    \/ CloseRow(p) \/ CloseFailedRow(p) \/ HandlerBreaks(p)
    \/ ProcessDies(p) /\ At(p, Inserted)

LEMMA OtherSteps ==
  ASSUME RecordsInv, [RecordsNext]_recordsVars,
         \A p \in Procs : ~BeginExecution(p) /\ ~InsertRoot(p) /\ ~InsertChild(p) /\ ~Ends(p)
  PROVE  /\ UNCHANGED <<rows, lost>>
         /\ \A q \in Procs : stage'[q] \in Inserted <=> At(q, Inserted)
         /\ \A q \in Procs : stage'[q] = "preparing" => At(q, {"preparing"})
<1>1. stage \in [Procs -> {"down", "up"} \cup Migrating \cup Executing]
  BY DEF RecordsInv, RecordsTypeOK
<1>2. UNCHANGED rows
  BY RowsStep DEF Ends
<1>3. CASE UNCHANGED recordsVars
  BY <1>3
<1> DEFINE Stages == {"down", "up"} \cup Migrating \cup Executing
           Shift(p, where) == /\ Proceeds(p, where)
                              /\ where = "preparing" => At(p, {"preparing"})
                              /\ where \in Inserted <=> At(p, Inserted)
           Stays(p) == UNCHANGED stage \/ \E where \in Stages : Shift(p, where)
<1>4. ASSUME NEW p \in Procs, Stays(p)
      PROVE  /\ \A q \in Procs : stage'[q] \in Inserted <=> At(q, Inserted)
             /\ \A q \in Procs : stage'[q] = "preparing" => At(q, {"preparing"})
  <2>1. CASE UNCHANGED stage
    BY <2>1
  <2>2. ASSUME NEW where \in Stages, Shift(p, where)
        PROVE  \A q \in Procs : /\ stage'[q] \in Inserted <=> At(q, Inserted)
                                /\ stage'[q] = "preparing" => At(q, {"preparing"})
    BY <1>1, <2>2
  <2> QED
    BY <1>4, <2>1, <2>2
<1>5. ASSUME NEW p \in Procs, Open(p) \/ Migrate(p) \/ WriteInput(p) \/ SuggestRepair(p)
      PROVE  UNCHANGED lost /\ Stays(p)
  BY <1>5 DEF Open, Migrate, Inspect, AddColumn, RecordVersion, MigrationFails, WriteInput,
              SuggestRepair, Inserted
<1>6. ASSUME NEW p \in Procs, NeverStarts(p) \/ (ProcessDies(p) /\ ~At(p, Inserted))
      PROVE  UNCHANGED lost /\ Stays(p)
  <2>1. UNCHANGED lost /\ ~At(p, Inserted) /\ (Proceeds(p, "up") \/ Proceeds(p, "down"))
    BY <1>6 DEF NeverStarts, ProcessDies, Leaves, Inserted
  <2> QED
    BY <2>1 DEF Inserted
<1>7. ASSUME NEW p \in Procs,
             \/ StartStep(p) \/ EndStep(p) \/ BackUpStep(p) \/ StepFails(p) \/ Breaks(p)
             \/ WriteReport(p) \/ TearReport(p) \/ EndFailedStep(p) \/ RollBack(p)
             \/ ReportFailure(p)
      PROVE  UNCHANGED lost /\ Stays(p)
  BY <1>7 DEF StartStep, EndStep, BackUpStep, StepFails, Breaks, Raise, Ready, WriteReport,
              TearReport, EndFailedStep, RollBack, ReportFailure, Inserted
<1> QED
  BY <1>2, <1>3, <1>4, <1>5, <1>6, <1>7 DEF RecordsNext, Work, Prepare, Try, Handle, Ends

\* The end of an execution, with its row closed or lost.
LEMMA EndsEffect ==
  ASSUME RecordsInv, NEW p \in Procs, Ends(p)
  PROVE  /\ At(p, Inserted) /\ \A q \in Procs : stage'[q] \notin Executing
         /\ Newest \in 1..Newest /\ Newest \notin lost
         /\ \/ UNCHANGED rows /\ lost' = lost \cup {Newest}
            \/ /\ UNCHANGED lost
               /\ \E rec \in Row : rec.status \in Ended /\ rows' = [rows EXCEPT ![Newest] = rec]
<1>1. stage \in [Procs -> {"down", "up"} \cup Migrating \cup Executing]
  BY DEF RecordsInv, RecordsTypeOK
<1>2. At(p, Inserted) /\ \E where \in {"up", "down"} : Leaves(p, where)
  BY DEF Ends, CloseRow, CloseFailedRow, HandlerBreaks, ProcessDies, Inserted
<1>3. At(p, Executing)
  BY <1>2 DEF Inserted
<1>4. \A q \in Procs : stage'[q] \notin Executing
  BY <1>1, <1>2, <1>3 DEF Leaves, RecordsInv, OneExecutes
<1>5. Newest \in 1..Newest /\ Newest \notin lost
  BY <1>3, RecordsFacts DEF RecordsInv, PendingRows
<1>6. CASE HandlerBreaks(p) \/ (ProcessDies(p) /\ At(p, Inserted))
  BY <1>2, <1>4, <1>5, <1>6 DEF HandlerBreaks, ProcessDies, Inserted
<1>7. CASE CloseRow(p) \/ CloseFailedRow(p)
  <2>1. UNCHANGED lost
    BY <1>7 DEF CloseRow, CloseFailedRow
  <2> QED
    BY <1>2, <1>4, <1>5, <1>7, <2>1, CloseEffect
<1> QED
  BY <1>6, <1>7 DEF Ends

LEMMA PendingStep == RecordsInv /\ [RecordsNext]_recordsVars => PendingRows'
<1> SUFFICES ASSUME RecordsInv, [RecordsNext]_recordsVars PROVE PendingRows'
  OBVIOUS
<1> DEFINE IsPending(e) == e \in 1..Newest /\ rows[e] # None /\ rows[e].status = "pending"
           Under == \E p \in Procs : stage[p] \in Inserted
           Good == /\ \A e \in 1..Newest : IsPending(e) <=> e \in lost \/ (e = Newest /\ Under)
                   /\ \A p \in Procs : stage[p] \in Executing => Newest \notin lost
                   /\ \A p \in Procs : stage[p] = "preparing" => rows[Newest] = None
<1>1. Good /\ lost \subseteq 1..Newest /\ Newest \in Nat
  BY RecordsFacts DEF RecordsInv, RecordsTypeOK, PendingRows, RowIsOpen, Recorded
<1>2. SUFFICES Good'
  BY NewestGrows DEF PendingRows, RowIsOpen, Recorded
<1>3. ASSUME NEW p \in Procs, BeginExecution(p)
      PROVE  Good'
  <2>1. ~Busy /\ UNCHANGED lost /\ stage' = [stage EXCEPT ![p] = "preparing"]
    BY <1>3 DEF BeginExecution
  <2>2. ~Under /\ \A q \in Procs : stage[q] \notin Executing
    BY <2>1 DEF Busy, Inserted
  <2>3. \A q \in Procs : stage'[q] \notin Inserted
    BY <2>1, <2>2 DEF Inserted, RecordsInv, RecordsTypeOK
  <2>4. /\ Newest' = Newest + 1 /\ rows'[Newest'] = None
        /\ \A e \in 1..Newest : rows'[e] = rows[e]
    <3>1. rows' = Append(rows, None)
      BY <1>3 DEF BeginExecution
    <3>2. rows \in Seq(Row \cup {None}) /\ None \in Row \cup {None}
      BY RecordsFacts
    <3> QED
      BY <3>1, <3>2, AppendProperties
  <2>5. \A e \in 1..Newest' : IsPending(e)' <=> e \in lost'
    BY <1>1, <2>1, <2>2, <2>4
  <2>6. Newest' \notin lost'
    BY <1>1, <2>1, <2>4
  <2> QED
    BY <2>3, <2>4, <2>5, <2>6
<1>4. ASSUME NEW p \in Procs, InsertRoot(p) \/ InsertChild(p)
      PROVE  Good'
  <2>1. At(p, {"preparing"}) /\ stage' = [stage EXCEPT ![p] = "running"] /\ UNCHANGED lost
    BY <1>4 DEF InsertRoot, InsertChild, Insert
  <2>2. PICK rec \in Row : rec.status = "pending" /\ rows' = [rows EXCEPT ![Newest] = rec]
    BY <1>4, InsertEffect
  <2>3. /\ Newest \in 1..Newest /\ rec # None /\ rec.status = "pending"
        /\ rows \in Seq(Row \cup {None})
    BY <2>1, <2>2, RecordsFacts, RecordsAssumption DEF RecordsAssumption
  <2>4. /\ Newest' = Newest /\ rows'[Newest] = rec
        /\ \A e \in 1..Newest : e # Newest => rows'[e] = rows[e]
    BY <2>2, <2>3, ExceptSeq
  <2>5. stage'[p] \in Inserted /\ \A q \in Procs : stage'[q] \in Executing => q = p
    BY <2>1 DEF RecordsInv, RecordsTypeOK, OneExecutes, Inserted
  <2>6. Newest \notin lost
    BY <2>1, <1>1
  <2>7. ASSUME NEW e \in 1..Newest' PROVE IsPending(e)' <=> e \in lost' \/ e = Newest'
    <3>1. CASE e = Newest
      <4>1. e \in 1..Newest' /\ rows'[e] # None /\ rows'[e].status = "pending" /\ e = Newest'
        BY <2>3, <2>4, <3>1
      <4> QED
        BY <4>1
    <3>2. CASE e # Newest
      <4>1. e \in 1..Newest /\ rows'[e] = rows[e]
        BY <2>4, <3>2
      <4>2. IsPending(e) <=> e \in lost
        BY <1>1, <3>2, <4>1
      <4>3. IsPending(e)' <=> IsPending(e)
        BY <2>4, <4>1
      <4> HIDE DEF IsPending
      <4> QED
        BY <2>1, <2>4, <3>2, <4>2, <4>3
    <3> QED
      BY <3>1, <3>2
  <2>8. \A q \in Procs : stage'[q] # "preparing"
    BY <2>1, <2>5 DEF RecordsInv, RecordsTypeOK
  <2>9. Under'
    BY <2>5
  <2>10. Newest' \notin lost'
    BY <2>1, <2>4, <2>6
  <2> HIDE DEF IsPending, Under
  <2> QED
    BY <2>7, <2>8, <2>9, <2>10
<1>5. ASSUME NEW p \in Procs, Ends(p)
      PROVE  Good'
  <2>1. At(p, Inserted) /\ \A q \in Procs : stage'[q] \notin Executing
    BY <1>5, EndsEffect
  <2>2. Newest \in 1..Newest /\ Newest \notin lost /\ Under
    BY <1>5, <2>1, EndsEffect
  <2>3. \A q \in Procs : stage'[q] \notin Inserted /\ stage'[q] # "preparing"
    BY <2>1 DEF Inserted
  <2>4. CASE UNCHANGED rows /\ lost' = lost \cup {Newest}
    BY <1>1, <2>1, <2>2, <2>3, <2>4
  <2>5. ASSUME UNCHANGED lost,
               NEW rec \in Row, rec.status \in Ended, rows' = [rows EXCEPT ![Newest] = rec]
        PROVE  Good'
    <3>1. rows \in Seq(Row \cup {None}) /\ rec.status # "pending"
      BY <2>5, RecordsFacts DEF Ended
    <3>2. /\ Newest' = Newest /\ rows'[Newest] = rec
          /\ \A e \in 1..Newest : e # Newest => rows'[e] = rows[e]
      BY <2>2, <2>5, <3>1, ExceptSeq
    <3>3. ASSUME NEW e \in 1..Newest' PROVE IsPending(e)' <=> e \in lost'
      <4>1. CASE e = Newest
        <5>1. rows'[e] = rec
          BY <3>2, <4>1
        <5>2. e \notin lost'
          BY <2>2, <2>5, <4>1
        <5> QED
          BY <3>1, <5>1, <5>2
      <4>2. CASE e # Newest
        <5>1. e \in 1..Newest /\ rows'[e] = rows[e]
          BY <3>2, <4>2
        <5>2. IsPending(e) <=> e \in lost
          BY <1>1, <4>2, <5>1
        <5>3. IsPending(e)' <=> IsPending(e)
          BY <3>2, <5>1
        <5> HIDE DEF IsPending
        <5> QED
          BY <2>5, <5>2, <5>3
      <4> QED
        BY <4>1, <4>2
    <3>4. ~Under'
      BY <2>3
    <3> HIDE DEF IsPending, Under
    <3> QED
      BY <2>1, <2>3, <3>3, <3>4
  <2> QED
    BY <1>5, <2>4, <2>5, EndsEffect
<1>6. CASE \A p \in Procs : ~BeginExecution(p) /\ ~InsertRoot(p) /\ ~InsertChild(p) /\ ~Ends(p)
  <2>1. UNCHANGED <<rows, lost>> /\ Under' = Under
    BY <1>6, OtherSteps
  <2>2. \A q \in Procs : stage'[q] = "preparing" => stage[q] = "preparing"
    BY <1>6, OtherSteps
  <2>3. \A q \in Procs : stage'[q] \in Executing => stage[q] \in Executing
    BY <1>6, StageStep
  <2> QED
    BY <1>1, <2>1, <2>2, <2>3
<1> QED
  BY <1>3, <1>4, <1>5, <1>6

\* What a report and an event leave in the directory of the execution under way.
LEMMA ReportEffect ==
  ASSUME RecordsInv, NEW p \in Procs, At(p, Executing), NEW s \in Ended \cup {"torn"}, Report(s)
  PROVE  /\ dirs'[Newest].inputs = dirs[Newest].inputs
         /\ dirs'[Newest].events = dirs[Newest].events
         /\ dirs'[Newest].report = s
<1>1. Newest \in DOMAIN dirs /\ dirs[Newest] \in Dir
  BY RecordsFacts
<1>2. dirs'[Newest] = [dirs[Newest] EXCEPT !.report = s]
  BY <1>1 DEF Report
<1> QED
  BY <1>1, <1>2 DEF Dir

LEMMA EmitEffect ==
  ASSUME RecordsInv, NEW p \in Procs, At(p, Executing),
         NEW kind \in {"start", "ok", "failed"}, NEW n \in Steps, Emit(kind, n)
  PROVE  /\ dirs'[Newest].inputs = dirs[Newest].inputs
         /\ dirs'[Newest].report = dirs[Newest].report
         /\ dirs'[Newest].events \in
               {dirs[Newest].events, Append(dirs[Newest].events, [kind |-> kind, step |-> n])}
<1>1. Newest \in DOMAIN dirs /\ dirs[Newest] \in Dir
  BY RecordsFacts
<1>2. CASE UNCHANGED dirs
  BY <1>2
<1>3. CASE dirs' = [dirs EXCEPT ![Newest].events = Append(@, [kind |-> kind, step |-> n])]
  <2>1. dirs'[Newest] = [dirs[Newest] EXCEPT !.events =
                            Append(dirs[Newest].events, [kind |-> kind, step |-> n])]
    BY <1>1, <1>3
  <2> QED
    BY <1>1, <2>1 DEF Dir
<1> QED
  BY <1>2, <1>3 DEF Emit

\* Who does not execute changes nothing that the execution under way relies on.
LEMMA BystanderEffect ==
  ASSUME RecordsInv, NEW p \in Procs,
         Open(p) \/ Migrate(p) \/ SuggestRepair(p) \/ (ProcessDies(p) /\ ~At(p, Executing))
  PROVE  /\ UNCHANGED <<rows, locals>> /\ ~At(p, Executing)
         /\ \A q \in Procs : q # p => stage'[q] = stage[q]
         /\ stage'[p] \notin Executing
         /\ \A e \in 1..Newest :
               /\ dirs'[e].inputs = dirs[e].inputs /\ dirs'[e].events = dirs[e].events
               /\ dirs'[e].report = dirs[e].report
<1>1. stage \in [Procs -> {"down", "up"} \cup Migrating \cup Executing]
  BY DEF RecordsInv, RecordsTypeOK
<1>2. CASE Open(p) \/ Migrate(p) \/ (ProcessDies(p) /\ ~At(p, Executing))
  <2>1. UNCHANGED <<rows, locals, dirs>> /\ ~At(p, Executing)
    BY <1>2 DEF Open, Migrate, Inspect, AddColumn, RecordVersion, MigrationFails, ProcessDies,
                Ready
  <2>2. \/ UNCHANGED stage
        \/ \E where \in {"down", "up"} \cup Migrating : stage' = [stage EXCEPT ![p] = where]
    BY <1>2 DEF Open, Migrate, Inspect, AddColumn, RecordVersion, MigrationFails, ProcessDies
  <2> QED
    BY <1>1, <2>1, <2>2
<1>3. CASE SuggestRepair(p)
  <2>1. UNCHANGED <<rows, locals, stage>> /\ ~At(p, Executing)
    BY <1>3 DEF SuggestRepair
  <2>2. PICK f \in 1..Newest, r \in Repair :
           dirs' = [dirs EXCEPT ![f] = [dirs[f] EXCEPT !.repair = r]]
    BY <1>3, SuggestEffect
  <2>3. \A e \in 1..Newest : dirs'[e] = IF e = f THEN [dirs[e] EXCEPT !.repair = r] ELSE dirs[e]
    BY <2>2, RecordsFacts
  <2>4. \A d \in Dir : LET c == [d EXCEPT !.repair = r]
                       IN  c.inputs = d.inputs /\ c.events = d.events /\ c.report = d.report
    BY DEF Dir
  <2> QED
    BY <2>1, <2>3, <2>4, RecordsFacts
<1> QED
  BY <1>2, <1>3

LEMMA ProgressStep == RecordsInv /\ [RecordsNext]_recordsVars => ProgressMade'
<1> SUFFICES ASSUME RecordsInv, [RecordsNext]_recordsVars PROVE ProgressMade'
  OBVIOUS
<1> DEFINE Made(p) == /\ stage[p] \in Inserted => dirs[Newest].inputs = 3
                      /\ stage[p] = "reported" => dirs[Newest].report = "completed"
                      /\ stage[p] \in {"reporting", "closing"} => status \in Failed
                      /\ stage[p] = "closing" => dirs[Newest].report = status
<1>1. stage \in [Procs -> {"down", "up"} \cup Migrating \cup Executing]
  BY DEF RecordsInv, RecordsTypeOK
<1>2. step \in 0..6 /\ (open => step # 0) /\ \A p \in Procs : Made(p)
  BY DEF RecordsInv, RecordsTypeOK, ProgressMade
<1>3. (open => step # 0)'
  <2>1. ASSUME NEW p \in Procs, StartStep(p) PROVE step' # 0
    BY <1>2, <2>1 DEF StartStep
  <2>2. ASSUME NEW p \in Procs,
               \/ Open(p) \/ Migrate(p) \/ Prepare(p) \/ EndStep(p) \/ BackUpStep(p)
               \/ StepFails(p) \/ Breaks(p) \/ WriteReport(p) \/ TearReport(p) \/ CloseRow(p)
        PROVE  open' = FALSE \/ UNCHANGED <<open, step>>
    BY <2>2 DEF Open, Migrate, Inspect, AddColumn, RecordVersion, MigrationFails, Prepare,
              WriteInput, InsertRoot, InsertChild, Insert, NeverStarts, Leaves, EndStep,
              BackUpStep, StepFails, Breaks,
                WriteReport, TearReport, CloseRow
  <2>3. ASSUME NEW p \in Procs,
               Handle(p) \/ BeginExecution(p) \/ SuggestRepair(p) \/ ProcessDies(p)
        PROVE  open' = FALSE \/ UNCHANGED <<open, step>>
    BY <2>3 DEF Handle, EndFailedStep, RollBack, ReportFailure, HandlerBreaks, CloseFailedRow,
                Leaves, BeginExecution, SuggestRepair, ProcessDies
  <2>4. CASE UNCHANGED recordsVars
    BY <1>2, <2>4
  <2> QED
    BY <1>2, <2>1, <2>2, <2>3, <2>4 DEF RecordsNext, Work, Try
<1>4. SUFFICES ASSUME NEW q \in Procs PROVE Made(q)'
  BY <1>3 DEF ProgressMade
<1>5. CASE stage'[q] \notin Inserted
  BY <1>5 DEF Inserted
<1>6. ASSUME stage'[q] \in Inserted, NEW p \in Procs,
             Open(p) \/ Migrate(p) \/ SuggestRepair(p) \/ (ProcessDies(p) /\ ~At(p, Executing))
      PROVE  Made(q)'
  <2>1. stage'[q] = stage[q] /\ UNCHANGED <<rows, locals>>
    BY <1>6, BystanderEffect DEF Inserted
  <2>2. Newest \in 1..Newest
    BY <1>6, <2>1, RecordsFacts DEF Inserted
  <2> QED
    BY <1>2, <1>6, <2>1, <2>2, BystanderEffect
<1>7. ASSUME NEW p \in Procs, BeginExecution(p) \/ WriteInput(p) \/ NeverStarts(p) \/ Ends(p)
      PROVE  stage'[q] \notin Inserted
  <2>1. CASE Ends(p)
    BY <2>1, EndsEffect DEF Inserted
  <2>2. CASE BeginExecution(p)
    BY <1>1, <2>2 DEF BeginExecution, Busy, Inserted
  <2>3. CASE WriteInput(p) \/ NeverStarts(p)
    BY <1>1, <2>3 DEF WriteInput, NeverStarts, Leaves, Inserted, RecordsInv, OneExecutes
  <2> QED
    BY <1>7, <2>1, <2>2, <2>3
<1>8. ASSUME NEW p \in Procs, At(p, Executing), stage'[q] \in Inserted
      PROVE  q = p \/ BeginExecution(q)
  BY <1>8, StageStep DEF Inserted, RecordsInv, OneExecutes
<1>9. ASSUME At(q, Executing), stage'[q] \in Inserted,
             \/ InsertRoot(q) \/ InsertChild(q)
             \/ (Try(q) /\ ~CloseRow(q)) \/ (Handle(q) /\ ~HandlerBreaks(q) /\ ~CloseFailedRow(q))
      PROVE  Made(q)'
  <2>1. Newest' = Newest /\ Newest \in 1..Newest
    <3>1. Busy /\ Newest \in 1..Newest
      BY <1>9, RecordsFacts DEF Busy
    <3>2. \A p \in Procs : ~BeginExecution(p)
      BY <3>1 DEF BeginExecution
    <3> QED
      BY <3>1, <3>2, RowsAreKept
  <2>2. CASE InsertRoot(q) \/ InsertChild(q)
    BY <1>1, <2>1, <2>2 DEF InsertRoot, InsertChild, Insert
  <2>3. CASE StartStep(q) \/ EndStep(q)
    <3>1. At(q, {"running"}) /\ UNCHANGED <<stage, status>>
          /\ \E kind \in {"start", "ok", "failed"}, n \in Steps : Emit(kind, n)
      <4>1. CASE StartStep(q)
        BY <1>2, <2>3, <4>1 DEF StartStep, Steps
      <4>2. CASE EndStep(q)
        BY <1>2, <2>3, <4>2 DEF EndStep, Steps
      <4> QED
        BY <2>3, <4>1, <4>2
    <3>2. dirs'[Newest].inputs = dirs[Newest].inputs
      BY <1>9, <3>1, EmitEffect
    <3> QED
      BY <1>2, <2>1, <3>1, <3>2 DEF Inserted
  <2>4. CASE BackUpStep(q) \/ StepFails(q) \/ Breaks(q)
    <3>1. At(q, Inserted) /\ UNCHANGED dirs /\ stage'[q] \in {"running", "raised"}
      BY <1>1, <2>4 DEF BackUpStep, StepFails, Breaks, Raise, Inserted
    <3> QED
      BY <1>2, <2>1, <3>1
  <2>5. CASE WriteReport(q) \/ TearReport(q)
    <3>1. At(q, Inserted)
      BY <2>5 DEF WriteReport, TearReport, Ready, Inserted
    <3>2. \/ stage'[q] = "reported" /\ Report("completed")
          \/ stage'[q] = "raised" /\ Report("torn")
      BY <1>1, <2>5 DEF WriteReport, TearReport, Raise
    <3>3. /\ dirs'[Newest].inputs = dirs[Newest].inputs
          /\ stage'[q] = "reported" => dirs'[Newest].report = "completed"
      BY <1>9, <3>2, ReportEffect DEF Ended
    <3> QED
      BY <1>2, <2>1, <3>1, <3>2, <3>3
  <2>6. CASE EndFailedStep(q)
    <3>1. At(q, Inserted) /\ stage'[q] = "failing"
      BY <1>1, <2>6 DEF EndFailedStep, Inserted
    <3>2. UNCHANGED dirs \/ \E kind \in {"start", "ok", "failed"}, n \in Steps : Emit(kind, n)
      BY <1>2, <2>6 DEF EndFailedStep, Steps
    <3>3. dirs'[Newest].inputs = dirs[Newest].inputs
      BY <1>9, <3>2, EmitEffect
    <3> QED
      BY <1>2, <2>1, <3>1, <3>3
  <2>7. CASE RollBack(q)
    BY <1>1, <1>2, <2>1, <2>7 DEF RollBack, Failed, Inserted
  <2>8. CASE ReportFailure(q)
    <3>1. /\ At(q, Inserted) /\ stage'[q] = "closing" /\ status \in Failed
          /\ Report(status) /\ status' = status
      BY <1>1, <1>2, <2>8 DEF ReportFailure, Inserted
    <3>2. dirs'[Newest].inputs = dirs[Newest].inputs /\ dirs'[Newest].report = status
      BY <1>9, <3>1, ReportEffect DEF Ended, Failed
    <3> QED
      BY <1>2, <2>1, <3>1, <3>2
  <2> QED
    BY <1>9, <2>2, <2>3, <2>4, <2>5, <2>6, <2>7, <2>8 DEF Try, Handle
<1>10. CASE UNCHANGED recordsVars
  BY <1>2, <1>10
<1>11. ASSUME NEW p \in Procs,
              \/ Prepare(p) \/ Try(p) \/ Handle(p) \/ BeginExecution(p)
              \/ (ProcessDies(p) /\ At(p, Executing))
       PROVE  Made(q)'
  <2>1. CASE BeginExecution(p) \/ WriteInput(p) \/ NeverStarts(p) \/ Ends(p)
    BY <1>5, <1>7, <2>1
  <2>2. CASE InsertRoot(p) \/ InsertChild(p) \/ Try(p) \/ Handle(p)
    <3>1. At(p, Executing) /\ ~BeginExecution(q)
      BY <2>2 DEF InsertRoot, InsertChild, Insert, Try, StartStep, EndStep, BackUpStep, StepFails,
                  Breaks, Ready, WriteReport, TearReport, CloseRow, Handle, EndFailedStep,
                  RollBack, ReportFailure, HandlerBreaks, CloseFailedRow, BeginExecution, Busy
    <3>2. CASE stage'[q] \in Inserted
      <4>1. q = p /\ ~Ends(p)
        BY <1>7, <1>8, <3>1, <3>2
      <4> QED
        BY <1>9, <2>2, <3>1, <3>2, <4>1 DEF Ends
    <3> QED
      BY <1>5, <3>2
  <2>3. CASE ProcessDies(p) /\ At(p, Executing)
    <3>1. CASE At(p, Inserted)
      BY <1>5, <1>7, <2>3, <3>1 DEF Ends
    <3>2. CASE At(p, {"preparing"})
      <4>1. stage'[p] \notin Inserted /\ ~BeginExecution(q)
        BY <1>1, <2>3 DEF ProcessDies, Leaves, Inserted, BeginExecution, Busy
      <4> QED
        BY <1>5, <1>8, <2>3, <4>1
    <3> QED
      BY <2>3, <3>1, <3>2 DEF Inserted
  <2> QED
    BY <1>11, <2>1, <2>2, <2>3 DEF Prepare
<1> QED
  BY <1>5, <1>6, <1>10, <1>11 DEF RecordsNext, Work

\* A row closes with what was reported; no other row says that its execution ended unless it
\* said so before, and then nobody writes to its directory.
LEMMA ReportedStep == RecordsInv /\ [RecordsNext]_recordsVars => EndedIsReported'
<1> SUFFICES ASSUME RecordsInv, [RecordsNext]_recordsVars PROVE EndedIsReported'
  OBVIOUS
<1> DEFINE Good(e) == /\ dirs[e].inputs = 3 /\ dirs[e].report \notin {"none", "torn"}
                      /\ dirs[e].report = rows[e].status
           IsEnded(e) == rows[e] # None /\ rows[e].status \in Ended
<1>1. \A e \in 1..Newest : IsEnded(e) => Good(e)
  BY RecordsFacts DEF RecordsInv, EndedIsReported, WithStatus, Recorded, Replayable, Complete
<1>2. SUFFICES ASSUME NEW e \in 1..Newest', IsEnded(e)' PROVE Good(e)'
  BY NewestGrows DEF EndedIsReported, WithStatus, Recorded, Replayable, Complete
<1>3. CASE e \in 1..Newest /\ ~(e = Newest /\ Busy)
  <2>1. rows'[e] = rows[e]
    BY <1>3, RowsAreKept
  <2>2. dirs'[e].inputs = dirs[e].inputs /\ dirs'[e].report = dirs[e].report
    BY <1>3, DirsAreKept
  <2> QED
    BY <1>1, <1>2, <1>3, <2>1, <2>2
<1>4. CASE e \notin 1..Newest
  <2>1. e = Newest' /\ Newest' # Newest
    BY <1>4, NewestGrows
  <2>2. rows'[Newest'] = None
    BY <2>1, RowsAreKept
  <2> QED
    BY <1>2, <2>1, <2>2
<1>5. CASE e = Newest /\ Busy
  <2>1. ~IsEnded(e) /\ Newest \in 1..Newest
    BY <1>5, RecordsFacts DEF RecordsInv, PendingRows, RowIsOpen, Recorded, Busy, Inserted, Ended
  <2>2. ASSUME NEW p \in Procs, CloseRow(p) \/ CloseFailedRow(p)
        PROVE  Good(e)'
    <3>1. UNCHANGED dirs /\ dirs[Newest].inputs = 3 /\ dirs[Newest] \in Dir
      BY <2>1, <2>2, RecordsFacts
         DEF CloseRow, CloseFailedRow, RecordsInv, ProgressMade, Inserted
    <3>2. PICK rec \in Row : /\ rec.status \in Ended /\ rec.status = dirs[Newest].report
                             /\ rows' = [rows EXCEPT ![Newest] = rec]
      BY <2>2, CloseEffect
    <3>3. rows'[Newest] = rec
      BY <2>1, <3>2, RecordsFacts
    <3> QED
      BY <1>5, <3>1, <3>2, <3>3 DEF Ended
  <2>3. ASSUME NEW p \in Procs, InsertRoot(p) \/ InsertChild(p)
        PROVE  ~IsEnded(e)'
    <3>1. PICK rec \in Row : rec.status = "pending" /\ rows' = [rows EXCEPT ![Newest] = rec]
      BY <2>3, InsertEffect
    <3>2. rows'[Newest] = rec
      BY <2>1, <3>1, RecordsFacts
    <3> QED
      BY <1>5, <3>1, <3>2 DEF Ended
  <2>4. CASE UNCHANGED rows
    BY <1>2, <2>1, <2>4
  <2>5. \A p \in Procs : ~BeginExecution(p)
    BY <1>5 DEF BeginExecution
  <2> QED
    BY <1>2, <2>2, <2>3, <2>4, <2>5, RowsStep
<1> QED
  BY <1>3, <1>4, <1>5

\* The story that a list of events tells, and what may come next.
Ordered(events) ==
    /\ \A i, j \in DOMAIN events : i < j =>
          \/ events[i].step < events[j].step
          \/ events[i].step = events[j].step /\ events[i].kind = "start" /\ events[j].kind # "start"
    /\ \A i \in DOMAIN events : events[i].kind = "failed" => i = Len(events)

HasFailed(events) == \E i \in DOMAIN events : events[i].kind = "failed"

LEMMA OrderedAppend ==
  ASSUME NEW s \in Seq(Event), Ordered(s), ~HasFailed(s), NEW x \in Event,
         \A i \in DOMAIN s : \/ s[i].step < x.step
                             \/ s[i].step = x.step /\ s[i].kind = "start" /\ x.kind # "start"
  PROVE  Ordered(Append(s, x))
<1> DEFINE t == Append(s, x)
<1>1. /\ t \in Seq(Event) /\ Len(t) = Len(s) + 1 /\ t[Len(s) + 1] = x
      /\ \A i \in 1..Len(s) : t[i] = s[i]
  BY AppendProperties
<1>2. DOMAIN t = 1..(Len(s) + 1) /\ DOMAIN s = 1..Len(s) /\ Len(s) \in Nat
  BY <1>1
<1> HIDE DEF t
<1>3. \A i \in DOMAIN t : i \in DOMAIN s \/ i = Len(s) + 1
  BY <1>2
<1>4. ASSUME NEW i \in DOMAIN t, NEW j \in DOMAIN t, i < j
      PROVE  \/ t[i].step < t[j].step
             \/ t[i].step = t[j].step /\ t[i].kind = "start" /\ t[j].kind # "start"
  <2>1. i \in DOMAIN s /\ t[i] = s[i]
    BY <1>1, <1>2, <1>4
  <2>2. CASE j = Len(s) + 1
    BY <1>1, <2>1, <2>2
  <2>3. CASE j \in DOMAIN s
    BY <1>1, <1>2, <1>4, <2>1, <2>3 DEF Ordered
  <2> QED
    BY <1>3, <2>2, <2>3
<1>5. ASSUME NEW i \in DOMAIN t, t[i].kind = "failed" PROVE i = Len(t)
  BY <1>1, <1>2, <1>3, <1>5 DEF HasFailed
<1> QED
  BY <1>4, <1>5 DEF Ordered, t

\* What holds of the events while step n is the last that was begun, open or not.
Behind(events, n, isOpen) ==
    \A i \in DOMAIN events : /\ events[i].step <= n
                             /\ events[i].kind # "failed"
                             /\ isOpen /\ events[i].step = n => events[i].kind = "start"

\* No event of a later step, the start of step n + 1, and the end of step n.
LEMMA BehindLater ==
  ASSUME NEW s \in Seq(Event), NEW n \in 0..6, NEW isOpen, Behind(s, n, isOpen)
  PROVE  Behind(s, n, FALSE) /\ Behind(s, n + 1, TRUE)
<1>1. \A i \in DOMAIN s : s[i].step \in Nat
  <2>1. \A i \in 1..Len(s) : s[i] \in Event
    BY ElementOfSeq
  <2> QED
    BY <2>1 DEF Event, Steps
<1> QED
  BY <1>1 DEF Behind

LEMMA BehindAppend ==
  ASSUME NEW s \in Seq(Event), NEW n \in Nat, NEW isOpen, Behind(s, n, isOpen),
         NEW x \in Event, x.step <= n, x.kind # "failed", isOpen => x.kind = "start"
  PROVE  Behind(Append(s, x), n, isOpen)
<1> DEFINE t == Append(s, x)
<1>1. /\ t \in Seq(Event) /\ Len(t) = Len(s) + 1 /\ t[Len(s) + 1] = x
      /\ \A i \in 1..Len(s) : t[i] = s[i]
  BY AppendProperties
<1>2. DOMAIN t = 1..(Len(s) + 1) /\ DOMAIN s = 1..Len(s) /\ Len(s) \in Nat
  BY <1>1
<1> HIDE DEF t
<1>3. \A i \in DOMAIN t : i \in DOMAIN s \/ i = Len(s) + 1
  BY <1>2
<1>4. Behind(t, n, isOpen)
  BY <1>1, <1>2, <1>3 DEF Behind
<1> QED
  BY <1>4 DEF t

LEMMA EventType ==
  ASSUME NEW kind \in {"start", "ok", "failed"}, NEW n \in Steps
  PROVE  /\ [kind |-> kind, step |-> n] \in Event /\ n \in Nat
         /\ [kind |-> kind, step |-> n].kind = kind /\ [kind |-> kind, step |-> n].step = n
BY DEF Event, Steps

LEMMA BehindEvent ==
  ASSUME NEW s \in Seq(Event), NEW n \in Steps, NEW isOpen, Behind(s, n, isOpen),
         NEW kind \in {"start", "ok"}, isOpen => kind = "start"
  PROVE  Behind(Append(s, [kind |-> kind, step |-> n]), n, isOpen)
<1> DEFINE x == [kind |-> kind, step |-> n]
<1>1. x \in Event /\ n \in Nat /\ x.kind = kind /\ x.step = n
  BY EventType
<1> HIDE DEF x
<1>2. x.step <= n /\ x.kind # "failed" /\ (isOpen => x.kind = "start")
  BY <1>1
<1>3. Behind(Append(s, x), n, isOpen)
  BY <1>1, <1>2, BehindAppend
<1> QED
  BY <1>3 DEF x

\* All other actions of the execution under way leave its events.
LEMMA QuietEffect ==
  ASSUME RecordsInv, NEW p \in Procs, At(p, Executing),
         \/ WriteInput(p) \/ InsertRoot(p) \/ InsertChild(p) \/ NeverStarts(p) \/ BackUpStep(p)
         \/ StepFails(p) \/ Breaks(p) \/ CloseRow(p) \/ RollBack(p) \/ CloseFailedRow(p)
         \/ WriteReport(p) \/ TearReport(p) \/ ReportFailure(p) \/ HandlerBreaks(p)
         \/ ProcessDies(p)
  PROVE  dirs'[Newest].events = dirs[Newest].events
<1>1. dirs[Newest] \in Dir /\ Newest \in DOMAIN dirs
  BY RecordsFacts
<1>2. ASSUME NEW s \in Ended \cup {"torn"}, Report(s)
      PROVE  dirs'[Newest].events = dirs[Newest].events
  BY <1>2, ReportEffect
<1>3. CASE UNCHANGED dirs
  BY <1>3
<1>4. CASE WriteInput(p)
  <2>1. dirs'[Newest] = [dirs[Newest] EXCEPT !.inputs = @ + 1]
    BY <1>1, <1>4 DEF WriteInput
  <2> QED
    BY <1>1, <2>1 DEF Dir
<1>5. CASE \/ InsertRoot(p) \/ InsertChild(p) \/ NeverStarts(p) \/ BackUpStep(p) \/ StepFails(p)
           \/ Breaks(p) \/ CloseRow(p) \/ RollBack(p) \/ CloseFailedRow(p)
  BY <1>3, <1>5 DEF InsertRoot, InsertChild, Insert, NeverStarts, BackUpStep, StepFails, Breaks,
                    CloseRow, RollBack, CloseFailedRow
<1>6. CASE WriteReport(p) \/ TearReport(p)
  BY <1>2, <1>6 DEF WriteReport, TearReport, Ended
<1>7. CASE ReportFailure(p)
  BY <1>2, <1>7 DEF ReportFailure, Ended, Failed, RecordsInv, ProgressMade
<1>8. CASE HandlerBreaks(p) \/ ProcessDies(p)
  BY <1>2, <1>3, <1>8, SMTT(30) DEF HandlerBreaks, ProcessDies, MayTear
<1> QED
  BY <1>4, <1>5, <1>6, <1>7, <1>8

\* The three actions that add an event, and to what.
LEMMA EventsStep ==
  ASSUME RecordsInv, [RecordsNext]_recordsVars, Busy
  PROVE  \/ dirs'[Newest].events = dirs[Newest].events
         \/ \E p \in Procs, kind \in {"start", "ok", "failed"}, n \in Steps :
               /\ dirs'[Newest].events = Append(dirs[Newest].events, [kind |-> kind, step |-> n])
               /\ \/ StartStep(p) /\ kind = "start" /\ n = step + 1
                  \/ EndStep(p) /\ kind = "ok" /\ n = step
                  \/ EndFailedStep(p) /\ open /\ kind = "failed" /\ n = step
<1>1. step \in 0..6 /\ (open => step # 0) /\ open \in BOOLEAN
  BY DEF RecordsInv, RecordsTypeOK, ProgressMade
<1>2. Newest \in 1..Newest /\ \A p \in Procs : ~BeginExecution(p)
  BY RecordsFacts DEF Busy, BeginExecution
<1>3. CASE UNCHANGED dirs
  BY <1>3
<1>4. ASSUME NEW p \in Procs, At(p, Executing),
             \/ Prepare(p) \/ BackUpStep(p) \/ StepFails(p) \/ Breaks(p) \/ WriteReport(p)
             \/ TearReport(p) \/ CloseRow(p) \/ RollBack(p) \/ ReportFailure(p)
             \/ HandlerBreaks(p) \/ CloseFailedRow(p) \/ ProcessDies(p)
      PROVE  dirs'[Newest].events = dirs[Newest].events
  BY <1>4, QuietEffect DEF Prepare
<1>6. ASSUME NEW p \in Procs, Prepare(p) \/ Try(p) \/ Handle(p)
      PROVE  At(p, Executing)
  BY <1>6 DEF Prepare, WriteInput, InsertRoot, InsertChild, Insert, NeverStarts, Try, StartStep,
              EndStep, BackUpStep, StepFails, Breaks, Ready, WriteReport, TearReport, CloseRow,
              Handle, EndFailedStep, RollBack, ReportFailure, HandlerBreaks, CloseFailedRow
<1>5. ASSUME NEW p \in Procs,
             Open(p) \/ Migrate(p) \/ SuggestRepair(p) \/ (ProcessDies(p) /\ ~At(p, Executing))
      PROVE  dirs'[Newest].events = dirs[Newest].events
  BY <1>2, <1>5, BystanderEffect
<1>7. ASSUME NEW p \in Procs, StartStep(p)
      PROVE  dirs'[Newest].events \in {dirs[Newest].events,
                Append(dirs[Newest].events, [kind |-> "start", step |-> step + 1])}
             /\ step + 1 \in Steps
  <2>1. At(p, Executing) /\ Emit("start", step + 1) /\ step + 1 \in Steps
    BY <1>1, <1>7 DEF StartStep, Steps
  <2> QED
    BY <2>1, EmitEffect
<1>8. ASSUME NEW p \in Procs, EndStep(p)
       PROVE  dirs'[Newest].events \in {dirs[Newest].events,
                 Append(dirs[Newest].events, [kind |-> "ok", step |-> step])}
              /\ step \in Steps
  <2>1. At(p, Executing) /\ Emit("ok", step) /\ step \in Steps
    BY <1>1, <1>8 DEF EndStep, Steps
  <2> QED
    BY <2>1, EmitEffect
<1>9. ASSUME NEW p \in Procs, EndFailedStep(p), open
       PROVE  dirs'[Newest].events \in {dirs[Newest].events,
                 Append(dirs[Newest].events, [kind |-> "failed", step |-> step])}
              /\ step \in Steps
  <2>1. At(p, Executing) /\ Emit("failed", step) /\ step \in Steps
    BY <1>1, <1>9 DEF EndFailedStep, Steps
  <2> QED
    BY <2>1, EmitEffect
<1>10. ASSUME NEW p \in Procs, EndFailedStep(p), ~open
       PROVE  UNCHANGED dirs
  BY <1>10 DEF EndFailedStep
<1>11. CASE UNCHANGED recordsVars
  BY <1>11
<1> QED
  BY <1>2, <1>3, <1>4, <1>5, <1>6, <1>7, <1>8, <1>9, <1>10, <1>11
     DEF RecordsNext, Work, Try, Handle

\* The stages in which the events are still about the steps begun, and none has failed.
Trying == {"preparing", "running", "reported", "raised"}

LEMMA BehindStep == RecordsInv /\ [RecordsNext]_recordsVars => EventsAreBehind'
<1> SUFFICES ASSUME RecordsInv, [RecordsNext]_recordsVars PROVE EventsAreBehind'
  OBVIOUS
<1>1. /\ stage \in [Procs -> {"down", "up"} \cup Migrating \cup Executing]
      /\ step \in 0..6 /\ open \in BOOLEAN
  BY DEF RecordsInv, RecordsTypeOK
<1>2. \A p \in Procs : At(p, Trying) => Behind(dirs[Newest].events, step, open)
  BY DEF RecordsInv, EventsAreBehind, Behind, Trying
<1>3. SUFFICES ASSUME NEW q \in Procs, stage'[q] \in Trying
               PROVE  Behind(dirs'[Newest'].events, step', open')
  BY DEF EventsAreBehind, Behind, Trying
<1>4. CASE BeginExecution(q)
  <2>1. Newest' # Newest
    <3>1. rows' = Append(rows, None)
      BY <1>4 DEF BeginExecution
    <3>2. rows \in Seq(Row \cup {None}) /\ None \in Row \cup {None}
      BY RecordsFacts
    <3> QED
      BY <3>1, <3>2, AppendProperties
  <2>2. dirs'[Newest'].events = <<>>
    BY <2>1, DirsAreKept DEF EmptyDir
  <2> QED
    BY <2>2 DEF Behind
<1>5. CASE ~BeginExecution(q)
  <2>1. At(q, Executing) /\ Busy /\ \A p \in Procs : ~BeginExecution(p)
    <3>1. At(q, Executing)
      BY <1>3, <1>5, StageStep DEF Trying
    <3>2. Busy
      BY <3>1, Zenon DEF Busy
    <3> QED
      BY <3>1, <3>2 DEF BeginExecution
  <2>2. Newest' = Newest /\ Newest \in 1..Newest /\ dirs[Newest].events \in Seq(Event)
    BY <2>1, RowsAreKept, RecordsFacts DEF Dir
  <2>3. \A p \in Procs : At(p, Executing) => p = q
    BY <2>1 DEF RecordsInv, OneExecutes
  <2>4. ASSUME NEW p \in Procs,
               Open(p) \/ Migrate(p) \/ SuggestRepair(p) \/ (ProcessDies(p) /\ ~At(p, Executing))
        PROVE  Behind(dirs'[Newest'].events, step', open')
    <3>1. /\ dirs'[Newest].events = dirs[Newest].events
          /\ UNCHANGED <<step, open>> /\ stage'[q] = stage[q]
      BY <1>3, <2>2, <2>4, BystanderEffect DEF Trying
    <3> QED
      BY <1>2, <1>3, <2>2, <3>1
  <2>5. CASE StartStep(q)
    <3>1. At(q, Trying) /\ step' = step + 1 /\ open' = TRUE
      BY <2>5 DEF StartStep, Trying
    <3>2. Behind(dirs[Newest].events, step + 1, TRUE)
      BY <1>1, <1>2, <2>2, <3>1, BehindLater
    <3>3. step + 1 \in Steps
      BY <1>1, <2>5 DEF StartStep, Steps
    <3>4. Behind(Append(dirs[Newest].events, [kind |-> "start", step |-> step + 1]), step + 1, TRUE)
      BY <2>2, <3>2, <3>3, BehindEvent
    <3>5. \A p \in Procs : ~EndStep(p) /\ ~EndFailedStep(p)
      BY <2>3, <2>5 DEF StartStep, EndStep, EndFailedStep
    <3>6. dirs'[Newest].events \in {dirs[Newest].events,
             Append(dirs[Newest].events, [kind |-> "start", step |-> step + 1])}
      BY <2>1, <3>5, EventsStep
    <3> QED
      BY <2>2, <3>1, <3>2, <3>4, <3>6
  <2>6. CASE EndStep(q)
    <3>1. At(q, Trying) /\ step' = step /\ open' = FALSE /\ step \in Steps
      BY <1>1, <2>6 DEF EndStep, Trying, Steps, RecordsInv, ProgressMade
    <3>2. Behind(dirs[Newest].events, step, FALSE)
      BY <1>1, <1>2, <2>2, <3>1, BehindLater
    <3>3. Behind(Append(dirs[Newest].events, [kind |-> "ok", step |-> step]), step, FALSE)
      BY <2>2, <3>1, <3>2, BehindEvent
    <3>4. \A p \in Procs : ~StartStep(p) /\ ~EndFailedStep(p)
      BY <2>3, <2>6 DEF StartStep, EndStep, EndFailedStep, BetweenSteps
    <3>5. dirs'[Newest].events \in {dirs[Newest].events,
             Append(dirs[Newest].events, [kind |-> "ok", step |-> step])}
      BY <2>1, <3>4, EventsStep
    <3> QED
      BY <2>2, <3>1, <3>2, <3>3, <3>5
  <2>7. CASE \/ WriteInput(q) \/ InsertRoot(q) \/ InsertChild(q) \/ BackUpStep(q) \/ StepFails(q)
             \/ Breaks(q) \/ WriteReport(q) \/ TearReport(q)
    <3>1. At(q, Trying) /\ UNCHANGED <<step, open>>
      BY <2>7 DEF WriteInput, InsertRoot, InsertChild, Insert, BackUpStep, StepFails, Breaks, Ready,
                  WriteReport, TearReport, Trying
    <3>2. dirs'[Newest].events = dirs[Newest].events
      BY <2>1, <2>7, QuietEffect
    <3> QED
      BY <1>2, <2>2, <3>1, <3>2
  <2>8. CASE NeverStarts(q) \/ Handle(q) \/ CloseRow(q) \/ (ProcessDies(q) /\ At(q, Executing))
    <3>1. stage'[q] \in {"up", "down", "failing", "reporting", "closing"}
      BY <1>1, <2>8 DEF NeverStarts, CloseRow, Handle, EndFailedStep, RollBack, ReportFailure,
                        HandlerBreaks, CloseFailedRow, ProcessDies, Leaves
    <3> QED
      BY <1>3, <3>1 DEF Trying
  <2>9. ASSUME NEW p \in Procs, Prepare(p) \/ Try(p) \/ Handle(p)
        PROVE  p = q
    BY <2>3, <2>9
       DEF Prepare, WriteInput, InsertRoot, InsertChild, Insert, NeverStarts, Try, StartStep, EndStep,
           BackUpStep, StepFails, Breaks, Ready, WriteReport, TearReport, CloseRow, Handle,
           EndFailedStep, RollBack, ReportFailure, HandlerBreaks, CloseFailedRow
  <2>10. CASE UNCHANGED recordsVars
    BY <1>2, <1>3, <2>10
  <2> QED
    BY <2>1, <2>3, <2>4, <2>5, <2>6, <2>7, <2>8, <2>9, <2>10
       DEF RecordsNext, Work, Prepare, Try
<1> QED
  BY <1>4, <1>5

\* Each event comes after those of the steps begun so far, and an execution that fails or
\* whose row closes as completed adds none.
LEMMA OrderedStep == RecordsInv /\ [RecordsNext]_recordsVars => EventsInOrder'
<1> SUFFICES ASSUME RecordsInv, [RecordsNext]_recordsVars PROVE EventsInOrder'
  OBVIOUS
<1> DEFINE Completed(e) == rows[e] # None /\ rows[e].status = "completed"
           Good(e) == /\ Ordered(dirs[e].events)
                      /\ HasFailed(dirs[e].events) => ~Completed(e)
<1>1. \A e \in 1..Newest : Good(e)
  BY RecordsFacts DEF RecordsInv, EventsInOrder, Ordered, HasFailed
<1>2. SUFFICES ASSUME NEW e \in 1..Newest' PROVE Good(e)'
  <2>1. DOMAIN dirs' = 1..Newest'
    BY DirsAreKept
  <2> QED
    BY <2>1 DEF EventsInOrder, Ordered, HasFailed
<1>3. CASE e \in 1..Newest /\ ~(e = Newest /\ Busy)
  BY <1>1, <1>3, RowsAreKept, DirsAreKept
<1>4. CASE e \notin 1..Newest
  <2>1. e = Newest' /\ Newest' # Newest
    BY <1>4, NewestGrows
  <2>2. dirs'[e].events = <<>>
    BY <2>1, DirsAreKept DEF EmptyDir
  <2> QED
    BY <2>2 DEF Ordered, HasFailed
<1>5. CASE e = Newest /\ Busy
  <2>1. PICK q \in Procs : At(q, Executing)
    BY <1>5 DEF Busy
  <2>2. /\ \A p \in Procs : ~BeginExecution(p) /\ (At(p, Executing) => p = q)
        /\ Newest \in 1..Newest /\ dirs[Newest].events \in Seq(Event)
    BY <1>5, <2>1, RecordsFacts DEF BeginExecution, RecordsInv, OneExecutes, Dir
  <2>3. ~Completed(Newest)
    BY <2>1, <2>2, RecordsFacts DEF RecordsInv, PendingRows, RowIsOpen, Recorded, Inserted
  <2>4. At(q, Trying) => Behind(dirs[Newest].events, step, open)
    BY DEF RecordsInv, EventsAreBehind, Behind, Trying
  <2>5. step \in 0..6 /\ (open => step # 0)
    BY DEF RecordsInv, RecordsTypeOK, ProgressMade
  <2>6. CASE CloseRow(q)
    <3>1. UNCHANGED dirs /\ At(q, Trying)
      BY <2>6 DEF CloseRow, Trying
    <3>2. ~HasFailed(dirs[Newest].events)
      BY <2>4, <3>1 DEF Behind, HasFailed
    <3> QED
      BY <1>1, <1>5, <2>2, <3>1, <3>2
  <2>7. CASE CloseFailedRow(q)
    <3>1. UNCHANGED dirs
      BY <2>7 DEF CloseFailedRow
    <3>2. PICK rec \in Row : rec.status \in Failed /\ rows' = [rows EXCEPT ![Newest] = rec]
      BY <2>7, CloseEffect
    <3>3. rows'[Newest].status # "completed"
      BY <2>2, <3>2, RecordsFacts DEF Failed
    <3> QED
      BY <1>1, <1>5, <2>2, <3>1, <3>3
  <2>8. CASE InsertRoot(q) \/ InsertChild(q)
    <3>1. UNCHANGED dirs
      BY <2>8 DEF InsertRoot, InsertChild, Insert
    <3>2. PICK rec \in Row : rec.status = "pending" /\ rows' = [rows EXCEPT ![Newest] = rec]
      BY <2>8, InsertEffect
    <3>3. rows'[Newest].status # "completed"
      BY <2>2, <3>2, RecordsFacts
    <3> QED
      BY <1>1, <1>5, <2>2, <3>1, <3>3
  <2>9. CASE UNCHANGED rows
    <3>1. ~Completed(e)'
      BY <1>5, <2>3, <2>9
    <3>2. SUFFICES Ordered(dirs'[Newest].events)
      BY <1>5, <3>1
    <3>3. ASSUME NEW kind \in {"start", "ok", "failed"}, NEW n \in Steps,
                 \A i \in DOMAIN dirs[Newest].events :
                    LET event == dirs[Newest].events[i]
                    IN  event.step < n \/ (event.step = n /\ event.kind = "start" /\ kind # "start"),
                 ~HasFailed(dirs[Newest].events)
          PROVE  Ordered(Append(dirs[Newest].events, [kind |-> kind, step |-> n]))
      <4> DEFINE x == [kind |-> kind, step |-> n]
                 s == dirs[Newest].events
      <4>1. x \in Event /\ x.kind = kind /\ x.step = n
        BY EventType
      <4>2. s \in Seq(Event) /\ Ordered(s) /\ ~HasFailed(s)
        BY <1>1, <2>2, <3>3
      <4>3. \A i \in DOMAIN s : \/ s[i].step < x.step
                                \/ s[i].step = x.step /\ s[i].kind = "start" /\ x.kind # "start"
        BY <3>3, <4>1
      <4> HIDE DEF x, s
      <4>4. Ordered(Append(s, x))
        BY <4>1, <4>2, <4>3, OrderedAppend
      <4> QED
        BY <4>4 DEF x, s
    <3>4. ASSUME At(q, Trying)
          PROVE  /\ ~HasFailed(dirs[Newest].events)
                 /\ \A i \in DOMAIN dirs[Newest].events :
                       LET event == dirs[Newest].events[i]
                       IN  /\ event.step < step + 1
                           /\ open => event.step < step \/ (event.step = step /\ event.kind = "start")
      <4>1. \A i \in DOMAIN dirs[Newest].events : dirs[Newest].events[i].step \in Nat
        <5>1. \A i \in 1..Len(dirs[Newest].events) : dirs[Newest].events[i] \in Event
          BY <2>2, ElementOfSeq
        <5>2. DOMAIN dirs[Newest].events = 1..Len(dirs[Newest].events)
          BY <2>2
        <5> QED
          BY <5>1, <5>2, SMTT(30) DEF Event, Steps
      <4>2. Behind(dirs[Newest].events, step, open)
        BY <2>4, <3>4
      <4>3. ~HasFailed(dirs[Newest].events)
        BY <4>2 DEF Behind, HasFailed
      <4> QED
        BY <2>5, <4>1, <4>2, <4>3, SMTT(30) DEF Behind
    <3>5. CASE dirs'[Newest].events = dirs[Newest].events
      BY <1>1, <2>2, <3>5
    <3>6. ASSUME NEW p \in Procs, NEW kind \in {"start", "ok", "failed"}, NEW n \in Steps,
                 dirs'[Newest].events = Append(dirs[Newest].events, [kind |-> kind, step |-> n]),
                 \/ StartStep(p) /\ kind = "start" /\ n = step + 1
                 \/ EndStep(p) /\ kind = "ok" /\ n = step
                 \/ EndFailedStep(p) /\ open /\ kind = "failed" /\ n = step
          PROVE  Ordered(dirs'[Newest].events)
      <4>1. p = q /\ At(q, Trying)
        BY <2>2, <3>6 DEF StartStep, EndStep, EndFailedStep, Trying
      <4>2. EndStep(p) => open
        BY DEF EndStep
      <4>3. \A i \in DOMAIN dirs[Newest].events :
               LET event == dirs[Newest].events[i]
               IN  event.step < n \/ (event.step = n /\ event.kind = "start" /\ kind # "start")
        BY <3>4, <3>6, <4>1, <4>2
      <4> QED
        BY <3>3, <3>4, <3>6, <4>1, <4>3
    <3> QED
      BY <1>5, <3>5, <3>6, EventsStep
  <2>10. ASSUME NEW p \in Procs, CloseRow(p) \/ CloseFailedRow(p) \/ InsertRoot(p) \/ InsertChild(p)
         PROVE  p = q
    BY <2>2, <2>10 DEF CloseRow, CloseFailedRow, InsertRoot, InsertChild, Insert
  <2> QED
    BY <2>2, <2>6, <2>7, <2>8, <2>9, <2>10, RowsStep
<1> QED
  BY <1>3, <1>4, <1>5

\* A repair refers to executions that ended, and those keep their rows.
LEMMA RepairStep ==
  RecordsInv /\ [RecordsNext]_recordsVars => RepairsAreOfFailures' /\ RepairIsGrounded'
<1> SUFFICES ASSUME RecordsInv, [RecordsNext]_recordsVars
             PROVE  RepairsAreOfFailures' /\ RepairIsGrounded'
  OBVIOUS
<1> DEFINE IsFailure(e) == rows[e] # None /\ rows[e].status \in Failed
           Grounds(x, e) == /\ x \in 1..Newest /\ rows[x] # None /\ rows[x].status = "completed"
                            /\ rows[x].chain # rows[e].chain
                            /\ Score(rows[e], rows[x]) >= Threshold
           Good(e, r) == r # None => /\ IsFailure(e)
                                     /\ r.evidence # None => Grounds(r.evidence, e)
<1>1. \A e \in 1..Newest : Good(e, dirs[e].repair)
  BY RecordsFacts DEF RecordsInv, RepairsAreOfFailures, RepairIsGrounded, WithStatus, Recorded
<1>2. \A e \in 1..Newest :
         rows[e] # None /\ rows[e].status \in {"completed"} \cup Failed => rows'[e] = rows[e]
  <2>1. Busy => rows[Newest] = None \/ rows[Newest].status = "pending"
    BY RecordsFacts DEF RecordsInv, PendingRows, RowIsOpen, Recorded, Busy, Inserted
  <2> QED
    BY <2>1, RowsAreKept DEF Failed
<1>3. \A e \in 1..Newest : e \in 1..Newest'
  BY NewestGrows
<1>4. \A e \in 1..Newest : \A r : Good(e, r) => Good(e, r)'
  BY <1>2, <1>3
<1>5. SUFFICES ASSUME NEW e \in 1..Newest', NEW r, r = dirs'[e].repair PROVE Good(e, r)'
  <2>1. DOMAIN dirs' = 1..Newest' /\ DOMAIN rows' = 1..Newest'
    BY DirsAreKept, NewestGrows
  <2> QED
    BY <2>1 DEF RepairsAreOfFailures, RepairIsGrounded, WithStatus, Recorded
<1>6. CASE e \in 1..Newest /\ dirs'[e].repair = dirs[e].repair
  BY <1>1, <1>4, <1>5, <1>6, SMTT(30)
<1>7. CASE e \notin 1..Newest
  <2>1. e = Newest' /\ Newest' # Newest
    BY <1>7, NewestGrows
  <2> QED
    BY <1>5, <2>1, DirsAreKept DEF EmptyDir
<1>8. ASSUME NEW p \in Procs, SuggestRepair(p), e \in 1..Newest, dirs'[e].repair # dirs[e].repair
      PROVE  Good(e, r)'
  <2>1. PICK f \in WithStatus(rows, Failed) :
           /\ f \in 1..Newest
           /\ Proposal(f).evidence # None => Proposal(f).evidence \in Successes(rows, f)
           /\ dirs' = [dirs EXCEPT ![f] = [dirs[f] EXCEPT !.repair = Proposal(f)]]
    BY <1>8, SuggestEffect
  <2>2. e = f /\ dirs'[e] = [dirs[e] EXCEPT !.repair = Proposal(e)]
    BY <1>8, <2>1, RecordsFacts
  <2>3. dirs'[e].repair = Proposal(e)
    BY <1>8, <2>2, RecordsFacts DEF Dir
  <2>4. IsFailure(e)
    BY <2>1, <2>2 DEF WithStatus, Recorded
  <2>5. \A x \in Successes(rows, e) : Grounds(x, e)
    BY RecordsFacts DEF Successes, Similar, Matches, WithStatus, Recorded
  <2>6. Good(e, Proposal(e))
    BY <2>1, <2>2, <2>4, <2>5
  <2> QED
    BY <1>4, <1>5, <1>8, <2>3, <2>6
<1> QED
  BY <1>6, <1>7, <1>8, DirsAreKept

\* The first column is added when there is none, so one process adds all; a migration
\* that is left half way leaves its mark.
LEMMA ColumnStep ==
  ASSUME ColumnsInOrder, RecordsTypeOK, NEW p \in Procs, AddColumn(p)
  PROVE  ColumnsInOrder'
<1> DEFINE First(n) == {GraphColumns[i] : i \in 1..(n - 1)}
           new == GraphColumns[column[p]]
<1>1. /\ stage \in [Procs -> {"down", "up"} \cup Migrating \cup Executing]
      /\ column \in [Procs -> 1..4] /\ columns \subseteq AllColumns
      /\ At(p, {"altering"})
  BY DEF RecordsTypeOK, AddColumn
<1>2. GraphColumns = <<"correlation_id", "parent_execution_id", "trigger_kind", "run_id">>
  BY DEF GraphColumns
<1>3. /\ First(1) = {} /\ First(2) = {GraphColumns[1]}
      /\ First(3) = {GraphColumns[1], GraphColumns[2]}
      /\ First(4) = {GraphColumns[1], GraphColumns[2], GraphColumns[3]}
      /\ AllColumns = First(4) \cup {GraphColumns[4]}
  <2>1. 1..0 = {} /\ 1..1 = {1} /\ 1..2 = {1, 2} /\ 1..3 = {1, 2, 3} /\ 1..4 = {1, 2, 3, 4}
    OBVIOUS
  <2> QED
    BY <2>1 DEF AllColumns
<1>4. \A q \in Procs : column[q] > 1 => At(q, {"altering"}) /\ columns = First(column[q])
  BY DEF ColumnsInOrder
<1> HIDE DEF First
<1>5. CASE new \in columns
  <2>1. column[p] = 1
    <3>1. column[p] > 1 => columns = First(column[p])
      BY <1>4
    <3>2. column[p] \in {1, 2, 3, 4}
      BY <1>1
    <3> QED
      BY <1>2, <1>3, <1>5, <3>1, <3>2
  <2>2. stage' = [stage EXCEPT ![p] = "down"] /\ UNCHANGED <<columns, column, version, torn>>
    BY <1>5 DEF AddColumn
  <2>3. \A q \in Procs : q # p => stage'[q] = stage[q]
    BY <1>1, <2>2
  <2>4. stage'[p] = "down"
    BY <1>1, <2>2
  <2> QED
    BY <2>1, <2>2, <2>3, <2>4 DEF ColumnsInOrder
<1>6. CASE new \notin columns
  <2>1. columns' = columns \cup {new} /\ UNCHANGED <<version, torn>>
    BY <1>6 DEF AddColumn
  <2>2. \A q \in Procs : q # p => column[q] = 1
    <3>1. ASSUME NEW q \in Procs, q # p, column[q] > 1 PROVE FALSE
      <4>1. column[p] = 1
        BY <1>1, <3>1 DEF ColumnsInOrder
      <4>2. columns = First(column[q]) /\ column[q] \in {2, 3, 4}
        BY <1>1, <1>4, <3>1
      <4> QED
        BY <1>3, <1>6, <4>1, <4>2
    <3> QED
      BY <1>1, <3>1
  <2>3. columns = First(column[p])
    <3>1. CASE column[p] = 1
      BY <1>2, <1>3, <1>6, <3>1, SMTT(30) DEF ColumnsInOrder
    <3>2. CASE column[p] # 1
      BY <1>1, <1>4, <3>2
    <3> QED
      BY <3>1, <3>2
  <2>4. "correlation_id" \in columns' /\ columns' # {}
    <3>1. column[p] \in {1, 2, 3, 4}
      BY <1>1
    <3> QED
      BY <1>2, <1>3, <2>1, <2>3, <3>1
  <2>5. CASE column[p] = 4
    <3>1. column' = [column EXCEPT ![p] = 1]
      BY <1>6, <2>5 DEF AddColumn
    <3>2. columns' = AllColumns
      BY <1>3, <2>1, <2>3, <2>5
    <3>3. \A q \in Procs : column'[q] = 1
      BY <1>1, <2>2, <3>1
    <3> QED
      BY <2>4, <3>2, <3>3 DEF ColumnsInOrder
  <2>6. CASE column[p] # 4
    <3>1. column' = [column EXCEPT ![p] = @ + 1] /\ UNCHANGED stage
      BY <1>6, <2>6 DEF AddColumn
    <3>2. column'[p] = column[p] + 1 /\ \A q \in Procs : q # p => column'[q] = 1
      BY <1>1, <2>2, <3>1
    <3>3. columns' = First(column'[p])
      <4>1. column[p] \in {1, 2, 3}
        BY <1>1, <2>6
      <4> QED
        BY <1>3, <2>1, <2>3, <3>2, <4>1
    <3>4. column'[p] > 1
      BY <1>1, <3>2
    <3> QED
      BY <1>1, <2>4, <3>1, <3>2, <3>3, <3>4 DEF ColumnsInOrder, First
  <2> QED
    BY <2>5, <2>6
<1> QED
  BY <1>5, <1>6

LEMMA SchemaStep == RecordsInv /\ [RecordsNext]_recordsVars => ColumnsInOrder'
<1> SUFFICES ASSUME RecordsInv, [RecordsNext]_recordsVars PROVE ColumnsInOrder'
  OBVIOUS
<1>1. /\ stage \in [Procs -> {"down", "up"} \cup Migrating \cup Executing]
      /\ column \in [Procs -> 1..4] /\ ColumnsInOrder /\ RecordsTypeOK
  BY DEF RecordsInv, RecordsTypeOK
<1>2. ASSUME NEW p \in Procs, AddColumn(p) PROVE ColumnsInOrder'
  BY <1>1, <1>2, ColumnStep
<1> DEFINE Stages == {"down", "up"} \cup Migrating \cup Executing
<1>3. ASSUME UNCHANGED schema,
             \A q \in Procs : At(q, {"altering"}) => stage'[q] = "altering",
             \A q \in Procs : stage'[q] = "recording" => At(q, {"recording"}) \/ columns # {}
      PROVE  ColumnsInOrder'
  BY <1>1, <1>3 DEF ColumnsInOrder
<1>4. ASSUME NEW p \in Procs, UNCHANGED schema, ~At(p, {"altering"}),
             UNCHANGED stage \/ \E where \in Stages \ {"recording"} : Proceeds(p, where)
      PROVE  ColumnsInOrder'
  <2>1. \A q \in Procs : At(q, {"altering"}) => stage'[q] = "altering"
    BY <1>1, <1>4
  <2>2. \A q \in Procs : stage'[q] = "recording" => At(q, {"recording"})
    BY <1>1, <1>4
  <2> QED
    BY <1>3, <1>4, <2>1, <2>2
<1>5. ASSUME NEW p \in Procs, Open(p) \/ SuggestRepair(p) \/ BeginExecution(p)
      PROVE  ColumnsInOrder'
  <2>1. /\ UNCHANGED schema /\ ~At(p, {"altering"})
        /\ UNCHANGED stage \/ \E where \in Stages \ {"recording"} : Proceeds(p, where)
    BY <1>5 DEF Open, SuggestRepair, BeginExecution
  <2> QED
    BY <1>4, <2>1
<1>6. ASSUME NEW p \in Procs, Prepare(p) \/ Handle(p)
      PROVE  ColumnsInOrder'
  <2>1. /\ UNCHANGED schema /\ ~At(p, {"altering"})
        /\ UNCHANGED stage \/ \E where \in Stages \ {"recording"} : Proceeds(p, where)
    BY <1>6 DEF Prepare, WriteInput, InsertRoot, InsertChild, Insert, NeverStarts, Leaves, Handle,
                EndFailedStep, RollBack, ReportFailure, HandlerBreaks, CloseFailedRow
  <2> QED
    BY <1>4, <2>1
<1>7. ASSUME NEW p \in Procs, Try(p)
      PROVE  ColumnsInOrder'
  <2>1. /\ UNCHANGED schema /\ ~At(p, {"altering"})
        /\ UNCHANGED stage \/ \E where \in Stages \ {"recording"} : Proceeds(p, where)
    BY <1>7 DEF Try, StartStep, EndStep, BackUpStep, StepFails, Breaks, Raise, Ready, WriteReport,
                TearReport, CloseRow, Leaves
  <2> QED
    BY <1>4, <2>1
<1>8. ASSUME NEW p \in Procs, Inspect(p)
      PROVE  ColumnsInOrder'
  <2>1. UNCHANGED schema /\ At(p, {"inspecting"})
    BY <1>8 DEF Inspect
  <2>2. \A q \in Procs : q # p => stage'[q] = stage[q]
    BY <1>1, <1>8 DEF Inspect
  <2>3. stage'[p] = "recording" => columns # {}
    BY <1>1, <1>8 DEF Inspect
  <2> QED
    BY <1>3, <2>1, <2>2, <2>3
<1>9. ASSUME NEW p \in Procs, RecordVersion(p)
      PROVE  ColumnsInOrder'
  <2>1. /\ At(p, {"recording"}) /\ UNCHANGED <<columns, column, torn>>
        /\ stage' = [stage EXCEPT ![p] = "up"]
    BY <1>9 DEF RecordVersion
  <2>2. columns # {} /\ ~(column[p] > 1)
    BY <1>1, <2>1 DEF ColumnsInOrder
  <2>3. stage'[p] = "up" /\ \A q \in Procs : q # p => stage'[q] = stage[q]
    BY <1>1, <2>1
  <2> QED
    BY <1>1, <2>1, <2>2, <2>3 DEF ColumnsInOrder
<1>10. ASSUME NEW p \in Procs, MigrationFails(p) \/ ProcessDies(p)
       PROVE  ColumnsInOrder'
  <2>1. /\ UNCHANGED <<columns, version>> /\ column' = [column EXCEPT ![p] = 1]
        /\ torn' = (torn \/ column[p] > 1)
    BY <1>10 DEF MigrationFails, ProcessDies
  <2>2. stage' = [stage EXCEPT ![p] = "down"]
    BY <1>10 DEF MigrationFails, ProcessDies, Leaves
  <2>3. /\ stage'[p] = "down" /\ \A q \in Procs : q # p => stage'[q] = stage[q]
        /\ column'[p] = 1 /\ \A q \in Procs : q # p => column'[q] = column[q]
    BY <1>1, <2>1, <2>2
  <2>4. (\A q \in Procs : column'[q] = 1) => columns' \in {{}, AllColumns} \/ torn'
    <3>1. CASE column[p] > 1
      BY <2>1, <3>1
    <3>2. CASE ~(column[p] > 1)
      <4>1. column[p] = 1
        BY <1>1, <3>2
      <4> QED
        BY <1>1, <2>1, <2>3, <4>1 DEF ColumnsInOrder
    <3> QED
      BY <3>1, <3>2
  <2> QED
    BY <1>1, <2>1, <2>3, <2>4 DEF ColumnsInOrder
<1>11. CASE UNCHANGED recordsVars
  <2>1. UNCHANGED <<schema, stage>>
    BY <1>11
  <2> QED
    BY <1>3, <2>1
<1> QED
  BY <1>2, <1>5, <1>6, <1>7, <1>8, <1>9, <1>10, <1>11 DEF RecordsNext, Work, Migrate

LEMMA RecordsInitIsGood == RecordsInit => RecordsInv
<1> SUFFICES ASSUME RecordsInit PROVE RecordsInv
  OBVIOUS
<1>1. /\ rows = <<>> /\ dirs = <<>> /\ lost = {} /\ columns = {} /\ version = 0
      /\ stage = [p \in Procs |-> "down"] /\ column = [p \in Procs |-> 1]
      /\ open = FALSE /\ step = 0
  BY DEF RecordsInit
<1>2. RecordsTypeOK
  <2>1. requested \in Requests
    BY ChosenRequest DEF RecordsInit
  <2>2. step = 0 /\ open = FALSE /\ backedUp = FALSE /\ torn = FALSE
    BY DEF RecordsInit
  <2>3. open \in BOOLEAN /\ backedUp \in BOOLEAN /\ torn \in BOOLEAN
    BY <2>2, Zenon
  <2>4. error \in {NoError} \cup Errors /\ status \in {"pending"} \cup Failed
    BY DEF RecordsInit
  <2>5. troubles \in 0..MaxEvents
    BY RecordsAssumption DEF RecordsInit, RecordsAssumption
  <2>6. rows \in Seq(Row \cup {None}) /\ dirs \in Seq(Dir) /\ Len(dirs) = Len(rows)
    BY <1>1
  <2>7. lost \subseteq DOMAIN rows /\ step \in 0..6
    BY <1>1
  <2>8. /\ stage \in [Procs -> {"down", "up"} \cup Migrating \cup Executing]
        /\ column \in [Procs -> 1..4] /\ columns \subseteq AllColumns /\ version \in {0, 1}
    BY <1>1
  <2> QED
    BY <2>1, <2>3, <2>4, <2>5, <2>6, <2>7, <2>8 DEF RecordsTypeOK
<1>3. ~Busy /\ \A p \in Procs : stage[p] = "down" /\ column[p] = 1
  BY <1>1 DEF Busy
<1>4. DOMAIN rows = {} /\ DOMAIN dirs = {}
  BY <1>1
<1>5. OneExecutes /\ PendingRows /\ ProgressMade /\ EventsAreBehind
  BY <1>1, <1>3, <1>4 DEF OneExecutes, PendingRows, ProgressMade, EventsAreBehind, Inserted
<1>6. EndedIsReported /\ EventsInOrder /\ RepairsAreOfFailures /\ RepairIsGrounded
  BY <1>4 DEF EndedIsReported, WithStatus, Recorded, EventsInOrder, RepairsAreOfFailures,
              RepairIsGrounded
<1>7. ColumnsInOrder
  BY <1>1, <1>3 DEF ColumnsInOrder
<1> QED
  BY <1>2, <1>5, <1>6, <1>7 DEF RecordsInv

\* The invariant that the results below follow from: where each execution stands, what it has
\* written by then, and what is kept when its row closes, is lost or is referred to.
THEOREM RecordsInductive == RecordsSpec => []RecordsInv
<1>1. RecordsInv /\ [RecordsNext]_recordsVars => RecordsInv'
  BY RecordsTypeStep, OneExecutesStep, PendingStep, ProgressStep, ReportedStep, BehindStep,
     OrderedStep, RepairStep, SchemaStep DEF RecordsInv
<1> QED
  BY <1>1, RecordsInitIsGood, PTL DEF RecordsSpec

LEMMA DisjointUnion ==
  ASSUME NEW S, NEW T, IsFiniteSet(S), IsFiniteSet(T), S \cap T = {}
  PROVE  IsFiniteSet(S \cup T) /\ Cardinality(S \cup T) = Cardinality(S) + Cardinality(T)
<1>1. Cardinality(S) \in Nat /\ Cardinality(T) \in Nat /\ Cardinality(S \cap T) = 0
  BY FS_CardinalityType, FS_EmptySet
<1>2. /\ IsFiniteSet(S \cup T)
      /\ Cardinality(S \cup T) = Cardinality(S) + Cardinality(T) - Cardinality(S \cap T)
  BY FS_Union
<1> QED
  BY <1>1, <1>2

\* The rows that are open are the execution under way and those that were lost.
LEMMA PendingCounted == RecordsInv => PendingIsOpen
<1> SUFFICES ASSUME RecordsInv PROVE PendingIsOpen
  OBVIOUS
<1> DEFINE Done == WithStatus(rows, {"completed"})
           Bad == WithStatus(rows, Failed)
           Pend == {e \in Recorded(rows) : rows[e].status = "pending"}
           Mine == IF Busy /\ rows[Newest] # None THEN {Newest} ELSE {}
<1>1. /\ IsFiniteSet(Done) /\ IsFiniteSet(Bad) /\ IsFiniteSet(Pend) /\ IsFiniteSet(Recorded(rows))
      /\ IsFiniteSet(lost)
  <2>1. IsFiniteSet(1..Newest)
    BY FS_Interval, RecordsFacts
  <2>2. Recorded(rows) \subseteq 1..Newest /\ lost \subseteq 1..Newest
    BY RecordsFacts DEF Recorded, RecordsInv, RecordsTypeOK
  <2> QED
    BY <2>1, <2>2, FS_Subset DEF WithStatus
<1>2. /\ Recorded(rows) = (Done \cup Bad) \cup Pend
      /\ Done \cap Bad = {} /\ (Done \cup Bad) \cap Pend = {}
  <2>1. \A e \in Recorded(rows) : rows[e].status \in {"completed", "failed", "rolled_back", "pending"}
    BY RecordsFacts DEF Recorded, Row, Ended
  <2> QED
    BY <2>1 DEF WithStatus, Failed
<1>3. Pend = lost \cup Mine /\ lost \cap Mine = {}
  <2>1. \A e : e \in Pend <=> \/ e \in lost
                              \/ e \in 1..Newest /\ e = Newest /\ \E p \in Procs : At(p, Inserted)
    BY RecordsFacts DEF RecordsInv, RecordsTypeOK, PendingRows, RowIsOpen, Recorded
  <2>2. \A e : e \in Mine <=> e \in 1..Newest /\ e = Newest /\ \E p \in Procs : At(p, Inserted)
    BY RecordsFacts DEF RecordsInv, PendingRows, Busy, Inserted, RowIsOpen, Recorded
  <2>3. lost \cap Mine = {}
    BY DEF RecordsInv, PendingRows, Busy
  <2> QED
    BY <2>1, <2>2, <2>3
<1>4. Cardinality(Recorded(rows)) = Cardinality(Done) + Cardinality(Bad) + Cardinality(Pend)
  <2> HIDE DEF Done, Bad, Pend
  <2>1. /\ IsFiniteSet(Done \cup Bad)
        /\ Cardinality(Done \cup Bad) = Cardinality(Done) + Cardinality(Bad)
    BY <1>1, <1>2, DisjointUnion
  <2>2. Cardinality(Recorded(rows)) = Cardinality(Done \cup Bad) + Cardinality(Pend)
    BY <1>1, <1>2, <2>1, DisjointUnion
  <2> QED
    BY <2>1, <2>2
<1>5. Cardinality(Pend) = Cardinality(lost) + (IF Busy /\ rows[Newest] # None THEN 1 ELSE 0)
  <2>1. IsFiniteSet(Mine) /\ Cardinality(Mine) = IF Busy /\ rows[Newest] # None THEN 1 ELSE 0
    BY FS_EmptySet, FS_Singleton
  <2> HIDE DEF Mine, Pend
  <2>2. Cardinality(Pend) = Cardinality(lost) + Cardinality(Mine)
    BY <1>1, <1>3, <2>1, DisjointUnion
  <2> QED
    BY <2>1, <2>2
<1>6. Cardinality(Done) \in Nat /\ Cardinality(Bad) \in Nat /\ Cardinality(Pend) \in Nat
  BY <1>1, FS_CardinalityType
<1> QED
  BY <1>4, <1>5, <1>6 DEF PendingIsOpen, Statistics

\* Table and directories fit each other: whatever ended can be replayed and was reported as it
\* is recorded, and what is open is under way or was lost.
THEOREM RowsFit == RecordsSpec => []RowsFitDirectories
<1>1. RecordsInv => RowsFitDirectories
  BY PendingCounted DEF RecordsInv, RowsFitDirectories
<1> QED
  BY <1>1, RecordsInductive, PTL

\* The events that were not lost tell the story of each execution in its order.
THEOREM EventsOrdered == RecordsSpec => []EventsInOrder
<1>1. RecordsInv => EventsInOrder
  BY DEF RecordsInv
<1> QED
  BY <1>1, RecordsInductive, PTL

\* The evidence of a repair stays a success of another chain that is similar enough.
THEOREM RepairsGrounded == RecordsSpec => []RepairIsGrounded
<1>1. RecordsInv => RepairIsGrounded
  BY DEF RecordsInv
<1> QED
  BY <1>1, RecordsInductive, PTL

\* A column that is there stays.
LEMMA ColumnsGrow == [RecordsNext]_recordsVars => columns \subseteq columns'
<1> SUFFICES ASSUME [RecordsNext]_recordsVars PROVE columns \subseteq columns'
  OBVIOUS
<1>1. ASSUME NEW p \in Procs, Migrate(p) PROVE columns \subseteq columns'
  BY <1>1 DEF Migrate, Inspect, AddColumn, RecordVersion, MigrationFails
<1>2. ASSUME NEW p \in Procs,
             Open(p) \/ Prepare(p) \/ BeginExecution(p) \/ SuggestRepair(p) \/ ProcessDies(p)
      PROVE  UNCHANGED columns
  BY <1>2 DEF Open, Prepare, WriteInput, InsertRoot, InsertChild, Insert, NeverStarts,
              BeginExecution, SuggestRepair, ProcessDies
<1>3. ASSUME NEW p \in Procs, Try(p) \/ Handle(p) PROVE UNCHANGED columns
  BY <1>3 DEF Try, StartStep, EndStep, BackUpStep, StepFails, Breaks, WriteReport, TearReport,
              CloseRow, Handle, EndFailedStep, RollBack, ReportFailure, HandlerBreaks,
              CloseFailedRow
<1>4. CASE UNCHANGED recordsVars
  BY <1>4
<1> QED
  BY <1>1, <1>2, <1>3, <1>4 DEF RecordsNext, Work

\* An execution gets a row only when all columns are there.
RowsHaveColumns == Recorded(rows) # {} => columns = AllColumns

LEMMA RowsHaveColumnsStep ==
  ASSUME RecordsInv, RecordsInv', RowsHaveColumns, [RecordsNext]_recordsVars
  PROVE  RowsHaveColumns'
<1>1. columns \subseteq columns' /\ columns' \subseteq AllColumns
  BY ColumnsGrow DEF RecordsInv, RecordsTypeOK
<1>2. CASE columns = AllColumns
  BY <1>1, <1>2 DEF RowsHaveColumns
<1>3. CASE Recorded(rows) = {} /\ columns # AllColumns
  <2>1. Recorded(rows') = {}
    <3>1. CASE UNCHANGED rows
      BY <1>3, <3>1
    <3>2. ASSUME NEW p \in Procs, BeginExecution(p) PROVE Recorded(rows') = {}
      <4>1. /\ Newest' = Newest + 1 /\ rows'[Newest'] = None
            /\ \A e \in 1..Newest : rows'[e] = rows[e]
            /\ DOMAIN rows' = 1..Newest'
        <5>1. rows' = Append(rows, None)
          BY <3>2 DEF BeginExecution
        <5>2. rows \in Seq(Row \cup {None}) /\ None \in Row \cup {None}
          BY RecordsFacts
        <5> QED
          BY <5>1, <5>2, AppendProperties
      <4>2. \A e \in 1..Newest' : rows'[e] = None
        BY <1>3, <4>1, RecordsFacts DEF Recorded
      <4> QED
        BY <4>1, <4>2 DEF Recorded
    <3>3. ASSUME NEW p \in Procs, InsertRoot(p) \/ InsertChild(p) PROVE FALSE
      BY <1>3, <3>3 DEF InsertRoot, InsertChild, Insert
    <3>4. ASSUME NEW p \in Procs, CloseRow(p) \/ CloseFailedRow(p) PROVE FALSE
      <4>1. rows[Newest] \in Row /\ At(p, {"reported", "closing"})
        BY <3>4, CloseEffect DEF CloseRow, CloseFailedRow
      <4>2. Newest \in Recorded(rows)
        BY <4>1, RecordsFacts DEF Recorded, RecordsInv, PendingRows, Inserted, RowIsOpen
      <4> QED
        BY <1>3, <4>2
    <3> QED
      BY <3>1, <3>2, <3>3, <3>4, RowsStep
  <2> QED
    BY <2>1 DEF RowsHaveColumns
<1> QED
  BY <1>2, <1>3 DEF RowsHaveColumns

\* A recorded version has its columns unless a process adds them still or a migration was left
\* half way, and no execution is recorded in a table that lacks one.
THEOREM VersionEarned == RecordsSpec => []VersionIsEarned
<1>1. RecordsInv /\ RowsHaveColumns => VersionIsEarned
  <2> SUFFICES ASSUME RecordsInv, RowsHaveColumns, version = 1 PROVE VersionIsEarned
    BY DEF VersionIsEarned, RowsHaveColumns
  <2>1. ColumnsInOrder /\ column \in [Procs -> 1..4] /\ columns # {}
    BY DEF RecordsInv, RecordsTypeOK, ColumnsInOrder
  <2>2. CASE \A p \in Procs : column[p] = 1
    BY <2>1, <2>2 DEF ColumnsInOrder, VersionIsEarned, RowsHaveColumns
  <2>3. ASSUME NEW p \in Procs, column[p] # 1 PROVE At(p, {"altering"})
    BY <2>1, <2>3 DEF ColumnsInOrder
  <2> QED
    BY <2>2, <2>3 DEF VersionIsEarned, RowsHaveColumns
<1>2. RecordsInit => RowsHaveColumns
  BY DEF RecordsInit, RowsHaveColumns, Recorded
<1>3. RecordsInv /\ RecordsInv' /\ RowsHaveColumns /\ [RecordsNext]_recordsVars
         => RowsHaveColumns'
  BY RowsHaveColumnsStep
<1> QED
  BY <1>1, <1>2, <1>3, RecordsInductive, PTL DEF RecordsSpec

-----------------------------------------------------------------------------
(* The graph of executions                                                 *)

\* Induction over an initial part of the naturals, for a set: what has no least element
\* outside holds everything.
LEMMA SetInduction ==
  ASSUME NEW N \in Nat, NEW T, 0 \in T,
         \A n \in 0..N : n \in T /\ n < N => n + 1 \in T
  PROVE  0..N \subseteq T
<1> DEFINE Bad == (0..N) \ T
           Starts == {0..n : n \in Bad}
<1> SUFFICES ASSUME Bad # {} PROVE FALSE
  OBVIOUS
<1>1. Starts \subseteq FiniteSubsetsOf(0..N) /\ Starts # {}
  <2>1. \A n \in Bad : 0..n \subseteq 0..N /\ IsFiniteSet(0..n)
    BY FS_Interval
  <2> QED
    BY <2>1 DEF FiniteSubsetsOf
<1>2. PICK x \in Starts : \A y \in Starts : <<y, x>> \notin StrictSubsetOrdering(0..N)
  BY <1>1, FS_StrictSubsetOrderingWellFounded, WFMin
<1>3. PICK m \in Bad : x = 0..m
  BY <1>2
<1>4. m \in 1..N
  OBVIOUS
<1>5. <<0..(m - 1), 0..m>> \in StrictSubsetOrdering(0..N)
  <2>1. 0..(m - 1) \subseteq 0..m /\ 0..m \subseteq 0..N
    BY <1>4
  <2>2. m \in 0..m /\ m \notin 0..(m - 1)
    BY <1>4
  <2> QED
    BY <2>1, <2>2 DEF StrictSubsetOrdering
<1>6. m - 1 \notin Bad
  BY <1>2, <1>3, <1>5
<1> QED
  BY <1>4, <1>6

\* A function that is defined from its value one place before exists.
Follows(f, N, first, then) == f[0] = first /\ \A n \in 1..N : f[n] = then[<<n, f[n - 1]>>]

LEMMA RecursionExists ==
  ASSUME NEW N \in Nat, NEW S, NEW first \in S, NEW then \in [(1..N) \X S -> S]
  PROVE  \E f \in [0..N -> S] : Follows(f, N, first, then)
<1> DEFINE Starts(k, f) == Follows(f, k, first, then)
           T == {k \in 0..N : \E f \in [0..k -> S] : Starts(k, f)}
<1> USE DEF Follows
<1>1. 0 \in T
  <2> DEFINE f == [i \in 0..0 |-> first]
  <2>1. f \in [0..0 -> S] /\ Starts(0, f)
    OBVIOUS
  <2> HIDE DEF f, Starts, Follows
  <2>2. \E h \in [0..0 -> S] : Starts(0, h)
    BY <2>1
  <2> QED
    BY <2>2
<1>2. ASSUME NEW k \in 0..N, k \in T, k < N PROVE k + 1 \in T
  <2>1. PICK f \in [0..k -> S] : Starts(k, f)
    BY <1>2
  <2> DEFINE g == [i \in 0..(k + 1) |-> IF i <= k THEN f[i] ELSE then[<<k + 1, f[k]>>]]
  <2>2. k \in 0..k /\ k + 1 \in 1..N
    BY <1>2
  <2>3. f[k] \in S
    BY <2>1, <2>2
  <2>4. then[<<k + 1, f[k]>>] \in S
    BY <2>2, <2>3
  <2>5. g \in [0..(k + 1) -> S]
    BY <2>1, <2>4
  <2>6. g[0] = first
    BY <2>1
  <2>7. ASSUME NEW n \in 1..(k + 1) PROVE g[n] = then[<<n, g[n - 1]>>]
    <3>1. CASE n <= k
      BY <2>1, <3>1
    <3>2. CASE n = k + 1
      <4>1. n - 1 = k /\ n \in 0..(k + 1) /\ k \in 0..(k + 1) /\ ~(n <= k)
        BY <3>2
      <4>2. g[n] = then[<<k + 1, f[k]>>] /\ g[k] = f[k]
        BY <4>1
      <4> QED
        BY <3>2, <4>1, <4>2
    <3> QED
      BY <3>1, <3>2
  <2>8. k + 1 \in 0..N
    BY <1>2
  <2>9. Starts(k + 1, g)
    BY <2>6, <2>7
  <2> HIDE DEF g, Starts, Follows
  <2>10. \E h \in [0..(k + 1) -> S] : Starts(k + 1, h)
    BY <2>5, <2>9
  <2> QED
    BY <2>8, <2>10
<1>3. N \in T
  <2> HIDE DEF T
  <2>1. \A k \in 0..N : k \in T /\ k < N => k + 1 \in T
    BY <1>2
  <2>2. 0..N \subseteq T
    BY <1>1, <2>1, SetInduction
  <2> QED
    BY <2>2
<1>4. PICK f \in [0..N -> S] : Starts(N, f)
  <2> HIDE DEF Starts, Follows
  <2> QED
    BY <1>3
<1> HIDE DEF Follows
<1> QED
  BY <1>4

\* A parent has a row before its child, and is in the same chain, which is named for the
\* execution without a parent.
IsForest(table) ==
    \A e \in Recorded(table) :
        /\ table[e].parent = None => table[e].chain = e
        /\ table[e].parent # None =>
              /\ table[e].parent \in Recorded(table) /\ table[e].parent < e
              /\ table[table[e].parent].chain = table[e].chain
        /\ table[e].chain \in Recorded(table) /\ table[table[e].chain].parent = None

\* What the lemmas about the look-ups need of the table.
IsTable(table) == table \in Seq(Row \cup {None}) /\ IsForest(table)

LEMMA TableFacts ==
  ASSUME NEW table, IsTable(table)
  PROVE  /\ Len(table) \in Nat /\ DOMAIN table = 1..Len(table)
         /\ Recorded(table) \subseteq 1..Len(table) /\ None \notin Recorded(table)
         /\ \A e \in Recorded(table) : table[e] \in Row
<1>1. Len(table) \in Nat /\ DOMAIN table = 1..Len(table)
  BY DEF IsTable
<1>2. \A e \in 1..Len(table) : table[e] \in Row \cup {None}
  BY DEF IsTable
<1>3. 1..Len(table) \subseteq Ids
  BY <1>1 DEF Ids
<1> QED
  BY <1>1, <1>2, <1>3, RecordsAssumption DEF Recorded, RecordsAssumption

\* The way up is what its recursive definition says.
LEMMA UpwardIs ==
  ASSUME NEW table, IsTable(table), NEW e \in Recorded(table)
  PROVE  /\ Upward(table, e) \in [0..Len(table) -> Recorded(table) \cup {None}]
         /\ Upward(table, e)[0] = e
         /\ \A n \in 1..Len(table) : Upward(table, e)[n] = Parent(table, Upward(table, e)[n - 1])
<1> DEFINE L == Len(table)
           S == Recorded(table) \cup {None}
           then == [x \in (1..L) \X S |-> Parent(table, x[2])]
           G(f) == [n \in 0..L |-> IF n = 0 THEN e ELSE Parent(table, f[n - 1])]
<1>1. L \in Nat /\ e \in S /\ None \notin Recorded(table)
  BY TableFacts
<1>2. \A x \in S : Parent(table, x) \in S
  <2>1. \A x \in Recorded(table) : table[x].parent \in S
    BY DEF IsTable, IsForest
  <2> QED
    BY <1>1, <2>1 DEF Parent
<1>3. then \in [(1..L) \X S -> S]
  BY <1>2
<1>4. PICK f \in [0..L -> S] : Follows(f, L, e, then)
  <2> HIDE DEF then, S, L
  <2> QED
    BY <1>1, <1>3, RecursionExists
<1>5. \A n \in 1..L : f[n] = Parent(table, f[n - 1])
  BY <1>1, <1>4 DEF Follows
<1>6. f = G(f)
  BY <1>1, <1>4, <1>5 DEF Follows
<1>7. Upward(table, e) = CHOOSE g : g = G(g)
  BY DEF Upward
<1>8. Upward(table, e) = G(Upward(table, e))
  <2> HIDE DEF G
  <2> QED
    BY <1>6, <1>7, Zenon
<1> DEFINE up == Upward(table, e)
<1>9. up[0] = e /\ \A n \in 1..L : up[n] = Parent(table, up[n - 1])
  <2> HIDE DEF up
  <2>1. up = G(up)
    BY <1>8 DEF up
  <2> QED
    BY <1>1, <2>1
<1>10. 0..L \subseteq {n \in 0..L : up[n] \in S}
  <2> DEFINE T == {n \in 0..L : up[n] \in S}
  <2> HIDE DEF up, S
  <2>1. 0 \in T
    BY <1>1, <1>9
  <2>2. \A n \in 0..L : n \in T /\ n < L => n + 1 \in T
    BY <1>1, <1>2, <1>9
  <2> HIDE DEF T
  <2>3. 0..L \subseteq T
    BY <1>1, <2>1, <2>2, SetInduction
  <2> QED
    BY <2>3 DEF T
<1> QED
  BY <1>8, <1>9, <1>10

\* Every step up leads to an earlier execution of the chain.
LEMMA UpwardDescends ==
  ASSUME NEW table, IsTable(table), NEW e \in Recorded(table)
  PROVE  \A n \in 0..Len(table) :
            LET a == Upward(table, e)[n]
            IN  a # None => a \in Recorded(table) /\ a + n <= e /\ table[a].chain = table[e].chain
<1> DEFINE L == Len(table)
           up == Upward(table, e)
           Above(a, n) == a \in Recorded(table) /\ a + n <= e /\ table[a].chain = table[e].chain
           T == {n \in 0..L : up[n] # None => Above(up[n], n)}
<1>1. L \in Nat /\ Recorded(table) \subseteq 1..L /\ None \notin Recorded(table)
  BY TableFacts
<1>2. up[0] = e /\ \A n \in 1..L : up[n] = Parent(table, up[n - 1])
  BY UpwardIs
<1> HIDE DEF up
<1>3. 0 \in T
  BY <1>1, <1>2
<1>4. ASSUME NEW n \in 0..L, n \in T, n < L PROVE n + 1 \in T
  <2>1. n + 1 \in 1..L /\ up[n + 1] = Parent(table, up[n])
    BY <1>1, <1>2, <1>4
  <2>2. ASSUME up[n + 1] # None PROVE Above(up[n + 1], n + 1)
    <3>1. up[n] # None /\ up[n + 1] = table[up[n]].parent
      BY <2>1, <2>2 DEF Parent
    <3>2. Above(up[n], n)
      BY <1>4, <3>1
    <3>3. /\ up[n + 1] \in Recorded(table) /\ up[n + 1] < up[n]
          /\ table[up[n + 1]].chain = table[up[n]].chain
      BY <2>2, <3>1, <3>2 DEF IsTable, IsForest
    <3> QED
      BY <1>1, <3>2, <3>3
  <2> QED
    BY <2>1, <2>2
<1>5. 0..L \subseteq T
  <2> HIDE DEF T, L
  <2> QED
    BY <1>1, <1>3, <1>4, SetInduction
<1> QED
  BY <1>5 DEF up

\* The way up of a child leads to the parent, and on as the parent's does.
LEMMA UpwardOfChild ==
  ASSUME NEW table, IsTable(table), NEW c \in Recorded(table), table[c].parent # None
  PROVE  \A n \in 0..Len(table) :
            n < Len(table) => Upward(table, c)[n + 1] = Upward(table, table[c].parent)[n]
<1> DEFINE L == Len(table)
           x == table[c].parent
           up == Upward(table, c)
           on == Upward(table, x)
           T == {n \in 0..L : n < L => up[n + 1] = on[n]}
<1>1. L \in Nat /\ x \in Recorded(table) /\ None \notin Recorded(table)
  BY TableFacts DEF IsTable, IsForest
<1>2. up[0] = c /\ \A n \in 1..L : up[n] = Parent(table, up[n - 1])
  BY UpwardIs
<1>3. on[0] = x /\ \A n \in 1..L : on[n] = Parent(table, on[n - 1])
  BY <1>1, UpwardIs
<1> HIDE DEF up, on
<1>4. 0 \in T
  <2>1. L > 0 => 1 \in 1..L /\ up[1] = Parent(table, up[0])
    BY <1>1, <1>2
  <2> QED
    BY <1>1, <1>2, <1>3, <2>1 DEF Parent
<1>5. ASSUME NEW n \in 0..L, n \in T, n < L PROVE n + 1 \in T
  <2>1. CASE n + 1 < L
    <3>1. n + 1 \in 1..L /\ n + 2 \in 1..L /\ (n + 2) - 1 = n + 1 /\ (n + 1) - 1 = n
      BY <1>1, <2>1
    <3>2. up[n + 2] = Parent(table, up[n + 1]) /\ on[n + 1] = Parent(table, on[n])
      BY <1>2, <1>3, <3>1
    <3>3. up[(n + 1) + 1] = on[n + 1]
      BY <1>5, <3>2
    <3> QED
      BY <3>1, <3>3
  <2> QED
    BY <1>5, <2>1
<1>6. 0..L \subseteq T
  <2> HIDE DEF T, L
  <2> QED
    BY <1>1, <1>4, <1>5, SetInduction
<1> QED
  BY <1>6 DEF up, on

\* So what is above the parent is above the child, and the parent itself is.
LEMMA AncestorsOfChild ==
  ASSUME NEW table, IsTable(table), NEW c \in Recorded(table), table[c].parent # None
  PROVE  {table[c].parent} \cup Ancestors(table, table[c].parent, Len(table))
            \subseteq Ancestors(table, c, Len(table))
<1> DEFINE L == Len(table)
           x == table[c].parent
<1>1. /\ L \in Nat /\ x \in Recorded(table) /\ c \in 1..L /\ x \in 1..L /\ x < c
      /\ None \notin Recorded(table)
  BY TableFacts DEF IsTable, IsForest
<1>2. \A n \in 0..L : n < L => Upward(table, c)[n + 1] = Upward(table, x)[n]
  BY UpwardOfChild
<1>3. Upward(table, x)[0] = x
  BY <1>1, UpwardIs
<1>4. ASSUME NEW n \in 0..L, Upward(table, x)[n] # None
      PROVE  Upward(table, x)[n] \in Ancestors(table, c, L)
  <2>1. Upward(table, x)[n] + n <= x /\ Upward(table, x)[n] \in 1..L
    BY <1>1, <1>4, UpwardDescends, TableFacts
  <2>2. n < L /\ n + 1 \in (1..L) \cap (1..L)
    BY <1>1, <2>1
  <2>3. Upward(table, c)[n + 1] = Upward(table, x)[n]
    BY <1>2, <2>2
  <2> QED
    BY <1>4, <2>2, <2>3 DEF Ancestors
<1>5. x \in Ancestors(table, c, L)
  BY <1>1, <1>3, <1>4
<1>6. Ancestors(table, x, L) \subseteq Ancestors(table, c, L)
  BY <1>1, <1>4 DEF Ancestors
<1> QED
  BY <1>5, <1>6

\* The first execution of a chain is the one it is named for, and every way up ends there.
LEMMA RootIsAbove ==
  ASSUME NEW table, IsTable(table), NEW e \in Recorded(table)
  PROVE  Root(table, table[e].chain) \in {e} \cup Ancestors(table, e, Len(table))
<1> DEFINE L == Len(table)
           r == table[e].chain
           up == Upward(table, e)
           B == {n \in 0..L : up[n] # None}
<1>1. /\ L \in Nat /\ r \in Recorded(table) /\ table[r].parent = None /\ e \in 1..L
      /\ None \notin Recorded(table)
  BY TableFacts DEF IsTable, IsForest
<1>2. Root(table, r) = r
  <2>1. table[r].chain = r
    BY <1>1 DEF IsTable, IsForest
  <2>2. {x \in Chain(table, r) : table[x].parent = None} = {r}
    BY <1>1, <2>1 DEF Chain, IsTable, IsForest
  <2>3. r <= r
    BY <1>1, TableFacts
  <2> QED
    BY <2>2, <2>3 DEF Root
<1>3. up[0] = e /\ \A n \in 1..L : up[n] = Parent(table, up[n - 1])
  BY UpwardIs
<1>4. \A n \in 0..L : up[n] # None =>
         up[n] \in Recorded(table) /\ up[n] \in 1..L /\ up[n] + n <= e /\ table[up[n]].chain = r
  BY UpwardDescends, TableFacts
<1> HIDE DEF up
<1>5. PICK n \in B : n + 1 \notin B
  <2>1. 0 \in B
    BY <1>1, <1>3
  <2>2. L \notin B
    BY <1>1, <1>4
  <2>3. ~(0..L \subseteq B)
    BY <1>1, <2>2
  <2> HIDE DEF B
  <2>4. ~\A n \in 0..L : n \in B /\ n < L => n + 1 \in B
    BY <1>1, <2>1, <2>3, SetInduction
  <2> QED
    BY <2>4
<1>6. n \in 0..L /\ n + 1 \in 1..L /\ n < L
  BY <1>1, <1>4, <1>5
<1>7. up[n + 1] = None /\ up[n + 1] = Parent(table, up[n])
  BY <1>3, <1>5, <1>6
<1>8. table[up[n]].parent = None /\ up[n] \in Recorded(table) /\ table[up[n]].chain = r
  BY <1>4, <1>5, <1>7 DEF Parent
<1>9. up[n] = r
  BY <1>8 DEF IsTable, IsForest
<1>10. CASE n = 0
  BY <1>2, <1>3, <1>9, <1>10
<1>11. CASE n # 0
  <2>1. n \in (1..L) \cap (1..L)
    BY <1>6, <1>11
  <2> QED
    BY <1>1, <1>2, <1>9, <2>1 DEF Ancestors, up
<1> QED
  BY <1>10, <1>11

\* A finite set of numbers can be put in line.
LEMMA LineExists ==
  ASSUME NEW K, NEW m \in Nat, K \subseteq 1..m
  PROVE  \E line \in [1..Cardinality(K) -> K] :
            \A i, j \in DOMAIN line : i < j => line[i] < line[j]
<1> DEFINE k == Cardinality(K)
           Below(c) == {d \in K : d <= c}
           rank == [c \in K |-> Cardinality(Below(c))]
           line == [i \in 1..k |-> CHOOSE c \in K : rank[c] = i]
<1>1. IsFiniteSet(K) /\ k \in Nat /\ \A c \in K : c \in Nat
  <2>1. IsFiniteSet(1..m) /\ K \in SUBSET (1..m)
    BY FS_Interval
  <2>2. IsFiniteSet(K)
    BY <2>1, FS_Subset
  <2> QED
    BY <2>2, FS_CardinalityType
<1>2. ASSUME NEW c \in K
      PROVE  /\ IsFiniteSet(Below(c)) /\ Cardinality(Below(c)) \in 1..k
             /\ c \in Below(c)
  <2>1. Below(c) \in SUBSET K /\ c \in Below(c)
    BY <1>1
  <2>2. IsFiniteSet(Below(c)) /\ Cardinality(Below(c)) <= k
    BY <1>1, <2>1, FS_Subset
  <2> HIDE DEF Below
  <2>3. Cardinality(Below(c)) \in Nat /\ Cardinality(Below(c)) # 0
    BY <2>1, <2>2, FS_CardinalityType, FS_EmptySet
  <2> QED
    BY <1>1, <2>1, <2>2, <2>3
<1>3. ASSUME NEW c \in K, NEW d \in K, c < d
      PROVE  Cardinality(Below(c)) < Cardinality(Below(d))
  <2>1. Below(c) \in SUBSET Below(d) /\ d \notin Below(c) /\ d \in Below(d)
    <3>1. c \in Nat /\ d \in Nat /\ \A x \in K : x \in Nat
      BY <1>1
    <3>2. \A x \in K : x <= c => x <= d
      BY <1>3, <3>1
    <3>3. ~(d <= c) /\ d <= d
      BY <1>3, <3>1
    <3>4. \A x \in Below(c) : x \in Below(d)
      BY <3>2
    <3> QED
      BY <3>3, <3>4
  <2>2. /\ Cardinality(Below(c)) <= Cardinality(Below(d))
        /\ Cardinality(Below(c)) # Cardinality(Below(d))
    <3> HIDE DEF Below
    <3> QED
      BY <1>2, <2>1, FS_Subset
  <2>3. Cardinality(Below(c)) \in 1..k /\ Cardinality(Below(d)) \in 1..k
    BY <1>2
  <2> HIDE DEF Below
  <2> QED
    BY <2>2, <2>3
<1>4. /\ rank \in [K -> 1..k]
      /\ \A c, d \in K : c < d => rank[c] < rank[d]
  BY <1>2, <1>3
<1> HIDE DEF rank
<1>5. \A c, d \in K : rank[c] = rank[d] => c = d
  BY <1>1, <1>4
<1>6. rank \in Injection(K, 1..k)
  BY <1>4, <1>5 DEF Injection, IsInjective
<1>7. IsFiniteSet(1..k) /\ Cardinality(1..k) = k
  BY <1>1, FS_Interval
<1>8. rank \in Surjection(K, 1..k)
  BY <1>6, <1>7, FS_Injection
<1>9. \A i \in 1..k : \E c \in K : rank[c] = i
  BY <1>8 DEF Surjection
<1>10. \A i \in 1..k : line[i] \in K /\ rank[line[i]] = i
  BY <1>9
<1>11. line \in [1..k -> K]
  BY <1>10
<1>12. DOMAIN line = 1..k
  OBVIOUS
<1>13. ASSUME NEW i \in 1..k, NEW j \in 1..k, i < j PROVE line[i] < line[j]
  <2> HIDE DEF line
  <2>1. /\ line[i] \in K /\ line[j] \in K /\ rank[line[i]] = i /\ rank[line[j]] = j
        /\ line[i] \in Nat /\ line[j] \in Nat
    BY <1>1, <1>10
  <2>2. line[i] # line[j] /\ ~(line[j] < line[i])
    BY <1>1, <1>4, <1>13, <2>1
  <2> QED
    BY <2>1, <2>2
<1> HIDE DEF line, k
<1>14. \A i, j \in DOMAIN line : i < j => line[i] < line[j]
  BY <1>12, <1>13
<1> QED
  BY <1>11, <1>14 DEF k

\* The children in order are the children, each of them once.
LEMMA ChildrenInOrderAre ==
  ASSUME NEW table, IsTable(table), NEW e
  PROVE  /\ ChildrenInOrder(table, e) \in Seq(Children(table, e))
         /\ \A i, j \in 1..Len(ChildrenInOrder(table, e)) :
               ChildrenInOrder(table, e)[i] = ChildrenInOrder(table, e)[j] => i = j
         /\ \A c \in Children(table, e) :
               \E i \in 1..Len(ChildrenInOrder(table, e)) : ChildrenInOrder(table, e)[i] = c
<1> DEFINE K == Children(table, e)
           k == Cardinality(K)
           Lines == [1..k -> K]
           Up(line) == \A i, j \in DOMAIN line : i < j => line[i] < line[j]
           line == ChildrenInOrder(table, e)
<1>1. K \subseteq 1..Len(table) /\ Len(table) \in Nat
  BY TableFacts DEF Children
<1>2. line = CHOOSE x \in Lines : Up(x)
  BY DEF ChildrenInOrder
<1>3. \E x \in Lines : Up(x)
  <2> HIDE DEF K
  <2> QED
    BY <1>1, LineExists
<1>4. line \in Lines /\ Up(line)
  <2> HIDE DEF line, Lines, Up
  <2> QED
    BY <1>2, <1>3, Zenon
<1> HIDE DEF line, K
<1>5. IsFiniteSet(K) /\ k \in Nat
  <2>1. IsFiniteSet(1..Len(table)) /\ K \in SUBSET (1..Len(table))
    BY <1>1, FS_Interval
  <2>2. IsFiniteSet(K)
    BY <2>1, FS_Subset
  <2> QED
    BY <2>2, FS_CardinalityType
<1>6. \A i, j \in 1..k : line[i] = line[j] => i = j
  <2>1. DOMAIN line = 1..k /\ \A i \in 1..k : line[i] \in K
    BY <1>4
  <2>2. \A i \in 1..k : line[i] \in Nat
    <3>1. \A c \in K : c \in Nat
      BY <1>1
    <3> QED
      BY <2>1, <3>1
  <2>3. \A i, j \in 1..k : i < j => line[i] < line[j]
    BY <1>4, <2>1
  <2> HIDE DEF k, Lines, Up
  <2> QED
    BY <1>5, <2>2, <2>3
<1>7. line \in Seq(K) /\ Len(line) = k
  <2>1. line \in [1..k -> K]
    BY <1>4
  <2> HIDE DEF Lines, k, Up
  <2> QED
    BY <1>5, <2>1
<1>8. line \in Surjection(1..k, K)
  <2>1. line \in Injection(1..k, K)
    BY <1>4, <1>6 DEF Injection, IsInjective
  <2>2. Cardinality(1..k) = k
    BY <1>5, FS_Interval
  <2> QED
    BY <1>5, <2>1, <2>2, FS_Injection
<1> QED
  BY <1>6, <1>7, <1>8 DEF Surjection, line, K

\* One look-up of the search: what has been found before, and what after.
LookUp(table, e, depth, found, n) ==
    IF n > Len(found) + 1 \/ Len(found) >= depth * Fan THEN found
    ELSE found \o ChildrenInOrder(table, (<<e>> \o found)[n])

\* The search is what its recursive definition says.
LEMMA SearchIs ==
  ASSUME NEW table, IsTable(table), NEW e, NEW depth
  PROVE  /\ Search(table, e, depth) \in [0..Len(table) -> Seq(Recorded(table))]
         /\ Search(table, e, depth)[0] = <<>>
         /\ \A n \in 1..Len(table) :
               Search(table, e, depth)[n] =
                  LookUp(table, e, depth, Search(table, e, depth)[n - 1], n)
<1> DEFINE L == Len(table)
           S == Seq(Recorded(table))
           then == [x \in (1..L) \X S |-> LookUp(table, e, depth, x[2], x[1])]
           G(f) == [n \in 0..L |-> IF n = 0 THEN <<>> ELSE LookUp(table, e, depth, f[n - 1], n)]
<1>1. L \in Nat /\ <<>> \in S
  BY TableFacts, EmptySeq
<1>2. ASSUME NEW found \in S, NEW n \in 1..L
      PROVE  LookUp(table, e, depth, found, n) \in S
  <2> DEFINE more == ChildrenInOrder(table, (<<e>> \o found)[n])
  <2>1. \A x : Children(table, x) \subseteq Recorded(table)
    BY DEF Children
  <2>2. more \in S
    BY <2>1, ChildrenInOrderAre, SeqMonotonic
  <2> HIDE DEF more
  <2>3. found \o more \in S
    BY <2>2, ConcatProperties
  <2> QED
    BY <2>3 DEF LookUp, more
<1>3. then \in [(1..L) \X S -> S]
  BY <1>2
<1>4. PICK f \in [0..L -> S] : Follows(f, L, <<>>, then)
  <2> HIDE DEF then, S, L
  <2> QED
    BY <1>1, <1>3, RecursionExists
<1>5. \A n \in 1..L : f[n - 1] \in S /\ f[n] = LookUp(table, e, depth, f[n - 1], n)
  <2>1. \A n \in 1..L : n - 1 \in 0..L
    BY <1>1
  <2> HIDE DEF S, L
  <2> QED
    BY <1>1, <1>4, <2>1 DEF Follows
<1>6. f = G(f)
  <2> HIDE DEF S, L
  <2>1. f[0] = <<>> /\ \A n \in 0..L : n # 0 => n \in 1..L
    BY <1>1, <1>4 DEF Follows
  <2> QED
    BY <1>4, <1>5, <2>1
<1>7. Search(table, e, depth) = CHOOSE g : g = G(g)
  BY DEF Search, LookUp
<1>8. Search(table, e, depth) = G(Search(table, e, depth))
  <2> HIDE DEF G
  <2> QED
    BY <1>6, <1>7, Zenon
<1> DEFINE walk == Search(table, e, depth)
<1>9. walk[0] = <<>> /\ \A n \in 1..L : walk[n] = LookUp(table, e, depth, walk[n - 1], n)
  <2> HIDE DEF walk, L
  <2>1. walk = G(walk)
    BY <1>8 DEF walk
  <2>2. 0 \in 0..L /\ \A n \in 1..L : n \in 0..L /\ n # 0
    BY <1>1
  <2> QED
    BY <2>1, <2>2
<1>10. 0..L \subseteq {n \in 0..L : walk[n] \in S}
  <2> DEFINE T == {n \in 0..L : walk[n] \in S}
  <2> HIDE DEF walk, S, L
  <2>1. 0 \in T
    BY <1>1, <1>9
  <2>2. ASSUME NEW n \in 0..L, n \in T, n < L PROVE n + 1 \in T
    <3>1. n + 1 \in 0..L /\ n + 1 \in 1..L /\ (n + 1) - 1 = n /\ walk[n] \in S
      BY <1>1, <2>2
    <3>2. walk[n + 1] = LookUp(table, e, depth, walk[n], n + 1)
      BY <1>9, <3>1
    <3> QED
      BY <1>2, <3>1, <3>2
  <2> HIDE DEF T
  <2>3. 0..L \subseteq T
    BY <1>1, <2>1, <2>2, SetInduction
  <2> QED
    BY <2>3 DEF T
<1> HIDE DEF S, L
<1> QED
  BY <1>8, <1>9, <1>10 DEF S, L

\* Whose children are looked up next.
Looked(e, found, n) == IF n = 1 THEN e ELSE found[n - 1]

\* A look-up keeps what was found and adds children of the one that is next, each once.
Adds(table, e, depth, found, n, more) ==
    /\ more \in Seq(Recorded(table))
    /\ Len(found) <= Len(more) /\ \A i \in 1..Len(found) : more[i] = found[i]
    /\ \A i \in 1..Len(more) : i > Len(found) =>
          n <= Len(found) + 1 /\ more[i] \in Children(table, Looked(e, found, n))
    /\ \A i, j \in 1..Len(more) :
          i > Len(found) /\ j > Len(found) /\ more[i] = more[j] => i = j
    /\ n <= Len(found) + 1 /\ ~(Len(found) >= depth * Fan) =>
          \A c \in Children(table, Looked(e, found, n)) : \E i \in 1..Len(more) : more[i] = c

LEMMA LookUpAdds ==
  ASSUME NEW table, IsTable(table), NEW e \in Recorded(table), NEW depth,
         NEW found \in Seq(Recorded(table)), NEW n \in 1..Len(table)
  PROVE  Adds(table, e, depth, found, n, LookUp(table, e, depth, found, n))
<1> DEFINE more == LookUp(table, e, depth, found, n)
           R == Recorded(table)
           next == (<<e>> \o found)[n]
           kids == ChildrenInOrder(table, next)
           Full == Len(found) >= depth * Fan
<1>1. Len(table) \in Nat /\ n \in Nat /\ n >= 1 /\ Len(found) \in Nat
  BY TableFacts
<1>2. CASE n > Len(found) + 1 \/ Full
  <2>1. more = found
    BY <1>2 DEF LookUp
  <2> HIDE DEF Full, more
  <2>2. Adds(table, e, depth, found, n, found)
    BY <1>1, <1>2 DEF Full, Adds
  <2> QED
    BY <2>1, <2>2 DEF more
<1>3. CASE n <= Len(found) + 1 /\ ~Full
  <2>1. more = found \o kids
    <3>1. ~(n > Len(found) + 1 \/ Full)
      BY <1>1, <1>3
    <3> HIDE DEF kids
    <3> QED
      BY <3>1, Zenon DEF LookUp, kids
  <2> HIDE DEF Full, more
  <2>2. next = Looked(e, found, n)
    <3>1. <<e>> \in Seq(R) /\ Len(<<e>>) = 1 /\ <<e>>[1] = e
      OBVIOUS
    <3>2. \A i \in 1..(1 + Len(found)) :
             (<<e>> \o found)[i] = IF i <= 1 THEN <<e>>[i] ELSE found[i - 1]
      BY <3>1, ConcatProperties
    <3>3. n \in 1..(1 + Len(found))
      BY <1>1, <1>3
    <3> QED
      BY <1>1, <3>1, <3>2, <3>3 DEF Looked
  <2> HIDE DEF next
  <2>3. /\ kids \in Seq(Children(table, next))
        /\ \A i, j \in 1..Len(kids) : kids[i] = kids[j] => i = j
        /\ \A c \in Children(table, next) : \E i \in 1..Len(kids) : kids[i] = c
    BY ChildrenInOrderAre
  <2> HIDE DEF kids
  <2>4. /\ kids \in Seq(R) /\ Len(kids) \in Nat
        /\ \A i \in 1..Len(kids) : kids[i] \in Children(table, next)
    <3>1. Children(table, next) \subseteq R
      BY DEF Children
    <3> QED
      BY <2>3, <3>1, SeqMonotonic, ElementOfSeq
  <2>5. /\ more \in Seq(R) /\ Len(more) = Len(found) + Len(kids)
        /\ \A i \in 1..(Len(found) + Len(kids)) :
              more[i] = IF i <= Len(found) THEN found[i] ELSE kids[i - Len(found)]
    BY <2>1, <2>4, ConcatProperties
  <2>6. Len(found) <= Len(more) /\ \A i \in 1..Len(found) : more[i] = found[i]
    BY <1>1, <2>4, <2>5
  <2>7. ASSUME NEW i \in 1..Len(more), i > Len(found)
        PROVE  i - Len(found) \in 1..Len(kids) /\ more[i] = kids[i - Len(found)]
    BY <1>1, <2>4, <2>5, <2>7
  <2>8. \A i \in 1..Len(more) : i > Len(found) => more[i] \in Children(table, next)
    BY <2>4, <2>7
  <2>9. \A i, j \in 1..Len(more) :
           i > Len(found) /\ j > Len(found) /\ more[i] = more[j] => i = j
    <3>1. SUFFICES ASSUME NEW i \in 1..Len(more), NEW j \in 1..Len(more),
                          i > Len(found), j > Len(found), more[i] = more[j]
                   PROVE  i = j
      OBVIOUS
    <3>2. i - Len(found) = j - Len(found)
      <4>1. i - Len(found) \in 1..Len(kids) /\ more[i] = kids[i - Len(found)]
        BY <2>7, <3>1
      <4>2. j - Len(found) \in 1..Len(kids) /\ more[j] = kids[j - Len(found)]
        BY <2>7, <3>1
      <4>3. kids[i - Len(found)] = kids[j - Len(found)]
        BY <3>1, <4>1, <4>2
      <4> QED
        BY <2>3, <4>1, <4>2, <4>3
    <3>3. i \in Int /\ j \in Int
      BY <1>1, <2>4, <2>5
    <3> QED
      BY <1>1, <3>2, <3>3
  <2>10. \A c \in Children(table, next) : \E i \in 1..Len(more) : more[i] = c
    <3>1. ASSUME NEW c \in Children(table, next) PROVE \E i \in 1..Len(more) : more[i] = c
      <4>1. PICK i \in 1..Len(kids) : kids[i] = c
        BY <2>3
      <4>2. i + Len(found) \in 1..Len(more) /\ more[i + Len(found)] = kids[i]
        <5>1. /\ i + Len(found) \in 1..(Len(found) + Len(kids))
              /\ ~(i + Len(found) <= Len(found)) /\ (i + Len(found)) - Len(found) = i
          BY <1>1, <2>4
        <5> QED
          BY <2>5, <5>1
      <4> QED
        BY <4>1, <4>2
    <3> QED
      BY <3>1
  <2> QED
    BY <1>3, <2>2, <2>5, <2>6, <2>8, <2>9, <2>10 DEF Adds, more
<1> QED
  BY <1>1, <1>2, <1>3

\* The walk of a search keeps to the family: what it finds is later than the execution, in
\* its chain, and has it among its ancestors.
Kin(table, e, d) ==
    /\ d \in Recorded(table) /\ e < d
    /\ table[d].chain = table[e].chain
    /\ e \in Ancestors(table, d, Len(table))

LEMMA ChildIsKin ==
  ASSUME NEW table, IsTable(table), NEW e \in Recorded(table),
         NEW x, x = e \/ Kin(table, e, x), NEW c \in Children(table, x)
  PROVE  Kin(table, e, c)
<1>1. c \in Recorded(table) /\ table[c].parent = x /\ x # None /\ x \in Recorded(table)
  BY TableFacts DEF Children, Kin
<1>2. x < c /\ table[c].chain = table[x].chain
  BY <1>1 DEF IsTable, IsForest
<1>3. {x} \cup Ancestors(table, x, Len(table)) \subseteq Ancestors(table, c, Len(table))
  BY <1>1, AncestorsOfChild
<1>4. e \in 1..Len(table) /\ x \in 1..Len(table) /\ c \in 1..Len(table) /\ Len(table) \in Nat
  BY <1>1, TableFacts
<1>5. CASE x = e
  BY <1>1, <1>2, <1>3, <1>5 DEF Kin
<1>6. CASE Kin(table, e, x)
  <2>1. e < x /\ table[x].chain = table[e].chain /\ e \in Ancestors(table, x, Len(table))
    BY <1>6 DEF Kin
  <2>2. e < c
    BY <1>2, <1>4, <2>1
  <2> QED
    BY <1>1, <1>2, <1>3, <2>1, <2>2 DEF Kin
<1> QED
  BY <1>5, <1>6

LEMMA SearchFindsKin ==
  ASSUME NEW table, IsTable(table), NEW e \in Recorded(table), NEW depth
  PROVE  \A n \in 0..Len(table) : \A i \in 1..Len(Search(table, e, depth)[n]) :
            Kin(table, e, Search(table, e, depth)[n][i])
<1> DEFINE L == Len(table)
           walk == Search(table, e, depth)
           T == {n \in 0..L : \A i \in 1..Len(walk[n]) : Kin(table, e, walk[n][i])}
<1>1. L \in Nat
  BY TableFacts
<1>2. /\ walk \in [0..L -> Seq(Recorded(table))] /\ walk[0] = <<>>
      /\ \A n \in 1..L : walk[n] = LookUp(table, e, depth, walk[n - 1], n)
  BY SearchIs
<1> HIDE DEF walk
<1>3. 0 \in T
  BY <1>1, <1>2
<1>4. ASSUME NEW n \in 0..L, n \in T, n < L PROVE n + 1 \in T
  <2>1. n + 1 \in 1..L /\ (n + 1) - 1 = n /\ n + 1 \in 0..L
    BY <1>1, <1>4
  <2> DEFINE found == walk[n]
             more == walk[n + 1]
             next == Looked(e, found, n + 1)
  <2>2. found \in Seq(Recorded(table)) /\ more = LookUp(table, e, depth, found, n + 1)
    BY <1>2, <1>4, <2>1
  <2>3. \A i \in 1..Len(found) : Kin(table, e, found[i])
    BY <1>4
  <2> HIDE DEF found, more
  <2>4. /\ more \in Seq(Recorded(table)) /\ Len(found) <= Len(more)
        /\ \A i \in 1..Len(found) : more[i] = found[i]
        /\ \A i \in 1..Len(more) : i > Len(found) =>
              n + 1 <= Len(found) + 1 /\ more[i] \in Children(table, next)
    <3>1. Adds(table, e, depth, found, n + 1, more)
      BY <2>1, <2>2, LookUpAdds
    <3> QED
      BY <3>1 DEF Adds
  <2>5. Len(found) \in Nat /\ Len(more) \in Nat
    BY <2>2, <2>4
  <2>6. ASSUME NEW i \in 1..Len(more) PROVE Kin(table, e, more[i])
    <3>1. CASE i <= Len(found)
      <4>1. i \in 1..Len(found)
        BY <2>5, <3>1
      <4> QED
        BY <2>3, <2>4, <4>1
    <3>2. CASE i > Len(found)
      <4>1. n + 1 <= Len(found) + 1 /\ more[i] \in Children(table, next)
        BY <2>4, <3>2
      <4>2. next = e \/ Kin(table, e, next)
        <5>1. CASE n = 0
          BY <5>1 DEF Looked
        <5>2. CASE n # 0
          <6>1. n \in 1..Len(found) /\ next = found[n]
            BY <1>1, <2>5, <4>1, <5>2 DEF Looked
          <6> QED
            BY <2>3, <6>1
        <5> QED
          BY <5>1, <5>2
      <4> HIDE DEF next
      <4> QED
        BY <4>1, <4>2, ChildIsKin
    <3> QED
      BY <2>5, <3>1, <3>2
  <2> QED
    BY <2>1, <2>6 DEF more
<1>5. 0..L \subseteq T
  <2> HIDE DEF T, L
  <2> QED
    BY <1>1, <1>3, <1>4, SetInduction
<1> QED
  BY <1>5 DEF walk

\* It only grows.
Extends(t, s) == Len(s) <= Len(t) /\ \A i \in 1..Len(s) : t[i] = s[i]

LEMMA SearchGrows ==
  ASSUME NEW table, IsTable(table), NEW e \in Recorded(table), NEW depth, NEW m \in 0..Len(table)
  PROVE  \A n \in 0..Len(table) : m <= n =>
            Extends(Search(table, e, depth)[n], Search(table, e, depth)[m])
<1> DEFINE L == Len(table)
           walk == Search(table, e, depth)
           T == {n \in 0..L : m <= n => Extends(walk[n], walk[m])}
<1>1. L \in Nat
  BY TableFacts
<1>2. /\ walk \in [0..L -> Seq(Recorded(table))]
      /\ \A n \in 1..L : walk[n] = LookUp(table, e, depth, walk[n - 1], n)
  BY SearchIs
<1> HIDE DEF walk
<1>3. Extends(walk[m], walk[m])
  <2>1. walk[m] \in Seq(Recorded(table))
    BY <1>2
  <2>2. Len(walk[m]) \in Nat
    BY <2>1
  <2> QED
    BY <2>2 DEF Extends
<1>4. 0 \in T
  <2>1. m <= 0 => m = 0
    BY <1>1
  <2> QED
    BY <1>1, <1>3, <2>1
<1>5. ASSUME NEW n \in 0..L, n \in T, n < L PROVE n + 1 \in T
  <2>1. n + 1 \in 1..L /\ (n + 1) - 1 = n /\ n + 1 \in 0..L
    BY <1>1, <1>5
  <2>2. CASE m <= n
    <3>1. /\ walk[n] \in Seq(Recorded(table))
          /\ walk[n + 1] = LookUp(table, e, depth, walk[n], n + 1)
      BY <1>2, <1>5, <2>1
    <3>2. /\ Len(walk[n]) <= Len(walk[n + 1]) /\ walk[n + 1] \in Seq(Recorded(table))
          /\ \A i \in 1..Len(walk[n]) : walk[n + 1][i] = walk[n][i]
      <4>1. Adds(table, e, depth, walk[n], n + 1, walk[n + 1])
        BY <2>1, <3>1, LookUpAdds
      <4> QED
        BY <4>1 DEF Adds
    <3>3. Extends(walk[n], walk[m])
      BY <1>5, <2>2
    <3>4. walk[m] \in Seq(Recorded(table))
      BY <1>2
    <3>5. Len(walk[m]) \in Nat /\ Len(walk[n]) \in Nat /\ Len(walk[n + 1]) \in Nat
      BY <3>1, <3>2, <3>4
    <3>6. Extends(walk[n + 1], walk[m])
      <4>1. Len(walk[m]) <= Len(walk[n])
        BY <3>3 DEF Extends
      <4>2. \A i \in 1..Len(walk[m]) : i \in 1..Len(walk[n]) /\ walk[n][i] = walk[m][i]
        BY <3>3, <3>5, <4>1 DEF Extends
      <4>3. \A i \in 1..Len(walk[m]) : walk[n + 1][i] = walk[m][i]
        BY <3>2, <4>2
      <4>4. Len(walk[m]) <= Len(walk[n + 1])
        BY <3>2, <3>5, <4>1
      <4> QED
        BY <4>3, <4>4 DEF Extends
    <3> QED
      BY <2>1, <3>6
  <2>3. CASE ~(m <= n)
    <3>1. m <= n + 1 => m = n + 1
      BY <1>1, <2>3
    <3> QED
      BY <1>3, <2>1, <3>1
  <2> QED
    BY <2>2, <2>3
<1>6. 0..L \subseteq T
  <2> HIDE DEF T, L
  <2>1. \A n \in 0..L : n \in T /\ n < L => n + 1 \in T
    BY <1>5
  <2> QED
    BY <1>1, <1>4, <2>1, SetInduction
<1> QED
  BY <1>6 DEF walk

\* No execution is found twice: what is found has a parent that was looked up before, and
\* nothing is looked up twice.
LEMMA SearchFindsOnce ==
  ASSUME NEW table, IsTable(table), NEW e \in Recorded(table), NEW depth
  PROVE  \A n \in 0..Len(table) :
            LET found == Search(table, e, depth)[n]
            IN  \A i, j \in 1..Len(found) : found[i] = found[j] => i = j
<1> DEFINE L == Len(table)
           walk == Search(table, e, depth)
           Once(s) == \A i, j \in 1..Len(s) : s[i] = s[j] => i = j
           Before(s, n) == \A i \in 1..Len(s) : LET p == table[s[i]].parent IN
                              n >= 1 /\ (p = e \/ \E j \in 1..Len(s) : j < n /\ p = s[j])
           T == {n \in 0..L : Once(walk[n]) /\ Before(walk[n], n)}
<1>1. L \in Nat
  BY TableFacts
<1>2. /\ walk \in [0..L -> Seq(Recorded(table))] /\ walk[0] = <<>>
      /\ \A n \in 1..L : walk[n] = LookUp(table, e, depth, walk[n - 1], n)
  BY SearchIs
<1>3. \A n \in 0..L : \A i \in 1..Len(walk[n]) : Kin(table, e, walk[n][i])
  BY SearchFindsKin
<1> HIDE DEF walk
<1>4. 0 \in T
  BY <1>1, <1>2
<1>5. ASSUME NEW n \in 0..L, n \in T, n < L PROVE n + 1 \in T
  <2>1. n + 1 \in 1..L /\ (n + 1) - 1 = n /\ n + 1 \in 0..L
    BY <1>1, <1>5
  <2> DEFINE found == walk[n]
             more == walk[n + 1]
             next == Looked(e, found, n + 1)
  <2>2. found \in Seq(Recorded(table)) /\ more = LookUp(table, e, depth, found, n + 1)
    BY <1>2, <1>5, <2>1
  <2>3. \A i \in 1..Len(found) : Kin(table, e, found[i])
    BY <1>3, <1>5
  <2>4. Once(found) /\ Before(found, n)
    BY <1>5
  <2> HIDE DEF found, more, Once, Before
  <2>5. Adds(table, e, depth, found, n + 1, more)
    BY <2>1, <2>2, LookUpAdds
  <2>6. Len(found) \in Nat /\ Len(more) \in Nat /\ Len(found) <= Len(more)
    BY <2>2, <2>5 DEF Adds
  <2>7. \A i \in 1..Len(more) : i <= Len(found) => i \in 1..Len(found) /\ more[i] = found[i]
    BY <2>5, <2>6 DEF Adds
  <2>8. \A i \in 1..Len(more) : i > Len(found) => n <= Len(found) /\ table[more[i]].parent = next
    BY <1>1, <2>1, <2>5, <2>6 DEF Adds, Children
  <2>9. n # 0 /\ n <= Len(found) => n \in 1..Len(found) /\ next = found[n]
    BY <1>1, <2>6 DEF Looked
  <2>10. n = 0 => next = e
    BY DEF Looked
  <2>11. \A i \in 1..Len(found) : /\ table[found[i]].parent = next => n = 0 \/ ~(n <= Len(found))
                                  /\ n # 0
    <3> SUFFICES ASSUME NEW i \in 1..Len(found)
                 PROVE  /\ table[found[i]].parent = next => n = 0 \/ ~(n <= Len(found))
                        /\ n # 0
      OBVIOUS
    <3>1. n >= 1 /\ \/ table[found[i]].parent = e
                    \/ \E j \in 1..Len(found) : j < n /\ table[found[i]].parent = found[j]
      BY <2>4 DEF Before
    <3>2. ASSUME n # 0, n <= Len(found), table[found[i]].parent = next PROVE FALSE
      <4>1. n \in 1..Len(found) /\ table[found[i]].parent = found[n]
        BY <2>9, <3>2
      <4>2. Kin(table, e, found[n]) /\ e \in Nat
        BY <2>3, <4>1, TableFacts
      <4>3. found[n] # e
        BY <4>2, TableFacts DEF Kin
      <4>4. PICK j \in 1..Len(found) : j < n /\ found[n] = found[j]
        BY <3>1, <4>1, <4>3
      <4>5. n = j
        BY <2>4, <4>1, <4>4 DEF Once
      <4> QED
        BY <4>1, <4>4, <4>5
    <3> QED
      BY <1>1, <3>1, <3>2
  <2>12. Once(more)
    <3> SUFFICES ASSUME NEW i \in 1..Len(more), NEW j \in 1..Len(more), more[i] = more[j]
                 PROVE  i = j
      BY DEF Once
    <3>1. CASE i <= Len(found) /\ j <= Len(found)
      BY <2>4, <2>7, <3>1 DEF Once
    <3>2. CASE i > Len(found) /\ j > Len(found)
      BY <2>5, <3>2 DEF Adds
    <3>3. ASSUME NEW a \in 1..Len(more), NEW b \in 1..Len(more),
                 a <= Len(found), b > Len(found), more[a] = more[b]
          PROVE  FALSE
      <4>1. a \in 1..Len(found) /\ more[a] = found[a]
        BY <2>7, <3>3
      <4>2. n <= Len(found) /\ table[found[a]].parent = next
        BY <2>8, <3>3, <4>1
      <4> QED
        BY <2>11, <4>1, <4>2
    <3>4. i \in Int /\ j \in Int
      BY <2>6
    <3> QED
      BY <2>6, <3>1, <3>2, <3>3, <3>4
  <2>13. Before(more, n + 1)
    <3> SUFFICES ASSUME NEW i \in 1..Len(more)
                 PROVE  n + 1 >= 1 /\ \/ table[more[i]].parent = e
                                      \/ \E j \in 1..Len(more) :
                                            j < n + 1 /\ table[more[i]].parent = more[j]
      BY DEF Before
    <3>1. CASE i <= Len(found)
      <4>1. i \in 1..Len(found) /\ more[i] = found[i]
        BY <2>7, <3>1
      <4>2. \/ table[more[i]].parent = e
            \/ \E j \in 1..Len(found) : j < n /\ table[more[i]].parent = found[j]
        BY <2>4, <4>1 DEF Before
      <4>3. \A j \in 1..Len(found) : j \in 1..Len(more) /\ more[j] = found[j]
        BY <2>6, <2>7
      <4>4. \A j \in 1..Len(found) : j < n => j < n + 1
        BY <1>1, <2>6
      <4> QED
        BY <1>1, <4>2, <4>3, <4>4
    <3>2. CASE i > Len(found)
      <4>1. n <= Len(found) /\ table[more[i]].parent = next
        BY <2>8, <3>2
      <4>2. CASE n = 0
        BY <1>1, <2>10, <4>1, <4>2
      <4>3. CASE n # 0
        <5>1. n \in 1..Len(found) /\ next = found[n]
          BY <2>9, <4>1, <4>3
        <5>2. n \in 1..Len(more) /\ more[n] = found[n] /\ n < n + 1
          BY <2>6, <2>7, <5>1
        <5> QED
          BY <1>1, <4>1, <5>1, <5>2
      <4> QED
        BY <4>2, <4>3
    <3> QED
      BY <2>6, <3>1, <3>2
  <2> QED
    BY <2>1, <2>12, <2>13 DEF more
<1>6. 0..L \subseteq T
  <2> HIDE DEF T, L
  <2> QED
    BY <1>1, <1>4, <1>5, SetInduction
<1> QED
  BY <1>6 DEF walk

\* So a search finds fewer executions than there are.
LEMMA SearchIsShort ==
  ASSUME NEW table, IsTable(table), NEW e \in Recorded(table), NEW depth, NEW n \in 0..Len(table)
  PROVE  /\ Len(Search(table, e, depth)[n]) \in Nat
         /\ Len(Search(table, e, depth)[n]) < Len(table)
<1> DEFINE L == Len(table)
           s == Search(table, e, depth)[n]
<1>1. L \in Nat /\ e \in 1..L
  BY TableFacts
<1>2. s \in Seq(Recorded(table)) /\ Len(s) \in Nat
  BY SearchIs
<1>3. \A i \in 1..Len(s) : Kin(table, e, s[i])
  BY SearchFindsKin
<1>4. \A i, j \in 1..Len(s) : s[i] = s[j] => i = j
  BY SearchFindsOnce
<1> HIDE DEF s
<1>5. ASSUME NEW i \in 1..Len(s) PROVE s[i] \in (e + 1)..L
  <2>1. s[i] \in Recorded(table) /\ e < s[i]
    BY <1>3 DEF Kin
  <2>2. s[i] \in 1..L
    BY <2>1, TableFacts
  <2> QED
    BY <1>1, <2>1, <2>2
<1>6. s \in Injection(1..Len(s), (e + 1)..L)
  <2>1. s \in [1..Len(s) -> Recorded(table)]
    BY <1>2
  <2> DEFINE D == 1..Len(s)
             C == (e + 1)..L
  <2> HIDE DEF D, C
  <2>2. s \in [D -> C]
    <3>1. s \in [D -> Recorded(table)] /\ \A i \in D : s[i] \in C
      BY <1>5, <2>1 DEF D, C
    <3> QED
      BY <3>1
  <2>3. \A i, j \in D : s[i] = s[j] => i = j
    BY <1>4 DEF D
  <2>4. s \in Injection(D, C)
    BY <2>2, <2>3 DEF Injection, IsInjective
  <2> QED
    BY <2>4 DEF D, C
<1>7. IsFiniteSet((e + 1)..L) /\ Cardinality((e + 1)..L) < L
  <2> DEFINE C == (e + 1)..L
  <2>1. e + 1 \in Int /\ L \in Int
    BY <1>1
  <2>2. IsFiniteSet(C)
    BY <2>1, FS_Interval
  <2>3. Cardinality(C) = IF e + 1 > L THEN 0 ELSE L - (e + 1) + 1
    BY <2>1, FS_Interval
  <2> HIDE DEF C
  <2>4. Cardinality(C) = 0 \/ Cardinality(C) = L - (e + 1) + 1
    BY <2>3
  <2>5. Cardinality(C) < L
    BY <1>1, <2>4
  <2>6. IsFiniteSet(C) /\ Cardinality(C) < L
    BY <2>2, <2>5
  <2> QED
    BY <2>6 DEF C
<1>8. Cardinality(1..Len(s)) = Len(s)
  <2> DEFINE D == 1..Len(s)
  <2>1. 1 \in Int /\ Len(s) \in Int
    BY <1>2
  <2>2. Cardinality(D) = IF 1 > Len(s) THEN 0 ELSE Len(s) - 1 + 1
    BY <2>1, FS_Interval
  <2> HIDE DEF D
  <2>3. Cardinality(D) = Len(s)
    BY <1>2, <2>2
  <2> QED
    BY <2>3 DEF D
<1>9. Cardinality((e + 1)..L) \in Nat
  BY <1>7, FS_CardinalityType
<1>10. Cardinality(1..Len(s)) <= Cardinality((e + 1)..L)
  BY <1>6, <1>7, FS_Injection
<1> QED
  BY <1>1, <1>2, <1>7, <1>8, <1>9, <1>10 DEF s

\* The first look-up finds the children of the execution.
LEMMA ChildIsListed ==
  ASSUME NEW table, IsTable(table), NEW e \in Recorded(table), NEW depth \in Nat \ {0},
         NEW c \in Children(table, e)
  PROVE  /\ \E i \in 1..Len(Search(table, e, depth)[1]) : Search(table, e, depth)[1][i] = c
         /\ c \in Descendants(table, e, depth)
<1> DEFINE L == Len(table)
           walk == Search(table, e, depth)
<1>1. L \in Nat /\ 1 \in 1..L /\ 1 \in 0..L /\ 0 \in 0..L /\ L \in 0..L /\ 1 <= L
  <2>1. L \in Nat /\ e \in 1..L
    BY TableFacts
  <2> QED
    BY <2>1
<1>2. /\ walk \in [0..L -> Seq(Recorded(table))] /\ walk[0] = <<>>
      /\ walk[1] = LookUp(table, e, depth, walk[1 - 1], 1)
  BY <1>1, SearchIs
<1>3. Adds(table, e, depth, <<>>, 1, walk[1])
  <2>1. <<>> \in Seq(Recorded(table)) /\ walk[1] = LookUp(table, e, depth, <<>>, 1)
    BY <1>2, EmptySeq
  <2> HIDE DEF walk
  <2> QED
    BY <1>1, <2>1, LookUpAdds
<1>4. PICK i \in 1..Len(walk[1]) : walk[1][i] = c
  <2>1. Len(<<>>) = 0 /\ ~(Len(<<>>) >= depth * Fan)
    <3>1. \A a, b \in Nat \ {0} : a * b \in Nat /\ a * b >= 1
      OBVIOUS
    <3>2. depth * Fan \in Nat /\ depth * Fan >= 1
      BY <3>1, HistoryAssumption DEF HistoryAssumption
    <3>3. Len(<<>>) = 0
      OBVIOUS
    <3> QED
      BY <3>2, <3>3
  <2>2. Looked(e, <<>>, 1) = e
    BY DEF Looked
  <2> HIDE DEF walk
  <2> QED
    BY <1>3, <2>1, <2>2 DEF Adds
<1>5. Extends(walk[L], walk[1])
  BY <1>1, SearchGrows
<1>6. i \in 1..Len(walk[L]) /\ walk[L][i] = c
  <2>1. walk[1] \in Seq(Recorded(table)) /\ walk[L] \in Seq(Recorded(table))
    BY <1>1, <1>2
  <2> HIDE DEF walk
  <2>2. Len(walk[1]) \in Nat /\ Len(walk[L]) \in Nat
    BY <2>1
  <2> QED
    BY <1>4, <1>5, <2>2 DEF Extends
<1> QED
  BY <1>4, <1>6 DEF Descendants

\* Where the limit does not stop it, the search finds the children of the children, too.
LEMMA GrandchildIsListed ==
  ASSUME NEW table, IsTable(table), NEW e \in Recorded(table), NEW depth \in Nat \ {0},
         Len(table) <= depth * Fan,
         NEW x \in Children(table, e), NEW c \in Children(table, x)
  PROVE  c \in Descendants(table, e, depth)
<1> DEFINE L == Len(table)
           walk == Search(table, e, depth)
<1>1. L \in Nat /\ 1 \in 0..L /\ L \in 0..L /\ 1 <= L /\ depth * Fan \in Nat
  <2>1. L \in Nat /\ e \in 1..L
    BY TableFacts
  <2>2. depth * Fan \in Nat
    BY HistoryAssumption DEF HistoryAssumption
  <2> QED
    BY <2>1, <2>2
<1>2. /\ walk \in [0..L -> Seq(Recorded(table))]
      /\ \A n \in 1..L : walk[n] = LookUp(table, e, depth, walk[n - 1], n)
  BY SearchIs
<1>3. \A n \in 0..L : Len(walk[n]) \in Nat /\ Len(walk[n]) < L
  BY SearchIsShort
<1>4. PICK i \in 1..Len(walk[1]) : walk[1][i] = x
  BY ChildIsListed
<1>5. i \in 1..L /\ i \in 0..L /\ i + 1 \in 1..L /\ (i + 1) - 1 = i /\ i + 1 \in 0..L
      /\ 1 <= i /\ i + 1 <= L
  <2> HIDE DEF walk
  <2>1. Len(walk[1]) \in Nat /\ Len(walk[1]) < L
    BY <1>1, <1>3
  <2> QED
    BY <1>1, <2>1
<1>6. i \in 1..Len(walk[i]) /\ walk[i][i] = x
  <2>1. Extends(walk[i], walk[1])
    BY <1>1, <1>5, SearchGrows
  <2> HIDE DEF walk
  <2>2. Len(walk[i]) \in Nat /\ Len(walk[1]) \in Nat
    BY <1>1, <1>3, <1>5
  <2> QED
    BY <1>4, <2>1, <2>2 DEF Extends
<1>7. Adds(table, e, depth, walk[i], i + 1, walk[i + 1])
  <2>1. walk[i] \in Seq(Recorded(table)) /\ walk[i + 1] = LookUp(table, e, depth, walk[i], i + 1)
    BY <1>2, <1>5
  <2> HIDE DEF walk
  <2> QED
    BY <1>5, <2>1, LookUpAdds
<1>8. PICK j \in 1..Len(walk[i + 1]) : walk[i + 1][j] = c
  <2> HIDE DEF walk
  <2>1. Len(walk[i]) \in Nat /\ Len(walk[i]) < L
    BY <1>3, <1>5
  <2>2. i + 1 <= Len(walk[i]) + 1 /\ ~(Len(walk[i]) >= depth * Fan)
    BY <1>1, <1>6, <2>1
  <2>3. Looked(e, walk[i], i + 1) = x
    BY <1>5, <1>6 DEF Looked
  <2> QED
    BY <1>7, <2>2, <2>3 DEF Adds
<1>9. Extends(walk[L], walk[i + 1])
  BY <1>1, <1>5, SearchGrows
<1>10. j \in 1..Len(walk[L]) /\ walk[L][j] = c
  <2> HIDE DEF walk
  <2>1. Len(walk[L]) \in Nat /\ Len(walk[i + 1]) \in Nat
    BY <1>1, <1>3, <1>5
  <2> QED
    BY <1>8, <1>9, <2>1 DEF Extends
<1> QED
  BY <1>10 DEF Descendants

\* The ancestors of depth one and two are the parent and the parent's parent.
LEMMA NearAncestors ==
  ASSUME NEW table, IsTable(table), NEW e \in Recorded(table)
  PROVE  /\ \A a \in Ancestors(table, e, 1) : a \in Recorded(table) /\ e \in Children(table, a)
         /\ \A a \in Ancestors(table, e, 2) : a \in Recorded(table) /\
               \/ e \in Children(table, a)
               \/ \E x \in Children(table, a) : e \in Children(table, x)
<1> DEFINE L == Len(table)
           up == Upward(table, e)
<1>1. L \in Nat /\ None \notin Recorded(table)
  BY TableFacts
<1>2. /\ up \in [0..L -> Recorded(table) \cup {None}] /\ up[0] = e
      /\ \A n \in 1..L : up[n] = Parent(table, up[n - 1])
  BY UpwardIs
<1> HIDE DEF up
<1>3. ASSUME 1 \in 1..L, up[1] # None
      PROVE  up[1] \in Recorded(table) /\ e \in Children(table, up[1])
  <2>1. up[1] = Parent(table, e) /\ up[1] \in Recorded(table) \cup {None}
    BY <1>1, <1>2, <1>3
  <2> QED
    BY <1>1, <1>3, <2>1 DEF Parent, Children
<1>4. ASSUME 2 \in 1..L, up[2] # None
      PROVE  /\ up[2] \in Recorded(table)
             /\ \E x \in Children(table, up[2]) : e \in Children(table, x)
  <2>1. 1 \in 1..L /\ up[2] = Parent(table, up[1]) /\ up[2] \in Recorded(table) \cup {None}
    BY <1>1, <1>2, <1>4
  <2>2. up[1] # None
    BY <1>4, <2>1 DEF Parent
  <2>3. up[1] \in Recorded(table) /\ e \in Children(table, up[1])
    BY <1>3, <2>1, <2>2
  <2>4. up[1] \in Children(table, up[2])
    BY <2>1, <2>2, <2>3 DEF Parent, Children
  <2> QED
    BY <1>4, <2>1, <2>3, <2>4
<1>5. ASSUME NEW a \in Ancestors(table, e, 1)
      PROVE  a \in Recorded(table) /\ e \in Children(table, a)
  <2>1. PICK n \in (1..1) \cap (1..L) : a = up[n] /\ a # None
    BY <1>5 DEF Ancestors, up
  <2>2. n = 1 /\ 1 \in 1..L
    BY <2>1
  <2> QED
    BY <1>3, <2>1, <2>2
<1>6. ASSUME NEW a \in Ancestors(table, e, 2)
      PROVE  a \in Recorded(table) /\ \/ e \in Children(table, a)
                                      \/ \E x \in Children(table, a) : e \in Children(table, x)
  <2>1. PICK n \in (1..2) \cap (1..L) : a = up[n] /\ a # None
    BY <1>6 DEF Ancestors, up
  <2>2. (n = 1 /\ 1 \in 1..L) \/ (n = 2 /\ 2 \in 1..L)
    BY <2>1
  <2> QED
    BY <1>3, <1>4, <2>1, <2>2
<1> QED
  BY <1>5, <1>6

\* In a forest the three look-ups agree.
LEMMA ForestKin ==
  ASSUME IsTable(rows) PROVE KinAgree
<1> SUFFICES ASSUME NEW e \in Recorded(rows)
             PROVE  /\ \A a \in Ancestors(rows, e, 1) : e \in Descendants(rows, a, 1)
                    /\ \A d \in Descendants(rows, e, 2) :
                          rows[d].chain = rows[e].chain /\ e \in Ancestors(rows, d, Newest)
                    /\ \A s \in Siblings(rows, e) : e \in Siblings(rows, s)
                    /\ Root(rows, rows[e].chain) \in {e} \cup Ancestors(rows, e, Newest)
  BY DEF KinAgree, Lineage
<1>1. ASSUME NEW a \in Ancestors(rows, e, 1) PROVE e \in Descendants(rows, a, 1)
  <2>1. a \in Recorded(rows) /\ e \in Children(rows, a)
    BY NearAncestors
  <2>2. 1 \in Nat \ {0}
    OBVIOUS
  <2> QED
    BY <2>1, <2>2, ChildIsListed
<1>2. ASSUME NEW d \in Descendants(rows, e, 2)
      PROVE  rows[d].chain = rows[e].chain /\ e \in Ancestors(rows, d, Newest)
  <2>1. Len(rows) \in 0..Len(rows)
    BY TableFacts
  <2>2. PICK i \in 1..Len(Search(rows, e, 2)[Len(rows)]) : d = Search(rows, e, 2)[Len(rows)][i]
    BY DEF Descendants
  <2>3. Kin(rows, e, d)
    BY <2>1, <2>2, SearchFindsKin
  <2> QED
    BY <2>3 DEF Kin, Newest
<1>3. ASSUME NEW s \in Siblings(rows, e) PROVE e \in Siblings(rows, s)
  <2>1. rows[e].parent # None /\ s \in Children(rows, rows[e].parent) /\ s # e
    BY DEF Siblings
  <2>2. rows[s].parent = rows[e].parent /\ e \in Children(rows, rows[s].parent)
    BY <2>1 DEF Children
  <2> QED
    BY <2>1, <2>2 DEF Siblings
<1>4. Root(rows, rows[e].chain) \in {e} \cup Ancestors(rows, e, Newest)
  BY RootIsAbove DEF Newest
<1> QED
  BY <1>1, <1>2, <1>3, <1>4

LEMMA ForestListed ==
  ASSUME IsTable(rows), Len(rows) <= 2 * Fan PROVE AncestorsListIt
<1> SUFFICES ASSUME NEW e \in Recorded(rows), NEW a \in Ancestors(rows, e, 2)
             PROVE  e \in Descendants(rows, a, 2)
  BY DEF AncestorsListIt, Lineage
<1>1. /\ a \in Recorded(rows)
      /\ \/ e \in Children(rows, a)
         \/ \E x \in Children(rows, a) : e \in Children(rows, x)
  BY NearAncestors
<1>2. 2 \in Nat \ {0}
  OBVIOUS
<1>3. CASE e \in Children(rows, a)
  BY <1>1, <1>2, <1>3, ChildIsListed
<1>4. CASE \E x \in Children(rows, a) : e \in Children(rows, x)
  <2>1. PICK x \in Children(rows, a) : e \in Children(rows, x)
    BY <1>4
  <2> QED
    BY <1>1, <1>2, <2>1, GrandchildIsListed
<1> QED
  BY <1>1, <1>3, <1>4

\* A table stays a forest when the kinship of its executions stays ...
LEMMA ForestIsKept ==
  ASSUME NEW table, NEW more, IsForest(table), Recorded(more) = Recorded(table),
         \A e \in Recorded(table) :
            more[e].parent = table[e].parent /\ more[e].chain = table[e].chain
  PROVE  IsForest(more)
BY DEF IsForest

\* ... and when the last execution gets its row.
LEMMA ForestGrows ==
  ASSUME NEW table, IsTable(table), NEW n, n = Len(table), n \in 1..n, table[n] = None,
         NEW rec \in Row,
         \/ rec.parent = None /\ rec.chain = n
         \/ rec.parent \in Recorded(table) /\ rec.chain = table[rec.parent].chain
  PROVE  IsForest([table EXCEPT ![n] = rec])
<1> DEFINE more == [table EXCEPT ![n] = rec]
<1>1. DOMAIN table = 1..n /\ Recorded(table) \subseteq 1..n /\ None \notin Recorded(table)
  BY TableFacts
<1>2. n \in Nat /\ n \in DOMAIN table /\ n \notin Recorded(table) /\ n # None /\ rec # None
  <2>1. n \in Ids /\ None \notin Ids \cup Row
    BY RecordsAssumption DEF Ids, RecordsAssumption
  <2> QED
    BY <1>1, <2>1 DEF Recorded, Ids
<1>3. more[n] = rec /\ \A e \in Recorded(table) : more[e] = table[e]
  BY <1>1, <1>2
<1>4. Recorded(more) = Recorded(table) \cup {n}
  BY <1>2 DEF Recorded
<1>5. \A e \in Recorded(table) : e < n
  BY <1>1, <1>2
<1>6. IsForest(table)
  BY DEF IsTable
<1> HIDE DEF more
<1>7. ASSUME NEW e \in Recorded(table)
      PROVE  /\ more[e].parent = None => more[e].chain = e
             /\ more[e].parent # None =>
                   /\ more[e].parent \in Recorded(more) /\ more[e].parent < e
                   /\ more[more[e].parent].chain = more[e].chain
             /\ more[e].chain \in Recorded(more) /\ more[more[e].chain].parent = None
  BY <1>3, <1>4, <1>6 DEF IsForest
<1>8. /\ more[n].parent = None => more[n].chain = n
      /\ more[n].parent # None =>
            /\ more[n].parent \in Recorded(more) /\ more[n].parent < n
            /\ more[more[n].parent].chain = more[n].chain
      /\ more[n].chain \in Recorded(more) /\ more[more[n].chain].parent = None
  <2>1. CASE rec.parent = None /\ rec.chain = n
    BY <1>3, <1>4, <2>1
  <2>2. CASE rec.parent \in Recorded(table) /\ rec.chain = table[rec.parent].chain
    <3>1. table[rec.parent].chain \in Recorded(table)
          /\ table[table[rec.parent].chain].parent = None
      BY <1>6, <2>2 DEF IsForest
    <3>2. rec.parent # None
      BY <1>1, <2>2
    <3> QED
      BY <1>3, <1>4, <1>5, <2>2, <3>1, <3>2
  <2> QED
    BY <2>1, <2>2
<1> QED
  BY <1>4, <1>7, <1>8 DEF IsForest, more

\* What the executions inherit from those they were started for.
FamilyInv == RecordsInv /\ IsForest(rows)

LEMMA ForestStep ==
  ASSUME FamilyInv, [RecordsNext]_recordsVars
  PROVE  IsForest(rows')
<1>1. /\ RecordsInv /\ IsForest(rows) /\ IsTable(rows) /\ Newest \in Nat
      /\ DOMAIN rows = 1..Newest /\ rows \in Seq(Row \cup {None})
  BY RecordsFacts DEF FamilyInv, IsTable
<1>2. CASE UNCHANGED rows
  <2>1. IsForest(rows) /\ rows' = rows
    BY <1>1, <1>2
  <2> QED
    BY <2>1, Zenon
<1>3. ASSUME NEW p \in Procs, BeginExecution(p) PROVE IsForest(rows')
  <2>1. rows' = Append(rows, None)
    BY <1>3, Zenon DEF BeginExecution
  <2>2. /\ DOMAIN rows' = 1..(Newest + 1) /\ rows'[Newest + 1] = None
        /\ \A e \in 1..Newest : rows'[e] = rows[e]
    <3>1. rows \in Seq(Row \cup {None}) /\ None \in Row \cup {None}
      BY <1>1
    <3>2. /\ rows' \in Seq(Row \cup {None}) /\ Len(rows') = Len(rows) + 1
          /\ rows'[Len(rows) + 1] = None
          /\ \A e \in 1..Len(rows) : rows'[e] = rows[e]
      BY <2>1, <3>1, AppendProperties
    <3> QED
      BY <3>2
  <2>3. Recorded(rows') = Recorded(rows) /\ \A e \in Recorded(rows) : rows'[e] = rows[e]
    BY <1>1, <2>2 DEF Recorded
  <2>4. \A e \in Recorded(rows) :
           rows'[e].parent = rows[e].parent /\ rows'[e].chain = rows[e].chain
    BY <2>3
  <2>5. IsForest(rows) /\ Recorded(rows') = Recorded(rows)
    BY <1>1, <2>3
  <2> QED
    BY <2>4, <2>5, ForestIsKept, Zenon
<1>4. ASSUME NEW p \in Procs, InsertRoot(p) \/ InsertChild(p) PROVE IsForest(rows')
  <2>1. At(p, {"preparing"}) /\ Newest \in 1..Newest /\ rows[Newest] = None
    <3>1. At(p, {"preparing"})
      BY <1>4 DEF InsertRoot, InsertChild, Insert
    <3> QED
      BY <1>1, <3>1, RecordsFacts DEF RecordsInv, PendingRows
  <2>2. PICK parent, chain :
           /\ Insert(p, parent, chain)
           /\ \/ parent = None /\ chain = Newest
              \/ parent \in Recorded(rows) /\ chain = rows[parent].chain
    BY <1>4 DEF InsertRoot, InsertChild
  <2> DEFINE rec == NewRow(parent, chain)
  <2>3. rec \in Row /\ rec.parent = parent /\ rec.chain = chain
    <3>1. parent \in Ids \cup {None} /\ chain \in Ids /\ requested \in Requests
      BY <1>1, <2>1, <2>2, RecordsFacts
         DEF Recorded, Ids, Row, RecordsInv, RecordsTypeOK
    <3> QED
      BY <3>1 DEF NewRow, Row
  <2>4. rows' = [rows EXCEPT ![Newest] = rec]
    BY <2>2 DEF Insert
  <2> HIDE DEF rec
  <2> QED
    BY <1>1, <2>1, <2>2, <2>3, <2>4, ForestGrows
<1>5. ASSUME NEW p \in Procs, CloseRow(p) \/ CloseFailedRow(p) PROVE IsForest(rows')
  <2>1. rows[Newest] \in Row /\ rows[Newest] # None
    <3>1. rows[Newest] \in Row
      BY <1>1, <1>5, CloseEffect
    <3> QED
      BY <3>1, RecordsAssumption DEF RecordsAssumption
  <2>2. PICK s, e : Close(s, e)
    BY <1>5 DEF CloseRow, CloseFailedRow
  <2> DEFINE rec == [rows[Newest] EXCEPT !.status = s, !.error = e, !.undone = s = "rolled_back"]
  <2>3. rows' = [rows EXCEPT ![Newest] = rec]
    BY <2>2 DEF Close
  <2>4. rec.parent = rows[Newest].parent /\ rec.chain = rows[Newest].chain
    BY <2>1 DEF Row
  <2>5. PICK other \in Row : rows' = [rows EXCEPT ![Newest] = other]
    BY <1>1, <1>5, CloseEffect
  <2> HIDE DEF rec
  <2>6. other # None
    BY RecordsAssumption DEF RecordsAssumption
  <2>7. Recorded(rows') = Recorded(rows)
    BY <2>1, <2>5, <2>6 DEF Recorded
  <2>8. ASSUME NEW x \in Recorded(rows)
        PROVE  rows'[x].parent = rows[x].parent /\ rows'[x].chain = rows[x].chain
    <3>1. x \in DOMAIN rows
      BY DEF Recorded
    <3> QED
      BY <2>3, <2>4, <3>1
  <2>9. \A x \in Recorded(rows) :
           rows'[x].parent = rows[x].parent /\ rows'[x].chain = rows[x].chain
    BY <2>8
  <2>10. IsForest(rows) /\ Recorded(rows') = Recorded(rows)
    BY <1>1, <2>7
  <2> QED
    BY <2>9, <2>10, ForestIsKept, Zenon
<1> QED
  BY <1>1, <1>2, <1>3, <1>4, <1>5, RowsStep

\* The executions are a forest, whose trees are the chains.
THEOREM FamilyInductive == RecordsSpec => []FamilyInv
<1>1. RecordsInit => IsForest(rows)
  <2> SUFFICES ASSUME RecordsInit PROVE IsForest(rows)
    OBVIOUS
  <2>1. rows = <<>>
    BY DEF RecordsInit
  <2>2. Recorded(rows) = {}
    BY <2>1 DEF Recorded
  <2> QED
    BY <2>2 DEF IsForest
<1>2. RecordsInit => FamilyInv
  BY <1>1, RecordsInitIsGood DEF FamilyInv
<1>3. FamilyInv /\ RecordsInv' /\ [RecordsNext]_recordsVars => FamilyInv'
  BY ForestStep DEF FamilyInv
<1> QED
  BY <1>2, <1>3, RecordsInductive, PTL DEF RecordsSpec

\* Parents list their children, what is found below an execution has it above, siblings are
\* siblings of each other, and every way up ends at the root of the chain, for any number of
\* executions.
THEOREM KinAgrees == RecordsSpec => []KinAgree
<1>1. FamilyInv => KinAgree
  BY ForestKin, RecordsFacts DEF FamilyInv, IsTable
<1> QED
  BY <1>1, FamilyInductive, PTL

\* All of the look-ups agree while the limit on descendants cannot cut a search short.
THEOREM LineageAgreed == RecordsSpec => [](Newest <= 2 * Fan => LineageAgrees)
<1>1. FamilyInv => (Newest <= 2 * Fan => LineageAgrees)
  <2> SUFFICES ASSUME FamilyInv, Newest <= 2 * Fan PROVE LineageAgrees
    OBVIOUS
  <2>1. IsTable(rows) /\ Len(rows) <= 2 * Fan
    BY RecordsFacts DEF FamilyInv, IsTable
  <2> QED
    BY <2>1, ForestKin, ForestListed DEF LineageAgrees
<1> QED
  BY <1>1, FamilyInductive, PTL

=============================================================================
