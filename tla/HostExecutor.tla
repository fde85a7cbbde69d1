---------------------------- MODULE HostExecutor ----------------------------
(***************************************************************************)
(* Execution of changesets on the host.  An execution takes the lock, asks *)
(* whether the changeset has been executed within the last hour, and else  *)
(* runs the pipeline: validate, back up, apply, verify, check health.  An  *)
(* exception in the pipeline leads to the rollback of the files that       *)
(* context.applied_changes lists, which is filled in after the last change *)
(* only.  The result goes to the executions table and then, still under    *)
(* the lock, to the idempotency record.                                    *)
(*                                                                         *)
(* The lock is a mutex here, which ExecutionLock refines into the lock     *)
(* file; a crash leaves it taken until it is cleaned up.  The user of the  *)
(* workspace may edit files at any time.                                   *)
(*                                                                         *)
(* Code: packages/executor/{executor,file_applier,rollback,idempotency}.py *)
(***************************************************************************)
EXTENDS Integers, Sequences

CONSTANTS
    Paths, Contents,
    NoFile,         \* what a path holds if there is no file
    AnyContent,     \* an old_content of None: any content fits
    Execs, NoExec,
    ChangeSets,     \* sequences of changes; each with the plan it belongs to
    MaxEdits,       \* bound: edits by the user
    MaxFaults,      \* bound: errors raised by the file system or the database
    MaxCrashes      \* bound: processes that die

Change == [path : Paths, old : Contents \cup {NoFile, AnyContent}, new : Contents \cup {NoFile}]

ASSUME HostExecutorAssumption ==
    /\ NoFile \notin Contents
    /\ AnyContent \notin Contents \cup {NoFile}
    /\ NoExec \notin Execs
    /\ ChangeSets # {} /\ ChangeSets \subseteq Seq(Change)
    /\ MaxEdits \in Nat /\ MaxFaults \in Nat /\ MaxCrashes \in Nat

VARIABLES
    files,      \* the workspace
    holder,     \* who has the lock
    record,     \* the idempotency record of each changeset
    row,        \* the row of each execution in the executions table
    pc,         \* where each execution stands
    request,    \* the changeset it was asked to execute
    outcome,    \* its result
    \* locals of the pipeline, which only the holder of the lock runs
    idx,        \* next change
    backup,     \* copies of the files as they were
    hasBackup,  \* context.backup_dir is set
    applied,    \* context.applied_changes lists the changes
    \* history
    before,     \* the workspace when the lock was taken
    edited,     \* paths the user has edited since
    done,       \* changesets completed, with a result younger than an hour
    edits, faults, crashes

world == <<files, holder, record, row>>
calls == <<pc, request, outcome>>
local == <<idx, backup, hasBackup, applied>>
bounds == <<edits, faults, crashes>>
vars == <<world, calls, local, before, edited, done, bounds>>

Positions == {"idle", "asked", "checking", "starting", "validating", "backing", "applying",
              "writing", "verifying", "recording", "failing", "restoring", "closing",
              "remembering", "releasing", "dead"}

\* There is a copy of a file only if there was a file.
NoCopies == [p \in Paths |-> NoFile]

Init ==
    /\ files \in [Paths -> Contents \cup {NoFile}]
    /\ holder = NoExec
    /\ record = [c \in ChangeSets |-> "none"]
    /\ row = [e \in Execs |-> "none"]
    /\ pc = [e \in Execs |-> "idle"]
    /\ request \in [Execs -> ChangeSets]
    /\ outcome = [e \in Execs |-> "none"]
    /\ idx = 1
    /\ backup = NoCopies
    /\ hasBackup = FALSE
    /\ applied = FALSE
    /\ before = files
    /\ edited = {}
    /\ done = {}
    /\ edits = 0 /\ faults = 0 /\ crashes = 0

Goes(e, position) == pc' = [pc EXCEPT ![e] = position]

MoreChanges(e) == idx <= Len(request[e])
Current(e) == request[e][idx]
Touched(c) == {c[i].path : i \in 1..Len(c)}

\* An error is raised that the code at hand does not expect.
Fault == faults < MaxFaults /\ faults' = faults + 1

NoFault == UNCHANGED faults

-----------------------------------------------------------------------------
(* The lock and the idempotency record                                     *)

Ask(e) ==
    /\ pc[e] = "idle"
    /\ \E c \in ChangeSets : request' = [request EXCEPT ![e] = c]
    /\ outcome' = [outcome EXCEPT ![e] = "none"]
    /\ row' = [row EXCEPT ![e] = "none"]
    /\ Goes(e, "asked")
    /\ UNCHANGED <<files, holder, record, local, before, edited, done, bounds>>

Lock(e) ==
    /\ pc[e] = "asked"
    /\ holder = NoExec
    /\ holder' = e
    /\ idx' = 1
    /\ hasBackup' = FALSE
    /\ applied' = FALSE
    /\ backup' = NoCopies
    /\ before' = files
    /\ edited' = {}
    /\ Goes(e, "checking")
    /\ UNCHANGED <<files, record, row, request, outcome, done, bounds>>

\* acquire() gives up after its timeout.
GiveUp(e) ==
    /\ pc[e] = "asked"
    /\ holder # NoExec
    /\ Goes(e, "idle")
    /\ UNCHANGED <<world, request, outcome, local, before, edited, done, bounds>>

\* check_already_executed: a record of a success answers the call; one of a failure
\* does not.  The file of an expired record may resist its removal, which raises.
Check(e) ==
    /\ pc[e] = "checking"
    /\ \/ /\ record[request[e]] = "completed"
          /\ Goes(e, "releasing")
          /\ outcome' = [outcome EXCEPT ![e] = "cached"]
          /\ NoFault
       \/ /\ record[request[e]] # "completed"
          /\ (Goes(e, "starting") /\ NoFault) \/ (Goes(e, "releasing") /\ Fault)
          /\ UNCHANGED outcome
    /\ UNCHANGED <<world, request, local, before, edited, done, edits, crashes>>

\* record_execution_start; it is not within the try, an error goes to the caller.
RecordStart(e) ==
    /\ pc[e] = "starting"
    /\ \/ Goes(e, "validating") /\ row' = [row EXCEPT ![e] = "pending"] /\ NoFault
       \/ Goes(e, "releasing") /\ UNCHANGED row /\ Fault
    /\ UNCHANGED <<files, holder, record, request, outcome, local, before, edited, done,
                   edits, crashes>>

-----------------------------------------------------------------------------
(* The pipeline                                                            *)

\* The verdict is ALLOW and the checksum matches, or an exception is raised.
Validate(e) ==
    /\ pc[e] = "validating"
    /\ Goes(e, "backing") \/ Goes(e, "failing")
    /\ UNCHANGED <<world, request, outcome, local, before, edited, done, bounds>>

\* _create_backup, one file after the other
BackUp(e) ==
    /\ pc[e] = "backing"
    /\ MoreChanges(e)
    /\ backup' = [backup EXCEPT ![Current(e).path] = files[Current(e).path]]
    /\ idx' = idx + 1
    /\ UNCHANGED <<world, calls, hasBackup, applied, before, edited, done, bounds>>

\* The backup is linked to the artifacts, which may fail.
BackedUp(e) ==
    /\ pc[e] = "backing"
    /\ ~MoreChanges(e)
    /\ hasBackup' = TRUE
    /\ idx' = 1
    /\ \/ Goes(e, "applying") /\ NoFault
       \/ Goes(e, "failing") /\ Fault
    /\ UNCHANGED <<world, request, outcome, backup, applied, before, edited, done,
                   edits, crashes>>

BackUpFails(e) ==
    /\ pc[e] = "backing"
    /\ Fault
    /\ Goes(e, "failing")
    /\ UNCHANGED <<world, request, outcome, local, before, edited, done, edits, crashes>>

\* A file to create must not exist; one to update or delete must, and its content
\* is compared if the change names it.
Fits(change, content) ==
    IF change.old = NoFile THEN content = NoFile
                           ELSE content # NoFile /\ change.old \in {AnyContent, content}

\* A slip: a change that does not fit is left out.
CheckChangeSkips(e) ==
    /\ pc[e] = "applying"
    /\ MoreChanges(e)
    /\ IF Fits(Current(e), files[Current(e).path])
       THEN Goes(e, "writing") /\ UNCHANGED idx
       ELSE idx' = idx + 1 /\ UNCHANGED pc
    /\ UNCHANGED <<world, request, outcome, backup, hasBackup, applied, before, edited, done,
                   bounds>>

CheckChange(e) ==
    /\ pc[e] = "applying"
    /\ MoreChanges(e)
    /\ Goes(e, IF Fits(Current(e), files[Current(e).path]) THEN "writing" ELSE "failing")
    /\ UNCHANGED <<world, request, outcome, local, before, edited, done, bounds>>

\* The new content replaces whatever is there by now; a file cannot be deleted twice.
WriteChange(e) ==
    /\ pc[e] = "writing"
    /\ MoreChanges(e)
    /\ IF Current(e).new = NoFile /\ files[Current(e).path] = NoFile
       THEN Goes(e, "failing") /\ UNCHANGED <<files, idx>>
       ELSE /\ files' = [files EXCEPT ![Current(e).path] = Current(e).new]
            /\ idx' = idx + 1
            /\ Goes(e, "applying")
    /\ UNCHANGED <<holder, record, row, request, outcome, backup, hasBackup, applied, before,
                   edited, done, bounds>>

\* The disk is full: the temporary file is removed and the target stays.
WriteFails(e) ==
    /\ pc[e] = "writing"
    /\ Fault
    /\ Goes(e, "failing")
    /\ UNCHANGED <<world, request, outcome, local, before, edited, done, edits, crashes>>

\* Only now is context.applied_changes set.
Applied(e) ==
    /\ pc[e] = "applying"
    /\ ~MoreChanges(e)
    /\ applied' = TRUE
    /\ Goes(e, "verifying")
    /\ UNCHANGED <<world, request, outcome, idx, backup, hasBackup, before, edited, done,
                   bounds>>

\* Verification and health checks
Verify(e) ==
    /\ pc[e] = "verifying"
    /\ Goes(e, "recording") \/ Goes(e, "failing")
    /\ UNCHANGED <<world, request, outcome, local, before, edited, done, bounds>>

\* execution.json and record_execution_end; if they fail the exception handler rolls
\* back, although the changeset has been applied and verified.
RecordSuccess(e) ==
    /\ pc[e] = "recording"
    /\ \/ /\ Goes(e, "remembering")
          /\ row' = [row EXCEPT ![e] = "completed"]
          /\ outcome' = [outcome EXCEPT ![e] = "completed"]
          /\ done' = done \cup {request[e]}
          /\ NoFault
       \/ Goes(e, "failing") /\ Fault /\ UNCHANGED <<row, outcome, done>>
    /\ UNCHANGED <<files, holder, record, request, local, before, edited, edits, crashes>>

-----------------------------------------------------------------------------
(* The exception handler                                                   *)

\* The error is logged first; if that fails too, there is no rollback, and the second
\* error leaves execute().
Fail(e) ==
    /\ pc[e] = "failing"
    /\ outcome' = [outcome EXCEPT ![e] = "failed"]
    /\ idx' = 1
    /\ \/ Goes(e, IF hasBackup THEN "restoring" ELSE "closing") /\ NoFault
       \/ Goes(e, "releasing") /\ Fault
    /\ UNCHANGED <<world, request, backup, hasBackup, applied, before, edited, done,
                   edits, crashes>>

ToRestore(e) == applied /\ MoreChanges(e)

\* A slip: only what was there before is restored; created files stay.
RestoreCopiesOnly(e) ==
    /\ pc[e] = "restoring"
    /\ ToRestore(e)
    /\ files' = IF backup[Current(e).path] = NoFile THEN files
                ELSE [files EXCEPT ![Current(e).path] = backup[Current(e).path]]
    /\ idx' = idx + 1
    /\ UNCHANGED <<holder, record, row, calls, backup, hasBackup, applied, before, edited,
                   done, bounds>>

\* _restore_file: the copy is put back, or the file is removed if there is no copy.
Restore(e) ==
    /\ pc[e] = "restoring"
    /\ ToRestore(e)
    /\ files' = [files EXCEPT ![Current(e).path] = backup[Current(e).path]]
    /\ idx' = idx + 1
    /\ UNCHANGED <<holder, record, row, calls, backup, hasBackup, applied, before, edited,
                   done, bounds>>

RestoreFails(e) ==
    /\ pc[e] = "restoring"
    /\ Fault
    /\ Goes(e, "closing")
    /\ UNCHANGED <<world, request, outcome, local, before, edited, done, edits, crashes>>

\* context.rolled_back = True
Restored(e) ==
    /\ pc[e] = "restoring"
    /\ ~ToRestore(e)
    /\ outcome' = [outcome EXCEPT ![e] = "rolled_back"]
    /\ Goes(e, "closing")
    /\ UNCHANGED <<world, request, local, before, edited, done, bounds>>

\* execution.json and record_execution_end, which may raise out of execute().
RecordFailure(e) ==
    /\ pc[e] = "closing"
    /\ \/ Goes(e, "remembering") /\ row' = [row EXCEPT ![e] = outcome[e]] /\ NoFault
       \/ Goes(e, "releasing") /\ UNCHANGED row /\ Fault
    /\ UNCHANGED <<files, holder, record, request, outcome, local, before, edited, done,
                   edits, crashes>>

Succeeded(e) == outcome[e] = "completed"

\* A slip: the lock does not cover the record.
RememberUnlocked(e) ==
    /\ pc[e] = "remembering"
    /\ \/ holder = e /\ holder' = NoExec /\ UNCHANGED <<record, pc>>
       \/ /\ holder # e
          /\ record' = [record EXCEPT ![request[e]] = IF Succeeded(e) THEN "completed" ELSE "failed"]
          /\ Goes(e, "idle")
          /\ UNCHANGED holder
    /\ UNCHANGED <<files, row, request, outcome, local, before, edited, done, bounds>>

\* record_result: the file is overwritten; an error while writing it is logged, and
\* leaves a file that nobody can read.
Remember(e) ==
    /\ pc[e] = "remembering"
    /\ \/ record' = [record EXCEPT ![request[e]] = IF Succeeded(e) THEN "completed" ELSE "failed"]
          /\ NoFault
       \/ record' = [record EXCEPT ![request[e]] = "none"] /\ Fault
    /\ Goes(e, "releasing")
    /\ UNCHANGED <<files, holder, row, request, outcome, local, before, edited, done,
                   edits, crashes>>

\* A slip: an exception leaves the lock taken.
ReleaseAfterResult(e) ==
    /\ pc[e] = "releasing"
    /\ holder' = IF outcome[e] = "none" THEN holder ELSE NoExec
    /\ Goes(e, "idle")
    /\ UNCHANGED <<files, record, row, request, outcome, local, before, edited, done, bounds>>

\* The with statement releases the lock, also when an exception passes.
Release(e) ==
    /\ pc[e] = "releasing"
    /\ holder' = NoExec
    /\ Goes(e, "idle")
    /\ UNCHANGED <<files, record, row, request, outcome, local, before, edited, done, bounds>>

-----------------------------------------------------------------------------
(* The world outside                                                       *)

\* An hour passes: the record is deleted when it is looked at.
RecordExpires(c) ==
    /\ record[c] # "none" \/ c \in done
    /\ record' = [record EXCEPT ![c] = "none"]
    /\ done' = done \ {c}
    /\ UNCHANGED <<files, holder, row, calls, local, before, edited, bounds>>

UserEdits(p, content) ==
    /\ edits < MaxEdits
    /\ files[p] # content
    /\ edits' = edits + 1
    /\ files' = [files EXCEPT ![p] = content]
    /\ edited' = edited \cup {p}
    /\ UNCHANGED <<holder, record, row, calls, local, before, done, faults, crashes>>

Crash(e) ==
    /\ pc[e] \notin {"idle", "asked", "dead"}
    /\ crashes < MaxCrashes
    /\ crashes' = crashes + 1
    /\ Goes(e, "dead")
    /\ UNCHANGED <<world, request, outcome, local, before, edited, done, edits, faults>>

\* The stale lock of a dead process is removed.
LockCleaned ==
    /\ \E e \in Execs : holder = e /\ pc[e] = "dead"
    /\ holder' = NoExec
    /\ UNCHANGED <<files, record, row, calls, local, before, edited, done, bounds>>

Pipeline(e) ==
    \/ Check(e) \/ RecordStart(e) \/ Validate(e)
    \/ BackUp(e) \/ BackedUp(e) \/ BackUpFails(e)
    \/ CheckChange(e) \/ WriteChange(e) \/ WriteFails(e) \/ Applied(e)
    \/ Verify(e) \/ RecordSuccess(e)
    \/ Fail(e) \/ Restore(e) \/ RestoreFails(e) \/ Restored(e) \/ RecordFailure(e)
    \/ Remember(e) \/ Release(e)

Next ==
    \/ \E e \in Execs : Ask(e) \/ Lock(e) \/ GiveUp(e) \/ Pipeline(e) \/ Crash(e)
    \/ \E c \in ChangeSets : RecordExpires(c)
    \/ \E p \in Paths, content \in Contents \cup {NoFile} : UserEdits(p, content)
    \/ LockCleaned

Spec == Init /\ [][Next]_vars

\* A live process goes on: waiting ends by its timeout, and so do the subprocesses
\* and requests of verification and health checks.
Fairness == \A e \in Execs : WF_vars(Pipeline(e)) /\ WF_vars(Lock(e) \/ GiveUp(e))

FairSpec == Spec /\ Fairness

-----------------------------------------------------------------------------
(* Properties                                                              *)

Workspace == [Paths -> Contents \cup {NoFile}]
Outcomes == {"none", "cached", "completed", "failed", "rolled_back"}
Inside == Positions \ {"idle", "asked", "dead"}
Unedited == Paths \ edited

\* Domains
TypeOK ==
    /\ files \in Workspace
    /\ holder \in Execs \cup {NoExec}
    /\ record \in [ChangeSets -> {"none", "completed", "failed"}]
    /\ row \in [Execs -> Outcomes \cup {"pending"}]
    /\ pc \in [Execs -> Positions]
    /\ request \in [Execs -> ChangeSets]
    /\ outcome \in [Execs -> Outcomes]
    /\ idx \in Nat \ {0}
    /\ backup \in Workspace
    /\ hasBackup \in BOOLEAN
    /\ applied \in BOOLEAN
    /\ before \in Workspace
    /\ edited \subseteq Paths
    /\ done \subseteq ChangeSets
    /\ edits \in 0..MaxEdits /\ faults \in 0..MaxFaults /\ crashes \in 0..MaxCrashes

\* The files a finished pipeline leaves: the last change of a path decides.
Latest(c, n, i) == \A j \in (i + 1)..n : c[j].path # c[i].path
AppliedUpTo(c, n) ==
    \A i \in 1..n : Latest(c, n, i) /\ c[i].path \in Unedited => files[c[i].path] = c[i].new

\* A success that is recorded means that every file has its new content, whatever
\* happened to the execution on its way (but for what the user edited meanwhile).
CompletedIsApplied ==
    \A e \in Execs : pc[e] \in Inside /\ Succeeded(e) => AppliedUpTo(request[e], Len(request[e]))

\* A rollback after all changes were applied restores every file of the workspace:
\* updated and deleted ones come back, created ones go.
RollbackRestores ==
    \A e \in Execs : pc[e] \in Inside /\ outcome[e] = "rolled_back" /\ applied
                        => \A p \in Unedited : files[p] = before[p]

\* A changeset that was completed within the hour is not executed again, however
\* many executions wait for the lock; only a crash or an error that loses the
\* record can lead to that.
DuplicatesAreCached ==
    faults = 0 /\ crashes = 0 =>
        \A e \in Execs : pc[e] \in Inside \ {"checking", "remembering", "releasing"}
                            => request[e] \notin done

\* Every call comes to an end, and an execution that ends for whatever reason
\* leaves the lock to the next.
CallsEnd ==
    \A e \in Execs :
        /\ pc[e] = "asked" ~> pc[e] \in {"idle", "dead"}
        /\ holder = e ~> holder # e \/ pc[e] = "dead"

-----------------------------------------------------------------------------
(* The inductive invariant                                                 *)

InsideHolds == \A e \in Execs : pc[e] \in Inside => holder = e

\* Nothing is written before the backup is complete.
Untouched == {"checking", "starting", "validating", "backing"}

UntouchedKept ==
    \A e \in Execs : pc[e] \in Inside =>
        \A p \in Unedited : pc[e] \in Untouched \/ p \notin Touched(request[e])
                                => files[p] = before[p]

\* The pipeline's own steps in order: where backup and applied changes stand.
InOrder ==
    \A e \in Execs :
        /\ pc[e] \in Untouched => ~hasBackup /\ ~applied
        /\ pc[e] \in {"checking", "starting", "validating"} => idx = 1
        /\ pc[e] \in {"applying", "writing"} => hasBackup /\ ~applied
        /\ pc[e] \in {"verifying", "recording"} => applied
        /\ pc[e] \in Inside /\ applied => hasBackup
        /\ pc[e] \in Untouched \cup {"asked", "applying", "writing", "verifying", "recording", "failing"}
              => ~Succeeded(e) /\ outcome[e] # "rolled_back"
        /\ pc[e] \in {"restoring", "closing"} => ~Succeeded(e)
        /\ pc[e] = "restoring" => outcome[e] # "rolled_back"

BackupIsBefore ==
    \A e \in Execs : pc[e] \in Inside =>
        \A i \in 1..Len(request[e]) :
            /\ hasBackup \/ (pc[e] = "backing" /\ i < idx)
            /\ request[e][i].path \in Unedited
            => backup[request[e][i].path] = before[request[e][i].path]

WrittenSoFar ==
    \A e \in Execs :
        /\ pc[e] \in {"applying", "writing"} =>
              idx <= Len(request[e]) + 1 /\ AppliedUpTo(request[e], idx - 1)
        /\ pc[e] \in {"verifying", "recording"} => AppliedUpTo(request[e], Len(request[e]))

RestoredSoFar ==
    \A e \in Execs : pc[e] = "restoring" /\ applied =>
        \A i \in 1..Len(request[e]) :
            i < idx /\ request[e][i].path \in Unedited
            => files[request[e][i].path] = before[request[e][i].path]

\* What was completed is on record, or about to be.
DoneIsRecorded ==
    faults = 0 /\ crashes = 0 =>
        /\ \A c \in done :
              \/ record[c] = "completed"
              \/ \E e \in Execs : pc[e] = "remembering" /\ request[e] = c /\ Succeeded(e)
        /\ \A e \in Execs : pc[e] = "remembering" /\ ~Succeeded(e) => request[e] \notin done

IInv ==
    /\ TypeOK
    /\ InsideHolds
    /\ UntouchedKept
    /\ InOrder
    /\ BackupIsBefore
    /\ WrittenSoFar
    /\ RestoredSoFar
    /\ CompletedIsApplied
    /\ RollbackRestores
    /\ DoneIsRecorded
    /\ DuplicatesAreCached

-----------------------------------------------------------------------------
(* What the comments of the code say and the code does not do.             *)

\* executor.py:17 promises atomic application (all or nothing), and
\* file_applier.py:60 that changes already applied will be rolled back by the
\* executor: a row that says rolled_back means that no change is left.
RolledBackMeansRestored ==
    \A e \in Execs : pc[e] \in Inside /\ row[e] = "rolled_back"
                        => \A p \in Unedited : files[p] = before[p]

=============================================================================
