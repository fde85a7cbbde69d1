--------------------------- MODULE ExecutionLock ---------------------------
(***************************************************************************)
(* The lock file of the host executor.  An execution takes the lock by     *)
(* creating .lonelycat/locks/execution.lock with O_CREAT | O_EXCL and then *)
(* writes its metadata into the file; it retries once a second; after      *)
(* timeout_seconds it removes a lock file that is old and whose process is *)
(* dead, and tries once more.  Release reads the owner and then unlinks.   *)
(* File operations act on the path: an unlink removes whatever file is     *)
(* there by then, a write goes to the file the process has created.        *)
(*                                                                         *)
(* Each execution runs in a process of its own; a crash leaves its file.   *)
(* Whether a process is alive is found out in one way on Windows and in    *)
(* another on Unix, where the test of a dead process raises an error.      *)
(*                                                                         *)
(* The names differ from those of HostExecutor, which holds the lock and   *)
(* is extended together with this module in ExecutorProofs.                *)
(*                                                                         *)
(* Code: packages/executor/execution_lock.py.                              *)
(***************************************************************************)
EXTENDS Integers

CONSTANTS
    Owners,         \* executions, each with its own process
    NoOwner,
    Retries,        \* attempts that fit into timeout_seconds
    Windows,        \* the platform
    MaxDeaths,      \* bound: processes that die in a behaviour
    MaxSlowLookups  \* bound: calls of tasklist that take more than 5 seconds

ASSUME ExecutionLockAssumption ==
    /\ NoOwner \notin Owners
    /\ Retries \in Nat
    /\ Windows \in BOOLEAN
    /\ MaxDeaths \in Nat
    /\ MaxSlowLookups \in Nat

VARIABLES
    creator,    \* who created the file at the path; NoOwner: there is none
    written,    \* its metadata can be read
    old,        \* it is older than stale_threshold_seconds
    place,      \* where each execution stands
    tries,      \* attempts of the current acquire()
    last,       \* this is the one attempt after the cleanup
    misfired,   \* history: a cleanup removed the lock of a live process
    deaths,
    slowLookups

file == <<creator, written, old>>
lockVars == <<file, place, tries, last, misfired, deaths, slowLookups>>

Places == {"idle", "trying", "writing", "waiting", "judging", "cleaning", "refusing",
              "held", "checking", "unlinking", "done", "raised", "dead"}

LockInit ==
    /\ creator = NoOwner
    /\ written = FALSE
    /\ old = FALSE
    /\ place = [e \in Owners |-> "idle"]
    /\ tries = [e \in Owners |-> 0]
    /\ last = [e \in Owners |-> FALSE]
    /\ misfired = FALSE
    /\ deaths = 0
    /\ slowLookups = 0

Absent   == creator = NoOwner
Moves(e, position) == place' = [place EXCEPT ![e] = position]

Unlinked == creator' = NoOwner /\ written' = FALSE /\ old' = FALSE

-----------------------------------------------------------------------------
(* acquire()                                                               *)

\* execute() is called, for the first time or again.
Begin(e) ==
    /\ place[e] \in {"idle", "done", "raised"}
    /\ Moves(e, "trying")
    /\ tries' = [tries EXCEPT ![e] = 0]
    /\ last' = [last EXCEPT ![e] = FALSE]
    /\ UNCHANGED <<file, misfired, deaths, slowLookups>>

\* A slip: exists() and then an ordinary open, which truncates what is there.
TryCreateInclusive(e) ==
    /\ place[e] = "trying"
    /\ Absent \/ ~written
    /\ creator' = e
    /\ written' = FALSE
    /\ old' = FALSE
    /\ Moves(e, "writing")
    /\ UNCHANGED <<tries, last, misfired, deaths, slowLookups>>

\* _try_acquire: O_EXCL lets one create the file.
TryCreate(e) ==
    /\ place[e] = "trying"
    /\ Absent
    /\ creator' = e
    /\ written' = FALSE
    /\ old' = FALSE
    /\ Moves(e, "writing")
    /\ UNCHANGED <<tries, last, misfired, deaths, slowLookups>>

AfterFailure(e) == IF last[e] THEN "refusing" ELSE "waiting"

TryFails(e) ==
    /\ place[e] = "trying"
    /\ ~Absent
    /\ Moves(e, AfterFailure(e))
    /\ UNCHANGED <<file, tries, last, misfired, deaths, slowLookups>>

\* The metadata go to the file this execution created, wherever it is now.
WriteMetadata(e) ==
    /\ place[e] = "writing"
    /\ written' = (written \/ creator = e)
    /\ Moves(e, "held")
    /\ UNCHANGED <<creator, old, tries, last, misfired, deaths, slowLookups>>

\* os.write fails (disk full): False is returned and the empty file stays.
MetadataFails(e) ==
    /\ place[e] = "writing"
    /\ Moves(e, AfterFailure(e))
    /\ UNCHANGED <<file, tries, last, misfired, deaths, slowLookups>>

\* A slip: the clock is not looked at.
RetryForever(e) ==
    /\ place[e] = "waiting"
    /\ Moves(e, "trying")
    /\ UNCHANGED <<file, tries, last, misfired, deaths, slowLookups>>

Retry(e) ==
    /\ place[e] = "waiting"
    /\ tries[e] < Retries
    /\ tries' = [tries EXCEPT ![e] = @ + 1]
    /\ Moves(e, "trying")
    /\ UNCHANGED <<file, last, misfired, deaths, slowLookups>>

TimeOut(e) ==
    /\ place[e] = "waiting"
    /\ tries[e] = Retries
    /\ Moves(e, "judging")
    /\ UNCHANGED <<file, tries, last, misfired, deaths, slowLookups>>

Readable == ~Absent /\ written

\* Slips in _is_stale: the age is enough; the error is not caught on Windows either.
IsStaleByAge == Readable /\ old
IsStaleNever == FALSE

\* _is_stale: readable, older than the threshold, and tasklist does not show its
\* process (numbers of dead processes are not given to new ones here).  On Unix os.kill raises for a dead process, and the except clause that
\* should catch it names a module imported in the other branch only: that raises
\* too, and _is_stale answers False.
IsStale == Readable /\ old /\ Windows /\ place[creator] = "dead"

Judge(e) ==
    /\ place[e] = "judging"
    /\ Moves(e, IF IsStale THEN "cleaning" ELSE "refusing")
    /\ UNCHANGED <<file, tries, last, misfired, deaths, slowLookups>>

\* tasklist times out: the process counts as dead.
JudgeSlowly(e) ==
    /\ place[e] = "judging"
    /\ Readable /\ old /\ Windows
    /\ slowLookups < MaxSlowLookups
    /\ slowLookups' = slowLookups + 1
    /\ Moves(e, "cleaning")
    /\ UNCHANGED <<file, tries, last, misfired, deaths>>

\* _force_release unlinks the path, which by now may hold another lock.
ForceRelease(e) ==
    /\ place[e] = "cleaning"
    /\ ~Absent
    /\ misfired' = (misfired \/ place[creator] # "dead")
    /\ Unlinked
    /\ last' = [last EXCEPT ![e] = TRUE]
    /\ Moves(e, "trying")
    /\ UNCHANGED <<tries, deaths, slowLookups>>

ForceReleaseFails(e) ==
    /\ place[e] = "cleaning"
    /\ Absent
    /\ Moves(e, "refusing")
    /\ UNCHANGED <<file, tries, last, misfired, deaths, slowLookups>>

\* acquire() reads the lock once more, for its message, and raises.  If there is
\* nothing to read, what it raises is an AttributeError.
Refuse(e) ==
    /\ place[e] = "refusing"
    /\ Moves(e, "raised")
    /\ UNCHANGED <<file, tries, last, misfired, deaths, slowLookups>>

-----------------------------------------------------------------------------
(* release(), called by __exit__ when the execution is over.               *)

\* exists() and _read_lock: a lock of another execution is left alone, one that
\* cannot be read is not.
CheckOwner(e) ==
    /\ place[e] = "held"
    /\ Moves(e, IF Absent \/ (Readable /\ creator # e) THEN "done" ELSE "unlinking")
    /\ UNCHANGED <<file, tries, last, misfired, deaths, slowLookups>>

Unlink(e) ==
    /\ place[e] = "unlinking"
    /\ Unlinked
    /\ Moves(e, "done")
    /\ UNCHANGED <<tries, last, misfired, deaths, slowLookups>>

\* An unlink raises, in release() or in _force_release: the error is logged, the file
\* stays, and the execution ends, or is refused the lock.
UnlinkFails(e) ==
    /\ ~Absent
    /\ \/ place[e] = "cleaning" /\ Moves(e, "refusing")
       \/ place[e] = "unlinking" /\ Moves(e, "done")
    /\ UNCHANGED <<file, tries, last, misfired, deaths, slowLookups>>

-----------------------------------------------------------------------------
Die(e) ==
    /\ place[e] \notin {"idle", "done", "raised", "dead"}
    /\ deaths < MaxDeaths
    /\ deaths' = deaths + 1
    /\ Moves(e, "dead")
    /\ UNCHANGED <<file, tries, last, misfired, slowLookups>>

GetsOld ==
    /\ ~Absent /\ ~old
    /\ old' = TRUE
    /\ UNCHANGED <<creator, written, place, tries, last, misfired, deaths, slowLookups>>

Acquire(e) ==
    \/ TryCreate(e) \/ TryFails(e) \/ WriteMetadata(e)
    \/ Retry(e) \/ TimeOut(e) \/ Judge(e)
    \/ ForceRelease(e) \/ ForceReleaseFails(e) \/ Refuse(e)

GiveBack(e) == CheckOwner(e) \/ Unlink(e)

LockNext ==
    \/ \E e \in Owners :
          \/ Begin(e) \/ Acquire(e) \/ JudgeSlowly(e) \/ GiveBack(e)
          \/ MetadataFails(e) \/ UnlinkFails(e) \/ Die(e)
    \/ GetsOld

LockSpec == LockInit /\ [][LockNext]_lockVars

\* A live execution goes on with acquire(), its work ends, and files grow old.
LockFairness ==
    WF_lockVars(GetsOld) /\ \A e \in Owners : WF_lockVars(Acquire(e)) /\ WF_lockVars(GiveBack(e))

LockFairSpec == LockSpec /\ LockFairness

-----------------------------------------------------------------------------
(* Properties                                                              *)

\* Domains; the metadata and the age are those of a file that is there.
LockTypeOK ==
    /\ creator \in Owners \cup {NoOwner}
    /\ written \in BOOLEAN
    /\ old \in BOOLEAN
    /\ place \in [Owners -> Places]
    /\ tries \in [Owners -> 0..Retries]
    /\ last \in [Owners -> BOOLEAN]
    /\ misfired \in BOOLEAN
    /\ deaths \in 0..MaxDeaths
    /\ slowLookups \in 0..MaxSlowLookups
    /\ Absent => ~written /\ ~old

OneHolder == \A d, e \in Owners : place[d] = "held" /\ place[e] = "held" => d = e

\* Two executions hold the lock at the same time only after a cleanup that hit
\* the lock of a live process: creation, late metadata, failed writes, crashes and
\* release do not break the exclusion by themselves.
ExclusiveUnlessMisfired == misfired \/ OneHolder

\* A cleanup goes wrong in that way only on Windows, and only if some process
\* died (another cleanup replaced its lock) or a lookup timed out.
MisfireHasCause == misfired => Windows /\ deaths + slowLookups > 0

\* Whoever waits for the lock gets it or is told so, unless its process dies:
\* acquire() does not wait for ever for a lock that is never given back.
AcquireReturns ==
    \A e \in Owners : place[e] \in {"trying", "waiting"} ~> place[e] \in {"held", "raised", "dead"}

\* The assumption that executions keep being asked for
KeepComing == \A e \in Owners : WF_lockVars(Begin(e))

\* The assumption that files can be removed again, from some time on
UnlinkWorks == <>[][~\E e \in Owners : UnlinkFails(e)]_lockVars

\* A readable lock of a dead process is removed in the end, if executions keep
\* coming: one crash does not block the executor for good.  It holds on Windows; on
\* Unix it does not, though execution_lock.py:10 calls the lock cross-platform.
DeadOwnerIsReplaced ==
    KeepComing /\ UnlinkWorks =>
        \A d \in Owners : (creator = d /\ written /\ place[d] = "dead") ~> creator # d

-----------------------------------------------------------------------------
(* The inductive invariant: whoever is past the creation of the file still  *)
(* has it at the path, and whoever is about to remove a lock has a reason.  *)

HoldersHaveTheFile ==
    misfired \/ \A e \in Owners : place[e] \in {"writing", "held", "unlinking"} => creator = e

CleanersHaveCause ==
    (\E e \in Owners : place[e] = "cleaning") => Windows /\ deaths + slowLookups > 0

DeadAreCounted == (\E e \in Owners : place[e] = "dead") => deaths > 0

LockInv ==
    /\ LockTypeOK
    /\ HoldersHaveTheFile
    /\ CleanersHaveCause
    /\ DeadAreCounted
    /\ MisfireHasCause

-----------------------------------------------------------------------------
(* The lock as an exclusive lease on the workspace                         *)

Holders == [r \in {"workspace"} |-> {e \in Owners : place[e] = "held"}]

Lease == INSTANCE ExclusiveLease
        WITH Resources <- {"workspace"}, Clients <- Owners, holders <- Holders

\* execution_lock.py:4: a mutex that ensures only one execution at a time.  It is
\* one on Unix; on Windows the cleanup of a dead lock may let two executions in.
OneExecutionAtATime == Lease!Spec

=============================================================================
