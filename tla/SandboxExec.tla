---------------------------- MODULE SandboxExec ----------------------------
(***************************************************************************)
(* Executions in the docker sandbox (api/sandbox.py, runner_docker.py) and *)
(* the skills that start them (api/skills.py).  The handlers are plain     *)
(* functions, which FastAPI runs in threads of a pool: a thread per        *)
(* execution takes the steps below, and they interleave.  A container      *)
(* belongs to the docker daemon, which goes on when core-api dies.         *)
(***************************************************************************)
EXTENDS Integers, FiniteSets

CONSTANTS
    Exec,        \* requests; each would make one record
    Key,         \* values of Idempotency-Key
    Setting,     \* values of sandbox.max_concurrent_execs
    Value,       \* and of the other limits in settings, manifest and request
    Limits,      \* floor, cap and default of each limit
    UniqueIndex, \* whether the table has it; one that was migrated has not
    MaxEvents,   \* edits of the settings, crashes, failed commits and failed removals
    None

ASSUME SandboxAssumption ==
    /\ IsFiniteSet(Exec)
    /\ None \notin Key \cup Exec
    /\ Setting \cup (Value \ {None}) \subseteq Int
    /\ Limits \subseteq [floor : Int, cap : Int, default : Int]
    /\ \A f \in Limits : f.floor <= f.default /\ f.default <= f.cap
    /\ UniqueIndex \in BOOLEAN
    /\ MaxEvents \in Nat

VARIABLES
    setting,     \* max_concurrent_execs, as stored now
    shared,      \* the semaphore in _semaphore, None before the first execution
    sharedLimit, \* _semaphore_limit
    permits,     \* free permits of the semaphore that each thread may have made
    rec,         \* status of each record
    key,
    name,        \* of the container: the first 8 characters of exec_id, 24 random bits
    th,          \* what the thread of each request does next, and its locals
    answer,      \* the record each request was answered with
    container,   \* by name, the execution whose container has it
    listed,      \* executions whose manifest.json is on the disk
    changes,
    faults,
    ended        \* history: how the container of each execution ended

vars == <<setting, shared, sharedLimit, permits, rec, key, name, th, answer, container, listed,
          changes, faults, ended>>
semaphores == <<shared, sharedLimit, permits>>
request == <<key, name>>
daemon == <<container, ended>>
budgets == <<setting, changes>>

Stage == {"idle", "prepare", "create", "publish", "take", "acquire", "running", "release",
          "remove", "close", "done"}
Result == {"none", "succeeded", "failed", "error", "timeout", "denied"}
Thread == [stage : Stage, limit : Setting \cup {0}, sem : Exec \cup {None}, result : Result]
Finished == [stage |-> "done", limit |-> 0, sem |-> None, result |-> "none"]
Final == {"succeeded", "failed", "timeout", "denied"}
Recorded == {e \in Exec : rec[e] # "none"}

At(e, s) == th[e].stage = s
Goto(e, s) == th' = [th EXCEPT ![e].stage = s]
Returns(e) == th' = [th EXCEPT ![e] = Finished]
Ends(e, s, r) == th' = [th EXCEPT ![e] = [@ EXCEPT !.stage = s, !.result = r]]
Fault == changes + faults < MaxEvents /\ faults' = faults + 1

\* GET /execs/{id}/observation: the row, and the files as far as they are on the disk.
Observation(e) == [status |-> rec[e], missing_manifest |-> e \notin listed]

Init ==
    /\ setting \in Setting
    /\ shared = None /\ sharedLimit = 0
    /\ permits = [e \in Exec |-> 0]
    /\ rec = [e \in Exec |-> "none"]
    /\ key = [e \in Exec |-> None]
    /\ name = [e \in Exec |-> None]
    /\ th = [e \in Exec |-> [stage |-> "idle", limit |-> 0, sem |-> None, result |-> "none"]]
    /\ answer = [e \in Exec |-> None]
    /\ container = [n \in Exec |-> None]
    /\ listed = {}
    /\ changes = 0 /\ faults = 0
    /\ ended = [e \in Exec |-> "none"]

-----------------------------------------------------------------------------
(* Policy: settings, then the manifest, then the request; the latter two   *)
(* can only make a limit stricter.                                         *)

FromSettings(f, x) ==
    IF x = None \/ x < f.floor THEN f.default ELSE IF x > f.cap THEN f.cap ELSE x

Stricter(f, base, x) == IF x # None /\ f.floor <= x /\ x <= base THEN x ELSE base

Policy(f, settings, manifest, override) ==
    Stricter(f, Stricter(f, FromSettings(f, settings), manifest), override)

-----------------------------------------------------------------------------
(* execute_sandbox_body.                                                   *)

\* POST /sandbox/execs, or POST /skills/{id}/invoke, which builds the same request: with
\* a key or without.  The name is one of its own or, by chance, that of another.
Arrives(e) ==
    /\ At(e, "idle")
    /\ \E k \in Key \cup {None} : key' = [key EXCEPT ![e] = k]
    /\ \E n \in {e} \cup {name[f] : f \in Recorded} : name' = [name EXCEPT ![e] = n]

\* The skill is unknown, its manifest invalid or an input missing: no record.
InvokeRefused(e) ==
    /\ At(e, "idle")
    /\ Returns(e)
    /\ UNCHANGED <<semaphores, request, rec, answer, daemon, listed, budgets, faults>>

\* A slip: a finished execution is not found by its key.
SameKeyRunning(k) == {f \in Recorded : k # None /\ key[f] = k /\ rec[f] = "running"}

SameKey(k) == {f \in Recorded : k # None /\ key[f] = k}

InsertRecord(e) ==
    /\ Arrives(e)
    /\ UniqueIndex => SameKey(key'[e]) = {}
    /\ rec' = [rec EXCEPT ![e] = "running"]
    /\ th' = [th EXCEPT ![e] = [@ EXCEPT !.stage = "prepare", !.limit = setting]]
    /\ UNCHANGED <<semaphores, answer, daemon, listed, budgets, faults>>

\* IntegrityError: the record that has the key is the answer, whatever its status.
AnswerExisting(e) ==
    /\ Arrives(e)
    /\ UniqueIndex
    /\ \E f \in SameKey(key'[e]) : answer' = [answer EXCEPT ![e] = f]
    /\ Returns(e)
    /\ UNCHANGED <<semaphores, rec, daemon, listed, budgets, faults>>

InsertFails(e) ==
    /\ Fault /\ At(e, "idle")
    /\ Returns(e)
    /\ UNCHANGED <<semaphores, request, rec, answer, daemon, listed, budgets>>

\* The policy refuses the command, a path is invalid or a directory cannot be made.
Deny(e) ==
    /\ At(e, "prepare")
    /\ \E r \in {"denied", "error"} : Ends(e, "close", r)
    /\ UNCHANGED <<semaphores, request, rec, answer, daemon, listed, budgets, faults>>

-----------------------------------------------------------------------------
(* _get_semaphore: nothing guards the two globals.                         *)

\* Once directories are made and inputs written, _semaphore and its limit are looked at.
Prepare(e) ==
    /\ At(e, "prepare")
    /\ Goto(e, IF shared = None \/ sharedLimit # th[e].limit THEN "create" ELSE "take")
    /\ UNCHANGED <<semaphores, request, rec, answer, daemon, listed, budgets, faults>>

CreateSemaphore(e) ==
    /\ At(e, "create")
    /\ permits' = [permits EXCEPT ![e] = IF th[e].limit > 1 THEN th[e].limit ELSE 1]
    /\ shared' = e
    /\ Goto(e, "publish")
    /\ UNCHANGED <<sharedLimit, request, rec, answer, daemon, listed, budgets, faults>>

PublishLimit(e) ==
    /\ At(e, "publish")
    /\ sharedLimit' = th[e].limit
    /\ Goto(e, "take")
    /\ UNCHANGED <<shared, permits, request, rec, answer, daemon, listed, budgets, faults>>

TakeSemaphore(e) ==
    /\ At(e, "take")
    /\ th' = [th EXCEPT ![e] = [@ EXCEPT !.stage = "acquire", !.sem = shared]]
    /\ UNCHANGED <<semaphores, request, rec, answer, daemon, listed, budgets, faults>>

\* A semaphore that somebody waits for may have been replaced since.
Acquire(e) ==
    /\ At(e, "acquire") /\ permits[th[e].sem] > 0
    /\ permits' = [permits EXCEPT ![th[e].sem] = @ - 1]
    /\ UNCHANGED <<shared, sharedLimit, request, rec, answer, ended, listed, budgets, faults>>

-----------------------------------------------------------------------------
(* docker run, as soon as there is a permit.                               *)

Start(e) ==
    /\ Acquire(e) /\ container[name[e]] = None
    /\ container' = [container EXCEPT ![name[e]] = e]
    /\ Goto(e, "running")

\* docker refuses, for instance because the name is in use, or is not there, in which
\* case Popen raises.
StartFails(e) ==
    /\ Acquire(e)
    /\ \E r \in {"failed", "error"} : Ends(e, "release", r)
    /\ UNCHANGED container

Exit(e) ==
    /\ At(e, "running") /\ container[name[e]] = e
    /\ \E r \in {"succeeded", "failed"} : Ends(e, "release", r) /\ ended' = [ended EXCEPT ![e] = r]
    /\ container' = [container EXCEPT ![name[e]] = None]
    /\ UNCHANGED <<semaphores, request, rec, answer, listed, budgets, faults>>

\* The container was removed from outside.
Killed(e) ==
    /\ At(e, "running") /\ container[name[e]] # e
    /\ Ends(e, "release", "failed")
    /\ UNCHANGED <<semaphores, request, rec, answer, daemon, listed, budgets, faults>>

\* A slip: the exit code of a killed client, None, counts as 0.
TimeoutIsExit(e) ==
    /\ At(e, "running")
    /\ Ends(e, "release", "succeeded")
    /\ UNCHANGED <<semaphores, request, rec, answer, daemon, listed, budgets, faults>>

\* The client of docker is killed; the container does not notice.
Timeout(e) ==
    /\ At(e, "running")
    /\ Ends(e, "release", "timeout")
    /\ UNCHANGED <<semaphores, request, rec, answer, daemon, listed, budgets, faults>>

\* Something raises before docker rm is reached: a reader thread cannot be started after
\* the container was, or what it wrote cannot be read once the client was killed.
Abandon(e) ==
    /\ At(e, "running")
    /\ Ends(e, "release", "error")
    /\ UNCHANGED <<semaphores, request, rec, answer, daemon, listed, budgets, faults>>

\* A slip: the permit of an execution that timed out is not given back.
ReleaseUnlessTimeout(e) ==
    /\ At(e, "release")
    /\ permits' = IF th[e].result = "timeout" THEN permits ELSE [permits EXCEPT ![th[e].sem] = @ + 1]
    /\ Goto(e, IF th[e].result = "timeout" THEN "remove" ELSE "close")
    /\ UNCHANGED <<shared, sharedLimit, request, rec, answer, daemon, listed, budgets, faults>>

\* The semaphore is left, with a result or by an exception, which goes straight to the end
\* of the handler.
Release(e) ==
    /\ At(e, "release")
    /\ permits' = [permits EXCEPT ![th[e].sem] = @ + 1]
    /\ Goto(e, IF th[e].result = "timeout" THEN "remove" ELSE "close")
    /\ UNCHANGED <<shared, sharedLimit, request, rec, answer, daemon, listed, budgets, faults>>

\* A slip: the container is left to docker.
RemoveNothing(e) ==
    /\ At(e, "remove")
    /\ Goto(e, "close")
    /\ UNCHANGED <<semaphores, request, rec, answer, daemon, listed, budgets, faults>>

\* docker rm -f, by name.
Remove(e) ==
    /\ At(e, "remove")
    /\ container' = [container EXCEPT ![name[e]] = None]
    /\ Goto(e, "close")
    /\ UNCHANGED <<semaphores, request, rec, answer, ended, listed, budgets, faults>>

RemoveFails(e) ==
    /\ Fault /\ At(e, "remove")
    /\ Goto(e, "close")
    /\ UNCHANGED <<semaphores, request, rec, answer, daemon, listed, budgets>>

StatusOf(r) == IF r = "error" THEN "failed" ELSE r

\* manifest.json lists what is there; meta.json, written after it, is not in the list.
\* The record is closed.
Close(e) ==
    /\ At(e, "close")
    /\ listed' = IF th[e].result \in {"denied", "error"} THEN listed ELSE listed \cup {e}
    /\ rec' = [rec EXCEPT ![e] = StatusOf(th[e].result)]
    /\ answer' = [answer EXCEPT ![e] = e]
    /\ Returns(e)
    /\ UNCHANGED <<semaphores, request, daemon, budgets, faults>>

\* A slip: an error that is none of the three kinds leaves the handler.
LeaveOpen(e) ==
    /\ At(e, "close")
    /\ Returns(e)
    /\ UNCHANGED <<semaphores, request, rec, answer, daemon, listed, budgets, faults>>

\* What a container that ended wrote cannot be read, or the manifest not written: any
\* exception makes the execution a failed one.
ReportFails(e) ==
    /\ At(e, "close")
    /\ rec' = [rec EXCEPT ![e] = "failed"]
    /\ answer' = [answer EXCEPT ![e] = e]
    /\ Returns(e)
    /\ UNCHANGED <<semaphores, request, daemon, listed, budgets, faults>>

\* The last commit fails; nobody closes the record afterwards.
CloseFails(e) ==
    /\ Fault /\ At(e, "close")
    /\ Returns(e)
    /\ UNCHANGED <<semaphores, request, rec, answer, daemon, listed, budgets>>

-----------------------------------------------------------------------------
(* Outside the threads.                                                    *)

ChangeSettings ==
    /\ changes + faults < MaxEvents
    /\ changes' = changes + 1
    /\ setting' \in Setting \ {setting}
    /\ UNCHANGED <<semaphores, request, rec, th, answer, daemon, listed, faults>>

\* A container whose client was killed comes to its end.
ContainerEnds(n) ==
    /\ container[n] # None /\ ~ At(container[n], "running")
    /\ container' = [container EXCEPT ![n] = None]
    /\ UNCHANGED <<semaphores, request, rec, th, answer, ended, listed, budgets, faults>>

\* Records and containers stay; what the threads and the globals knew is gone.
Crash ==
    /\ Fault
    /\ th' = [e \in Exec |-> IF At(e, "idle") THEN th[e] ELSE Finished]
    /\ shared' = None /\ sharedLimit' = 0 /\ permits' = [e \in Exec |-> 0]
    /\ UNCHANGED <<request, rec, answer, daemon, listed, budgets>>

-----------------------------------------------------------------------------
Step(e) ==
    \/ Prepare(e) \/ Deny(e) \/ CreateSemaphore(e) \/ PublishLimit(e) \/ TakeSemaphore(e)
    \/ Start(e) \/ StartFails(e) \/ Exit(e) \/ Killed(e) \/ Timeout(e) \/ Abandon(e)
    \/ Release(e) \/ Remove(e) \/ Close(e) \/ ReportFails(e)

Next ==
    \/ \E e \in Exec : \/ InsertRecord(e) \/ AnswerExisting(e) \/ InvokeRefused(e) \/ Step(e)
                       \/ InsertFails(e) \/ RemoveFails(e) \/ CloseFails(e)
    \/ \E n \in Exec : ContainerEnds(n)
    \/ ChangeSettings
    \/ Crash

Spec == Init /\ [][Next]_vars

\* Threads run on, a container ends or times out, and threading.Semaphore wakes a
\* waiter whenever a permit is returned, though not in the order of arrival.
Fairness == \A e \in Exec : WF_vars(Step(e)) /\ SF_vars(Start(e) \/ StartFails(e))

FairSpec == Spec /\ Fairness

-----------------------------------------------------------------------------
(* Properties.                                                             *)

TypeOK ==
    /\ setting \in Setting /\ changes \in 0..MaxEvents /\ faults \in 0..MaxEvents
    /\ shared \in Exec \cup {None} /\ sharedLimit \in Setting \cup {0}
    /\ permits \in [Exec -> Nat]
    /\ rec \in [Exec -> {"none", "running"} \cup Final]
    /\ key \in [Exec -> Key \cup {None}] /\ name \in [Exec -> Exec \cup {None}]
    /\ th \in [Exec -> Thread]
    /\ answer \in [Exec -> Exec \cup {None}]
    /\ container \in [Exec -> Exec \cup {None}]
    /\ listed \subseteq Exec
    /\ ended \in [Exec -> {"none", "succeeded", "failed"}]

\* Where the index exists, two requests with one Idempotency-Key leave one record, and
\* both are answered with it, however their threads interleave (sandbox.py:224-241).
KeyRunsOnce ==
    UniqueIndex =>
        /\ \A e, f \in Recorded : key[e] # None /\ key[e] = key[f] => e = f
        /\ \A e \in Exec : answer[e] # None => answer[e] \in Recorded /\ (answer[e] = e \/ key[answer[e]] = key[e])

\* An execution recorded as succeeded ran in a container of its own, which ended well,
\* and its output is listed: not one that timed out, could not start or was removed
\* by a namesake (runner_docker.py:229-243, sandbox.py:301-318).
SuccessIsReal ==
    \A e \in Exec :
        Observation(e).status = "succeeded" =>
            ended[e] = "succeeded" /\ ~ Observation(e).missing_manifest

\* Without a crash or a failed commit, a record that says running has a thread that
\* will close it, whatever the handler met on its way (sandbox.py:260-318).
RecordsAreClosed ==
    faults = 0 => \A e \in Exec : rec[e] = "running" <=> th[e].stage \notin {"idle", "done"}

\* If docker rm works and core-api lives, the thread still answers for
\* the container, or its execution is, or will be, recorded as failed.  A record that says
\* timeout means that the container was removed (runner_docker.py:346-356, sandbox.py:295).
NoSilentLeftover ==
    faults = 0 => \A n \in Exec : container[n] # None =>
        LET e == container[n] IN
        \/ th[e].stage \in {"running", "release", "remove"}
        \/ At(e, "close") /\ th[e].result = "error"
        \/ At(e, "done") /\ rec[e] = "failed"

\* The effective limit is the strictest of the acceptable ones, and never above what
\* the settings allow (runner_docker.py:37-125).
PolicyIsStrictest ==
    \A f \in Limits, s \in Value \cup Setting, m \in Value, o \in Value :
        LET legal == {FromSettings(f, s)} \cup {x \in {m, o} \ {None} : x >= f.floor} IN
        /\ Policy(f, s, m, o) \in legal
        /\ \A x \in legal : Policy(f, s, m, o) <= x

\* The types, the cleaning up and the limits of the containers together.
SandboxIsTidy == TypeOK /\ NoSilentLeftover /\ PolicyIsStrictest

\* A status that a poll of GET /execs/{id} found final stays (sandbox.py:155-197).
FinalIsFinal == [][\A e \in Exec : rec[e] \in Final => rec'[e] = rec[e]]_vars

\* Every request that was begun is answered: its permit comes back however its
\* execution ends, and a semaphore that was replaced is still served
\* (runner_docker.py:28-33, 333-342).
RequestsEnd == \A e \in Exec : At(e, "prepare") ~> At(e, "done")

=============================================================================
