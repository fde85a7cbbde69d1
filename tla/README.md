# LonelyCat: specifications, model checks and proofs

LonelyCat is a personal agent: a FastAPI service (`core-api`) over one SQL
database, background workers (`agent-worker`) that take runs out of that
database, a memory of facts, a sandbox for generated code, and a host executor
that applies approved change sets to a workspace. This directory holds TLA+
modules for the parts whose correctness depends on the order in which things
happen, TLC configurations that check them on small instances, and TLAPS proofs
of what matters most for instances of any size. Paths below are relative to the
root of the repository.

    tlc -workers 2 -config RunQueue.cfg RunQueue     # a model check
    tlapm RunQueueProofs.tla                         # the proofs

`PROJECT.json` lists components, runs, theorems, hazards and, for every
definition that models code, the lines it stands for.

## 1. Inventory

How the parts work together: the web console and connectors call core-api.
Sending a message makes core-api answer at once or create a *run*, a row of
table `runs`. Workers poll that table directly (they share the database), claim
a row with a lease, execute its handler and write the outcome; then they call
core-api back over HTTP (`/internal/...`) so that it writes messages and wakes
waiting parents. A turn of the agent loop creates further runs through `POST
/runs`, and calls tools through a catalog of providers, among them MCP servers
that it starts as processes. Generated code runs in the sandbox (core-api,
docker). Facts are proposed and accepted through the memory API. Plans, by
clients or by the planner, and their change sets are judged by the WriteGate; the
host executor, a library with processes of its own, applies what was allowed under
a lock file, and records each execution in a database and a directory.

core-api's handlers are coroutines without a suspension point, so that one
finishes before the next begins; exceptions are the plain functions in
`sandbox.py`, `skills.py` and `settings.py`, which run in a thread pool. Workers
are separate processes and interleave with everything.

### Components with control worth modelling

| Component | State | Operations | What is hard | What makes it correct |
|---|---|---|---|---|
| Run queue and worker loop (`apps/agent-worker/worker/{queue,main,runner,task_context}.py`, `apps/core-api/app/api/runs.py`) | columns `status`, `worker_id`, `lease_expires_at`, `attempt` of `runs`; the loop's locals | create, cancel, delete; fetch candidate, claim, heartbeat, complete, emit | stalls of any length, crashes, leases that run out under a live handler, decisions on stale reads | one holder per lease; bounded attempts; a final row is never queued again; every run ends |
| Agent loop turn (`worker/runner.py`, `core-api/app/api/internal.py`) | parent and child rows, `output_json` | step, create child, yield, wake, time out | two workers in one turn, lost HTTP answers, one worker for parent and child | one awaited child, bounded children, one announcement, no waiting for ever |
| Conversations and run messages (`app/api/conversations.py`, `app/services/run_messages.py`) | conversations with three time-stamps, messages, `client_msg_id`, `source_ref` | create, rename, read, delete, send; emit | three commits per message, resends, two workers that announce one run, time-stamps a millisecond ahead | one announcement per run, one answer per keyed turn, a success means an answer, news is shown as unread |
| Memory facts (`packages/memory`, `app/api/memory.py`) | proposals, facts, audit events | propose, accept, reject, expire, revoke, archive, reactivate | commits in different sessions, SQLite's single writer, conflicts between facts | accepted means written, one active value per key and place, complete audit |
| Sandbox executions and skills (`app/api/{sandbox,skills}.py`, `app/services/sandbox/`) | execution records, semaphore, containers | execute, poll, invoke | threads, idempotency key, a semaphore that is replaced, crash before the final state | one container per key, limits only get stricter, every record and request ends |
| Governance (`packages/governance`, `app/api/governance.py`) | plans, change sets, decisions, approvals; the policies read at start | create, evaluate, approve | approvals outlive the decision they were given for; policies edited meanwhile; clients carry every object from one handler to the next | decisions can be replayed, more is never judged more mildly |
| Planner (`packages/planner`) | state and history of a task | plan an intent, transitions | rules that compete for a request; a state whose name promises an approval | sensitive plans need a human |
| Host executor (`packages/executor/{executor,file_applier,rollback,idempotency}.py`) | the workspace, backups, idempotency records | execute = lock, validate, back up, apply, verify, roll back, record | an error or a crash at any step, edits meanwhile, duplicates | completed means applied, failed means restored, executed once |
| Execution lock (`packages/executor/execution_lock.py`) | one file | acquire, release, clean up | processes, stale locks, operations on a path that changed hands | mutual exclusion, no lock for ever |
| Execution records (`packages/executor/{storage,schema,migrations,artifacts,similarity,repair}.py`, `app/api/executions.py`) | table `executions`, a directory per execution, the schema's version | migrate, record start, steps and end; lineage, similarity, repair | a row and files without a common transaction, a migration in steps by two processes, each of which may fail | a row that ended has its files, no execution is recorded without its columns, repairs point at successes, the graph agrees with itself |
| Tool calls (`worker/tools/{catalog,runtime,skills_provider,mcp_provider,mcp_stdio_client}.py`) | per server a table of pending requests, a reader thread, a process | list, call, time out, close | late answers, dead, mute and hanging servers, a pipe that is full | an answer reaches its own request, calls return |

### Components without

The rest keeps no state of its own, is a pure function of strings or numbers,
talks to external systems, or is used by no service: synchronous orchestration
(its endpoint has no caller), facts shown to the chat agent, docker health and path
adapters, verification and health checks (their verdict is a nondeterministic
choice in `HostExecutor`), path rules, lane queue and agent loop of
`packages/runtime` (no service starts them), web search back ends and web fetch,
the chat agent, LLM adapters, settings, the web console, connectors (stubs), the
protocol/kb/mcp/skills packages, scripts and deployment. `PROJECT.json` lists each
with its files and the reason.

## 2. Plan

Done, in this order: `RunQueue` (the core), its abstraction `ExclusiveLease`,
`AgentLoop` on top of it, `ExecutionLock` and `HostExecutor`, `MemoryStore`;
then `Conversations` with the run messages, `ReadMarks` beside it, `SandboxExec`, `Planner` and
`Governance` composed with it, `ExecutionHistory` and
`ExecutionRecords` over it, `ToolCalls`.

Every invariant of a passing run has a theorem; what is left to the runs alone is in
section 4.

Modules that are proved about, and those they use, hold no RECURSIVE operator.

## 3. Modules

| Module | Models | Checked by | Proved in |
|---|---|---|---|
| `RunQueue` | table `runs` and the worker loop | `queue` | `RunQueueProofs` |
| `ExclusiveLease` | abstract: who may hold a resource | as a property of `RunQueue` | refined in `RunQueueProofs`, `ExecutorProofs` |
| `AgentLoop` | a turn, its children, the wake | `turn`, `turn_stuck` | `AgentLoopProofs` |
| `ExecutionLock` | the lock file | `lock` | `ExecutorProofs` |
| `HostExecutor` | `execute()` | `executor`, `executor_partial` (`MCHostExecutor`) | `ExecutorProofs` |
| `MemoryStore` | proposals, facts, audit | `memory`, `memory_audit` (`MCMemoryStore`) | `MemoryStoreProofs` |
| `Conversations` | sending, answering, announcing, deleting | `conversations` (`MCConversations`) | `ConversationsProofs` |
| `ReadMarks` | the time-stamps behind `has_unread` | `conversations` (`MCConversations`) | `ConversationsProofs` |
| `SandboxExec` | records, semaphore and containers of the sandbox | `sandbox` (`MCSandboxExec`) | `SandboxProofs` |
| `Planner` | the rules and the state machine of the planner | with `Governance` | with `Governance` |
| `Governance` | plans, change sets, decisions, approvals, the gate | `records` (`MCRecords`) | `GovernanceProofs` |
| `ExecutionHistory` | what is read from the executions table | with `ExecutionRecords` | with `ExecutionRecords` |
| `ExecutionRecords` | rows and directories of executions, migrations | `records` (`MCRecords`) | `ExecutorProofs` |
| `ToolCalls` | the catalog, its providers and the MCP clients | `tools` (`MCToolCalls`) | `ToolCallsProofs` |

An MC module extends a module with the values of its constants that a .cfg cannot
write. `MCConversations` and `MCRecords` extend two that share no variable and run one while
the other is at rest: what they do together is a product and shows nothing more.
Definitions under a comment that calls them a slip are plausible bugs. They
are used by no specification; `PROJECT.json` pairs each with the property that
notices it. Invariants that belong together are listed as one conjunction
(`LogsAreClean`, `SandboxIsTidy`, `GateIsKept`, `RowsFitDirectories`, ...) whose
parts have names, comments and, where proved, theorems of their own.

### 3.1 RunQueue

*State.* One row per run: `status`, `worker_id`, `lease`, `attempt`, whether
`output_json` holds a `waiting` record, whether a waiting row is older than 600 s.
Per worker: `pc` (the place in `run_worker`'s loop), `job`, `seen` (the copy of
the row in its session), `beat` (time until the heartbeat callback touches the
database), `outcome` (which `complete_*` call follows). `claimNo`, `hold` and
`started` are history variables: the attempt a claim wrote, how long the lease it
wrote still lasts, which attempts got as far as the handler. What is never read again
(`claimNo` once the handler has started, the job once its row is written, `started`
of a deleted row) is reset.

*Time.* Leases are countdowns (0 = past, -1 = NULL) that `Tick` lowers for all.
There is one clock: the database host and the workers are one machine in every
deployment the repository describes. Workers may stall for any number of ticks
between any two steps.

*Actions.* `CreateRun`, `CancelRun`, `DeleteRun` are the HTTP handlers. `FetchCandidate`
is the query with its order (queued, expired running, stale waiting),
`ClaimWon`/`ClaimLost` the conditional UPDATE of `claim_run`, `RereadClaimed` and
`RereadGone` the second SELECT and `run_worker`'s checks for a run that is canceled
or over the limit, `BeatCheck`/`BeatRenew`/`BeatRefused` the two statements
of the heartbeat callback, `HandlerEnds` and `YieldWaitingChild` the ends of a
handler, `Complete` the unconditional UPDATE by id, `EmitReturns` the call to core-api.
A restarted worker reuses its id. `run_code_snippet` and `agent_loop_turn` call the
heartbeat once, before `RUN_HEARTBEAT_SECONDS` have passed, so that only `sleep`
runs (`SleepRuns`) renew. Columns for output, progress and error texts are left out.

*Run* `queue` (0.64 M states): two workers, two runs of different types, leases of one
tick that may be renewed before it is over (`BeatTicks` = 0 allows every heartbeat a
longer interval would), two attempts per run, one fault. Two workers are enough for
every race on a row, because a step concerns one worker and one row; two runs are
needed for the order of candidates and for a worker that goes on to something else;
two attempts for two workers in one turn; the third claim is the one that exceeds the
limit. The proofs remove the bounds. The run checks `IInv` (from which `LeaseMutex`,
`RunningHasLease` and `AttemptBudget` follow), the refinement of `ExclusiveLease`,
`SettledNeverRuns`, `QuietFinalIsFrozen`, and that the queue drains (`RunsSettle`).
`SettledNeverRuns` speaks of final rows. A WAITING_CHILD row may be queued again by the wake
of core-api, which is a step of `AgentLoop` and not of this module.

*Fairness.* `WF(Progress(w))`: workers poll for ever and each call returns or times
out. `SF(\E w : HandlerStops(w))`: handlers are bounded loops, so that among those
that may end again and again one does. `WF(Tick)`: time passes. Nothing is assumed of
users, crashes or restarts. `RunsSettle` needs no restart,
because after the one fault another worker remains.

*Inductive invariant.* `LeaseMutex` is not inductive: that nobody else holds the
lease follows from `HeldLeaseIsRowLease` (while a worker's lease lasts, the row is
RUNNING under its name with exactly that lease, or the row is settled and cannot be
claimed) and `RunningHasLease`. `AttemptBudget` follows from `AttemptNumbers`:
workers before the start of a handler hold different numbers, none of them used.

### 3.2 AgentLoop

*State.* Parent and child rows, what a parent's `output_json` says as seen by the
two modules that read it (`waiting` is what `yield-waiting-child` writes, `state`
and `waiting_child_run_id` are the keys the wake looks at), the number of
announcements, and per worker the place in the handler, its run, its new child.

*Abstraction.* A lease may run out at any moment (`RunQueue` has the detail), the
order among claimable rows is arbitrary, runs are not deleted. A turn has one
step that may create a child: `step_index` stays 0, because the wake that would
raise it writes another key than the runner reads. The legacy endpoint
`execute-orchestration` is called by nothing and left out. Each HTTP call is one
step of core-api; its answer may be lost (a fault), after which the worker takes
the error path of the code.

*Runs.* `turn` (0.36 M): one parent, three child ids, two workers, two attempts, one
fault; one parent is enough, because turns share nothing but workers, and one id
more than attempts lets the bound on children fail. `TurnFitsAttempts` bounds
children, messages and attempts, `WaitingChildIsKept` says that a waiting parent
keeps its child, `ChildrenEnd` that every child is executed in the end, also when
one worker is left for the turn and the child it waits for. `turn_stuck`: see
findings. A system in which every run is final or waiting has nothing to do, so
deadlock is not checked.

*Fairness.* A worker that lives goes on; if all of them are dead one is started
again; a run that is claimable again and again is claimed in the end (the queue is
served oldest first); leases run out.

*Proofs.* That a turn has no more children than attempts is not inductive: a worker about to
create one is not seen by a count of children. `Budget` counts the children together with the
workers that may still create one (`Executing`); a claim raises `attempt` and adds one
worker, creating turns a worker into a child, and the claim beyond the limit executes
nothing. `InHand` (only turns are at those steps) and `NoOrphans` (an unused id is nobody's
child) are what the count needs. `AnnouncedOnce` is inductive with them.
`WaitingChildIsKept` is proved action by action.

### 3.3 ExecutionLock

*State.* The file at the path (`creator`, `written`, `old`), each execution's place,
its attempts. `misfired` records that a cleanup removed the lock of a live process.
Operations act on the path, as in the code: an unlink removes whatever is there by
then, a write goes to the file the process created. Each execution has a process of
its own. `Windows` selects how `_is_process_alive` works: on Unix its test of a dead
process raises `UnboundLocalError`, which `_is_stale` turns into "not stale". A number of
a dead process is not given to a new one, which would look like a live owner.
`UnlinkFails` is the error that both unlinks catch: the file stays.

*Run* `lock` (0.19 M): three executions on Windows, one of them free to replace a lock
while two others judge it, one retry, two crashes, one lookup that times out, unlinks that
fail at any time. Two hold the lock at once only after a misfire; `acquire()` returns; a
readable lock of a dead process is removed, provided that executions keep coming
(`KeepComing`: the cleanup happens only inside `acquire`) and that unlinks work again in the
end (`UnlinkWorks`); both are premises of the property, not fairness of the specification.

*Fairness.* A live execution goes on with `acquire`, its work ends, files grow old.
`Begin` (somebody asks) and `Die` are not fair.

*Proofs.* `HoldersHaveTheFile`: without a misfire a live execution past the creation
has its file at the path. It fails to be inductive alone, because of cleaners; hence
`CleanersHaveCause` and `DeadAreCounted`. On Unix, where nothing is ever cleaned, the
lock file implements `ExclusiveLease` (`OnUnixImplementsLease`). The proofs stand with
those of the executor that takes the lock and of its records, in `ExecutorProofs`, which
extends the three modules; hence names of this one such as `LockInit`, `LockInv`,
`Owners`, `place`.

### 3.4 HostExecutor

*State.* The workspace (path to content), lock holder, idempotency records, rows of
`executions`, each call's place, request and outcome; the pipeline's locals belong
to the holder of the lock. `before`, `edited` and `done` are history: the workspace
when the lock was taken, what the user edited since, what was completed within the
hour.

*Abstraction.* The lock is a mutex; `ExecutionLock` shows when the lock file is one (always
on Unix; on Windows until a cleanup misfires). After a crash it stays taken until
`LockCleaned`. The verdicts of checksum, verification and health are nondeterministic.
`Fault` is an unexpected error of the file system or the database at any step, in the
look-up of the record, and in the handler of errors, whose first line in the log stands
before the rollback (`Fail`): if it raises, nothing is rolled back. Dry runs, calls without
lock or idempotency, hooks, and the removal of old backups are left out.

*Runs.* `executor` (0.37 M): two executions of a change set that creates one file,
and updates and then deletes another (the files' contents at the start are
arbitrary), an edit, an error at any step, a crash. Two executions make duplicates
and waiting possible; a path changed twice is where rollback by path could go wrong.
`executor_partial`: see findings.

*Fairness.* Only the process's own steps: `Pipeline(e)`, and the wait for the lock,
which ends by its timeout.

*Proofs.* `IInv` says for each position of the pipeline how far backup, application
and rollback have come (`InOrder`, `BackupIsBefore`, `WrittenSoFar`,
`RestoredSoFar`), that nothing is touched before the backup is complete
(`UntouchedKept`), and that what is done is on record (`DoneIsRecorded`).
`CompletedIsApplied`, `RollbackRestores` and `DuplicatesAreCached` follow for any
workspace, change sets and number of executions.

### 3.5 MemoryStore

*State.* Status of each proposal, the fact rows, the last audit event about each, and
`op`, the operation under way. `writes`, `revived` and `kept` are history.

*Steps.* core-api runs one memory request at a time, so that one operation is under
way; its commits are the steps. `Accept` finds the conflicting fact and decides what
to write, `Note` is the audit event about the fact, which a session of its own
commits *before* the fact, `Store` the commit of fact and proposal, `Log` the last
event. `NoteFails` is the path on which the event raises: the `finally` of
`accept_proposal` commits what the session holds. On SQLite (`sqlite`, chosen at the
start) it is the only path for a new fact, because the flushed row holds the write
lock that the event needs. `Interrupted` is a crash or a failed commit.
`check_expired_proposals` raises before it changes anything and is left out. Keys,
their default strategies and places are constants.

*Run* `memory` (2.8 M): two proposals for one key, two facts, three places (global, global
with the id of a project, a session), both kinds of database, one crash or failed commit.
Two proposals and two facts are the least that compete. The proposals are interchangeable
(symmetry), facts are not, because a new fact takes a chosen free id. When all proposals are
resolved without a fact there is nothing left to do, so deadlock is not checked. No fairness
is assumed: nothing waits. `AuditAgrees` says what the audit keeps to as long as no commit
fails: the last event about a row tells its state, and only under SQLite a fact may have
none. `memory_audit` has the rule of the documents, one event for every operation
(`FactsAreAudited`), and a single accepted proposal under SQLite breaks it.

*Proofs.* `Undisturbed` carries what `Accept` decided to the commit that writes it: the
proposal is still pending, a new fact still has no competitor or was asked for with
`keep_both`, an update still meets an active fact of the same key and place. That holds
because one operation is under way; with two of them it is the first thing to break.
From it follow `OneActiveValue` and `WithdrawnIsKept`. `AuditAgrees` speaks of the time
between operations only; `Audited` extends it to the steps of one: without faults the
audit is never further from the rows than the operation under way, which has told of the
fact it is about to write or will tell of the row it has written.

### 3.6 Conversations

*State.* Each conversation's status and messages in order; the rows of `runs` as far as
core-api reads them; `serving`, the requests of which a part is executed; per turn what
its sender knows, the attempts on their way, and whether it carries a `client_msg_id`
(`keyed`) or a role (`direct`). `broken` is history: turns hit by a fault after their
message was stored. What decides whether a conversation is unread is in `ReadMarks`.

*Steps.* `send_message` commits up to three times: the user's message
(`SaveUserMessage`), the run that the decision starts (`DecideTask`, `DecideTurn`), the
answer (`SaveReply`). The handler never suspends, so that no other handler begins in
between (`LoopIsFree`), but the process may die there (`Crash`), the commit may fail,
and the client's time-out and the worker, which sees the run as soon as it is
committed, do not wait. `DecideReply` and `DecideApology` are the verdicts without a
run and the fallbacks on errors. `Emit` is `emit_run_message`: the search for an
earlier announcement by `source_ref`, the conversation of the run or, if it has
none, a new one (`EmitInNewConversation`); `EmitRaises` is the turn whose
announcement ends with an exception. What a message says is
left out.

*Run* `conversations` (0.70 M, 0.12 M of them of `ReadMarks`): two conversations (one
may be deleted while
the other takes the announcement), two runs, a turn that is sent up to twice, two
workers that announce one run, and one crash, failed commit or lost call.
`SuccessIsAnswered` excepts turns in `broken`: that a crash between the commits leaves a turn
without an answer is not noticed by it; see the divergences. Everything may
have been said and announced, so deadlock is not checked; no fairness is assumed.

*Proofs.* For any number of conversations, turns, runs, attempts and faults. The
properties are about messages that are there; whether the next step adds one too many
depends on what the request under way has done. `InFlight` says so: it is the only
request, its message is stored, and if it is keyed it has no answer yet, before the
decision no run either, and a run that it has just started is not announced. `Shaped` says
what a message in a log is about, `Placed` where runs and turns belong. `Once` is the
uniqueness without counting (two positions with the same announcement are one position),
which an append and a deletion preserve; counting comes last (`AtMostOne`, `AtMostTwo`),
with finite cardinalities. `Answering`: a message without an answer is that of
the request under way or of a turn in `broken`.

### 3.7 ReadMarks

*State.* One conversation: `created_at`, `updated_at`, `last_read_at`, a clock in ticks of
which `Ms` make a millisecond, the handler under way and the time it has computed.
`changed` and `opened` are history: the time that the last message, announcement or title
carries, and when mark-read last stored its result.

*Steps.* A handler reads the clock (`BeginWrite`, `BeginRead`) and stores with a later commit
(`CommitWrite`, `StoreRead`); any number of ticks may pass in between, or none, so that
equal time-stamps occur, as on the coarse clock of Windows. `has_unread` compares
`updated_at` with `last_read_at`, or with `created_at` before the first reading. Marking as
read stores the larger of now and `updated_at` plus a millisecond; the UPDATE that does so
moves `updated_at` to its own time (`onupdate`), the handler compares once more, and if
`updated_at` has caught up it stores once more (`StoreAgain`), which moves `updated_at` again.
`NotStored` is a commit that fails, or the death of core-api. The clock is not set back.

*Run* `conversations`, its other part: two ticks in a millisecond, so that steps fall into the same
tick, the same millisecond or later ones; twelve ticks, six milliseconds, are enough for
three readings that are each a lead apart. `NewsIsUnread`: what carries a time after the
creation, or more than two milliseconds after the conversation was last opened, is shown as
unread. News within the two milliseconds, or in the tick of the creation, may be shown as
read; that is the price of a `last_read_at` ahead of the clock. What the property excludes
is that this lead grows with each reading. That opening a conversation always clears its mark,
as the comments say, does not hold: see the divergences.

*Proofs.* `NewsUnread`, for any length of a millisecond and any length of time, from
bounds on each time-stamp by the clock and by `opened`; it stands in `ConversationsProofs`.

### 3.8 SandboxExec

*State.* Per request: the record's status, the idempotency key, the container's name,
what its thread does next with its locals, the answer; the globals `_semaphore` and
`_semaphore_limit` (`shared`, `sharedLimit`; a semaphore is named for the thread that
made it), the free permits of each; the containers by name; the manifests on the disk.
`ended` is history: how the container itself ended.

*Actions.* `InsertRecord`, `AnswerExisting` and `InsertFails` are the look-up by key and the
insertion with its handled `IntegrityError`; `Deny` the verdict of the policy;
`CreateSemaphore`, `PublishLimit` and `TakeSemaphore` the steps of `_get_semaphore`, which
has no lock of its own; `Acquire`, `Start`, `Exit`, `Killed`, `Timeout`, `Release`, `Remove`
those of `run_container`; `Abandon` is an exception between the start of the container and
`docker rm` (a reader thread that cannot be started, output that cannot be read back), after
which the permit comes back and the handler goes straight to its end; `Close` and
`ReportFails` are the end of the handler. Docker goes on when core-api dies (`Crash`), and a
container whose client was killed ends by itself (`ContainerEnds`). Names are the first
eight characters of an id, so that two executions may have the same. `Policy` is the merge
of settings, manifest and request. Skills (`InvokeRefused`) are refused or become an
execution. What an execution reads and prints is left out, except whether its manifest is
there.

*Run* `sandbox` (0.40 M): two executions with equal or different keys and names, a limit
of one or two and an event: an edit of the settings, a crash, a failed commit or a failed
removal; `Abandon` is no event and may happen to both. Two threads are the least that race
for key and semaphore; `UniqueIndex` is TRUE, as in a database that the code created. A run
that has answered every request stops, so deadlock is not checked. After `Abandon` a container
is left (see the divergences); `NoSilentLeftover` says that it outlives its thread only
under a record that says failed, never under one that says timeout. `RecordsAreClosed`
speaks of handlers that no fault hit; that a crash leaves a record RUNNING is a divergence.

*Fairness.* `WF(Step(e))`: threads go on, and containers end or time out.
`SF(Start(e) \/ StartFails(e))`: `threading.Semaphore` wakes a waiter whenever a permit
comes back. Requests, edits and faults are not fair.

*Proofs.* `IInv` ties the state of a record to the stage of its thread (`Progress`); it
gives `KeyRunsOnce` and `RecordsAreClosed` for any number of requests, keys, limits and
faults, and `FinalIsFinal` as an action property. `Real` says when a thread knows a result
and where a success comes from: the execution's own container, also when another one had the
same name; it gives `SuccessIsReal`. `Contained` says whose thread still answers for a
container that exists, or whose record admits it, and gives `SandboxIsTidy`.
`PolicyIsStrictest` is arithmetic over all integers.

### 3.9 Planner and Governance

*State.* The policies: the file, what WriteGate parsed of it, what it hashed, and
whether the hash is of a later file (`late`). The four tables, as sequences in the order of their
timestamps; the context of one planning task with its history. Clients carry every object
from one step to the next, so that every handler takes any rows.

*Actions.* One per handler: `CreatePlan`, `CreateChangeset`, `EvaluateChangeset`,
`ApprovePlan` (nothing is stored if the plan has an approval already); `PlanFromIntent` and
`Transition` for the planner, whose plans are stored only if a client sends them; `Restart`,
which reads the policy file twice, and `EditPolicies`. `Evaluate` is the
WriteGate: forbidden paths, escalation of the risk (critical paths, more than 500 lines,
deletions, schema), the plan's completeness, approval triggers. `Planner` holds the rules as
operators (`Kind`, `NeedsAnalysis`, `AnalysisTools`, `EstimatedRisk`, `PlanFor`) and the state
machine with the tools of each state as tables; which state follows is left to whoever holds
the context, as in the code. A path is the set of patterns its *text* matches (`plain`,
`policy`, `service`, `migration`, `sql`): nothing resolves it first, so that another
spelling of a critical file is a plain path here as in the code. The list of changes is
the set of its items with their places, so that equal items count twice. Wording of
reasons, checksums (a mismatch is an error without effect) and reflection hints are left out.

*Run* `records`, its first part: up to five rows over the four tables, which is one
plan with two decisions or with a decision and an approval, or two plans; two
requests, two forms of plan, change sets that include each other, two policies and one
edit. Bounded tables come to a stop, so deadlock is not checked. No fairness: nothing is
promised in time. What the documents promise of approvals, of the stages of a planning task
and of what the executor accepts does not hold (see the divergences), so that no property
speaks of them.

*Proofs.* For any tables, policies, change sets and requests. `Typed` gives the references
between tables, `TablesGrow` that no row changes. `DecisionsReplay` is inductive with
`snapshot = policies` unless `late`; `MoreIsNeverMilder` follows from it and the monotony of
`Evaluate`, whose escalation only climbs. That more changes have no fewer lines is
`LinesMonotone`: the sum adds one member after the other, and by an induction over the
subsets of a finite set (`SubsetInduction`) it exists, does not depend on the order and
grows with the set. `SensitiveNeedsApproval` follows the risk from `EstimatedRisk` through the
plan's row to the verdict. `ToolsInside` and `PlanningInside` are about the tables of the
planner.

### 3.10 ExecutionHistory and ExecutionRecords

*State.* The schema (columns of the graph, recorded version), where each process
stands, the table (`None` for an execution whose row was never inserted), the
directories (inputs, events, report, repair), and the locals of the one execution under
way, since the lock admits one. `torn` and `lost` are history: a migration was left
half way, by an error or by a death; executions that ended without closing their row.

*Actions.* `Open`, `Inspect`, `AddColumn`, `RecordVersion`: the constructor and the
migration, a statement each, by two processes at once; `MigrationFails`: one of them raises,
the columns added stay, and the process lives on. `BeginExecution`, `WriteInput`,
`InsertRoot` or `InsertChild`: the directory and the row. `StartStep`, `EndStep`,
`BackUpStep`, `StepFails`, `Breaks`: the steps with their events, whose writes may be lost.
`WriteReport`, `TearReport`, `CloseRow`: the end. `EndFailedStep`, `RollBack`,
`ReportFailure`, `HandlerBreaks`, `CloseFailedRow`: the handler of errors, which may fail
itself. `SuggestRepair` writes to the directory of a failed execution what
`ExecutionHistory` finds: similarity in twentieths from error, paths, status and verdict
(`Score`), best first, cut at `Limit`. `Lineage` holds ancestors, descendants (breadth
first, with the limit as the code applies it: `Search` is the list after each look-up) and
siblings. Vectors of words are abstracted to how alike two errors are (`ErrorAlike`).
`InsertChild` stands for callers that pass a parent; `execute()` passes none.

*Run* `records` (1.0 M, 0.32 M of them of this part): two processes, three executions, errors
and deaths
together, the limit of similar executions at one, so that a second one is cut off.
Three executions reach neither the limit on descendants nor a cut in depth, and never the 1000
rows that the search for similar executions reads at most (`storage.py:733`), which is left
out. `VersionIsEarned`: a version without all columns means that a process is adding them or
that a migration was left half way, and no execution is ever recorded in a table that
lacks one. Everything may have ended or died, so deadlock is not checked; no fairness is
assumed.

*Proofs.* `RecordsInv`, for any processes, requests and similarity of errors, any number
of executions, errors and deaths. One process executes, on the last row (`OneExecutes`).
A row is pending exactly if its execution is under way or was lost, and never both
(`PendingRows`); as the rows are the disjoint union of the completed, the failed
and the pending, the statistics count as they should. `ProgressMade` says what the directory
holds at each stage, which makes a row that is closed agree with its report. The events of an
execution are about the steps it has begun, with no failure among them until the handler
says so (`EventsAreBehind`): a new event comes after all others. A row that has
ended never changes again, so that what a repair rests on stays true (`RowsAreKept`); that
`Evidence` is a success at all needs a best element of a finite set, which exists because
strict inclusion of finite sets is well founded. `ColumnsInOrder`, of the migration alone,
says that the columns were added in their order, all or none, by one process or by none
unless a migration was left half way; `RowsHaveColumns` follows because columns only grow
(`ColumnsGrow`) and a row needs them all.

For the graph, `IsForest` is inductive with `RecordsInv`: a parent has its row before its
child, and both are in the chain of the one execution that has no parent. The look-ups are
recursive functions, so what they find takes an induction: `SetInduction` derives
one over 0..n from the well-founded order of its subsets, and `RecursionExists` that such a
function is what its definition says. A way up descends in the table, is that of the
parent from its second place on, and so ends at the root (`UpwardDescends`, `UpwardOfChild`,
`RootIsAbove`). Each look-up of a search adds children, once (`LookUpAdds`); what it finds is
kin (`SearchFindsKin`), nothing is found twice (`SearchFindsOnce`), and so the search is
shorter than the table (`SearchIsShort`). Parents and children, siblings and the root agree for
any number of executions (`KinAgrees`). That an execution is among its
grandparent's descendants too holds while there are at most `2 * Fan` executions, twenty in
the code (`LineageAgreed`): with more, the limit may end the search before it.

### 3.11 ToolCalls

*State.* Per MCP server: the process, whether it reads its stdin, `_request_id`, the table
`_pending`, the queue of the request that waits, the reader with what it took out of the
table and has not yet put into a queue, the requests the server received, its stdout. The
thread's place in a call, and whether the catalog is open. A request has a number
(`requests`) besides the id it carries, so that "the answer to this request" can be told from
"an answer with this id".

*Actions.* `Invoke`, the search over the providers in their order (`ListLocal`,
`ListSkillsFails`, and for servers a `tools/list`), `CallLocal`, `NotFound`, `Ends`. A
request is `Ensure` (start the process and the reader if needed), `Register`, `Write`,
then `Receive` or `TimeOut`. `Write` comes before the time-out and takes place only while the
server reads: the thread of a server that hangs stays there (`Blocked`; a pipe has room
for some requests, which is left out as the more favourable case). `WriteFails` is a broken
pipe, a closed stdin, or arguments that are no JSON. The reader: `TakeAnswer` under the lock,
`PutAnswer` outside it, `EndOfFile`, `Stumbles` on a line that is no object. A server may
`Answer` in any order, send a message of its own with any id (`Speaks`), hang and read on
(`Hangs`, `ReadsOn`), fall mute or exit (`GoesAway`); if it exits, a process that it had
started may hold its stdout (`left`) until that lets go of it (`LetsGo`): without the end of
stdout the reader reads on. `Close` terminates the servers and not what they had started.

*Run* `tools` (0.41 M): two servers, so that a tool of the second is found past the
first, a skill, which is asked for after both; two calls, two faults, but no more than three
of both together (`MaxEvents`). With two calls a late answer of the first may meet the
second; the second fault may hit what the first has left waiting, as when a server exits
while a write to it blocks. A closed catalog stops, so deadlock is not
checked. `CallsReturn` exempts a blocked write, and after the closing the reader of a server
that left, neither of which has an end in the code: see the divergences.

*Fairness.* `WF(Work)`: the thread goes on, by a time-out if need be. `WF(Read(s))`: the
reader runs. Nothing is assumed of the servers.

*Proofs.* That an answer is about its own request rests on ids that only grow: `Travelling`
says of every message on its way, at the server or in its stdout, that it has an id of the
client, and that one with the id of the request that waits is about that request. The
table is empty unless the thread waits, and then holds that request alone; a late answer
finds no entry. What the reader took out of the table may be put into a queue that nobody
reads any more, but never into that of another request. `Passed` follows the search: each
provider that was passed over lacks the tool or could not be asked, so that `NotFound` is
justified. The two together give `AnswersFitRequests`, for servers that answer in any
order, late or not at all, and for what they say of their own, which a request of the same id
takes for its answer (`NoAnswer`).

## 4. What is proved, and what is only checked

| Module | Theorem | For every |
|---|---|---|
| `RunQueueProofs` | `TypeCorrect`, `Inductive`, `LeaseMutexHolds`, `RunningHasLeaseHolds`, `AttemptBudgetHolds`, `SettledNeverRunsHolds`, `QuietFinalIsFrozenHolds`, `ImplementsLease` | set of runs, finite set of workers, lease, limit, number of faults |
| `ExecutorProofs`, lock file | `LockTypeCorrect`, `LockInductive`, `Exclusive`, `MisfiresHaveACause`, `ExclusiveOnUnix`, `OnUnixImplementsLease` | number of executions, retries, crashes, both platforms |
| `ExecutorProofs` | `TypeCorrect`, `Inductive`, `CompletedCorrect`, `RollbackCorrect`, `DuplicatesCorrect` | workspace, change sets, executions, number of edits, errors, crashes |
| `ExecutorProofs`, records | `RecordsInductive`, `RowsFit`, `EventsOrdered`, `RepairsGrounded`, `VersionEarned`, `FamilyInductive`, `KinAgrees`, `LineageAgreed` | processes, requests, similarity of errors, limits, number of executions, errors and deaths |
| `MemoryStoreProofs` | `Inductive`, `ProposalsFit`, `OneValue`, `AuditComplete`, `WithdrawnKept` | proposals, facts, keys, places, number of faults, both kinds of database |
| `AgentLoopProofs` | `Inductive`, `TurnsFit`, `WaitKept` | number of turns, children, workers, attempts, crashes, lost answers |
| `ConversationsProofs` | `Inductive`, `CleanLogs`, `Ordered`, `SuccessAnswered`, `NewsUnread` | number of conversations, turns, runs, attempts, calls, crashes, lost calls; length of a millisecond and of time |
| `SandboxProofs` | `TypeCorrect`, `Inductive`, `KeysOnce`, `Closed`, `Frozen`, `Successes`, `Tidy`, `PolicyStrictest` | requests, keys, settings and limits, with and without the unique index, number of events |
| `GovernanceProofs` | `Typed`, `TablesGrow`, `Replay`, `NeverMilder`, `Sensitive`, `SensitiveGated`, `ToolsInside` | requests, plans, change sets, policies, length of the tables |
| `ToolCallsProofs` | `Inductive`, `OwnAnswers` | servers, tools, providers in any order, number of calls and faults |

Each rests on the ASSUMEs of its module and on nothing else: the types of the constants.
The argument is the usual one: the initial states satisfy an inductive invariant, each
action preserves it (a lemma per conjunct, a step per action), and it implies the property.
The refinements map the set of those who hold a live lease, or the lock, to the variable of
`ExclusiveLease`.

Only model-checked: liveness under fairness, which is beyond the prover (`RunsSettle`,
`ChildrenEnd`, `AcquireReturns`, `DeadOwnerIsReplaced`, `CallsEnd`, `RequestsEnd`,
`CallsReturn`). With more executions than `2 * Fan`, `LineageAgrees` is neither checked nor
proved, and need not hold. No definition of the project uses a RECURSIVE operator. The
library's induction theorems take a predicate, which the provers cannot instantiate; where a
recursive function or a sum is reasoned about (sections 3.9 and 3.10), the induction is over
a set instead.

## 5. Findings

Runs that end in a violation, each of one property that a comment or a document of
the repository states:

| Run | The code | What is said |
|---|---|---|
| `turn_stuck` | the wake looks for `state == "WAIT_CHILD"`, the yield writes `waiting`; and an overdue WAITING_CHILD row is fetched but cannot be claimed | `docs/analysis-turn-flow-and-timeout.md:186`: the parent is never stuck |
| `executor_partial` | `applied_changes` is assigned after the last change only: if the second one fails the first stays, under a row that says `rolled_back` | `executor.py:17`, `file_applier.py:60`: all or nothing |
| `memory_audit` | under SQLite the event `fact.created` finds the database locked by the flush of the fact, which is committed without it (`facts.py:533`) | `docs/spec/memory.md:140`, `packages/memory/README.md:94`: every operation emits exactly one event |

Divergences that the models contain, or that were met while modelling, and that no run
is spent on:

*Runs and turns*

- `run_task_with_steps` swallows the error of a refused heartbeat
  (`task_context.py:179`), so that the loser of a lease calls `complete_failed`, whose
  UPDATE asks for no owner: the run of the new owner becomes FAILED. `main.py:223-225`
  says that nothing is completed then. A canceled `sleep` run is written FAILED in the same
  way, and `is_transition_to_final` is computed from a session copy
  that still says RUNNING, so that it is always true.
- `emit_run_message` assigns `summary` and reads `content` for a turn that succeeded:
  the call ends with 500 and the turn is never announced (`EmitRaises`).
- Two workers in one turn may leave two queued children, one of which nobody awaits.

*Conversations*

- A keyed message that is resent after a crash between the commits counts as a duplicate
  and is never answered. The console sends no `client_msg_id`, so that its resends are
  new turns. A worker tries an announcement twice; then it is lost.
- `docs/spec/agent-loop.md:91` calls a conversation that was never read unread;
  the code compares `updated_at` with `created_at` then. News of
  the two milliseconds after a reading, or in the clock tick of the creation, shows as read.
- A conversation just opened may show as unread: the second UPDATE of mark-read moves
  `updated_at` again, and nobody compares any more (`conversations.py:270`), while
  `conversations.py:226` has `last_read_at >= updated_at` and `:910` says the mark is cleared.

*Memory*

- Besides the missing event, accepting a proposal into a new fact under SQLite ends with an
  error and leaves the proposal pending (`packages/memory/README.md:27`,
  `docs/spec/memory.md:15` say otherwise). `reactivate_fact` looks
  for no conflict; a global fact with a project or session id is never found as one;
  `check_expired_proposals` compares an aware with a naive time and always raises.

*Sandbox and skills*

- An exception between the start of a container and `docker rm` leaves it running under a
  record that says failed (`Abandon`, `runner_docker.py:225-236`); `runner_docker.py:348` says
  that the forced rm leaves none.
- A crash of core-api, or a last commit that fails, leaves a record RUNNING for ever, and its
  idempotency key with it (`sandbox.py:135`).
- The permit comes back when the docker client was killed, before the container is
  removed (`runner_docker.py:338`), and `_get_semaphore` has no lock: for a while more containers
  run than `docs/spec/sandbox.md:74` allows. Keys belong neither to a project nor to a
  body; tables older than the column `idempotency_key` have no unique index, and then
  two requests with one key both run. `manifest.json` never lists `meta.json`.

*Governance and planner*

- `transition()` looks at its table alone: a planning task gets to `execution_ready` before
  anything was judged (`state_machine.py:26`, `:44`: allowed or approved).
- The first approval of a plan answers for every later change set, also if the decision named
  now is a denial (`governance.py:316`; `agent/workflows/execute_changeset.md:131`: any change
  invalidates the approval).
- The executor compares neither ids nor checksums of the plan, change set and decision it is
  given (`executor.py:578`; `executor.py:16`: only approved change sets), and reads no
  approval: what needed and got one is refused (`executor.py:7`: ALLOW or human approval).
- Paths are compared as text (`writegate.py:398`): `./` before a path, or `..` in it, changes
  what a pattern matches.
- The planner hands names of components to `RiskShaper`, which expects paths: health
  checks are always empty, and each of its plans of medium risk needs approval. A plan
  of low risk that escalation makes medium is allowed without health checks.
- `line_count_delta` is the caller's, with default 0. The pattern `*.{ts,tsx}` matches
  nothing, and `**/migrations/**` one level only. `GET /governance/plans?risk_level`
  filters by a column nobody sets.

*Executor, lock and records*

- On Unix the test for a dead process raises (`execution_lock.py:287`), so that its lock is
  never stale; `docs/phase2.1_acceptance_progress.md:45` says that old and dead means stale.
  On Windows two waiting executions may judge the same dead lock; the second
  unlinks the lock the first has made since, and both go on
  (`ExclusiveUnlessMisfired` allows it after a misfire only). A process that dies
  between creating and writing the lock file, or whose write fails, leaves a lock without an
  owner, which is never cleaned (`execution_lock.py:186`); `acquire` reads the lock
  for its error message after it decided to refuse and may find none (AttributeError).
- An update that passed the check of its old content overwrites an edit made before
  the file is moved into place (`file_applier.py:148`); a crash between two changes leaves
  half of a change set and a pending row (`file_applier.py:57`), and nothing looks for it
  later; a crash or an error before the idempotency record is complete lets the change set
  be executed again (`idempotency.py:230`).
- Ten similar failures hide a success from a repair, because the filter for `completed` comes
  after the limit (`executions.py:281`); `docs/PHASE2_4_EXECUTION_LINEAGE.md:45` suggests
  otherwise. The first of four columns stands for all (`migrations.py:45`, "already
  applied" at `:41` and `:85`): a process that opens the store between two ALTER TABLEs, or after
  one failed, records version 1. A migration left half way is never resumed: the columns stay
  missing, and later executions leave directories without rows. The
  API's `WORKSPACE_ROOT` is `src/apps`, so that by default it reads another database than
  the executor writes (the model has one, as the tests do). The error step is always
  `failed` or `rolled_back`, never the name of a step.

*Tools*

- The write to a server that does not read its stdin has no time-out
  (`mcp_stdio_client.py:121`): the call blocks for ever once the pipe is full, where
  `docs/PHASE2.md:57` and `mcp_stdio_client.py:149` name a `MCPTimeoutError`.
- `close()` sets a flag that a reader inside `readline()` does not see
  (`mcp_stdio_client.py:160`, "first stop the reader" at `:156`): while a descendant of the server
  holds its stdout, the reader stays.
- A message of a server's own whose id is that of the waiting request is taken for its answer
  (`mcp_stdio_client.py:90-100`).
- The reader thread is not a daemon, and threads are joined before `atexit` callbacks close
  the default catalog: a worker hangs at its exit while a server lives. Two mute
  servers take 30 s each for their lists, together the length of a lease. A server that
  exited is not started again for its catalog. A line that is no JSON object ends the
  reader for good; later requests wait for their time-out. The time-out in a tool's meta
  data is ignored.

## 6. Not modelled

The components of the second list in section 1, for the reasons given there. Within
the modelled ones: reading (list, get) where nothing depends on it, formatting, logging
and progress; several clocks; databases that lose committed rows; more than one core-api
process (the repository starts one); in the records the downward migration, the cleanup of old
artifacts, the table of steps and dry runs (the first three have no caller); in skills the
validation of manifests; in the tool runtime the choice of a web back end; in the
planner the wording of plans.

The lane queue is a library that no service starts; a CancelledError out of a
submitted function would end the lane's worker task there (`lane_queue.py:40`).
