------------------------------ MODULE RunQueue ------------------------------
(***************************************************************************)
(* The `runs` table as a work queue, and the agent-worker processes that   *)
(* serve it: fetch a candidate, claim it with a lease, execute its handler *)
(* while the heartbeat renews the lease, write the outcome, ask core-api   *)
(* to announce it.  core-api creates, cancels, deletes and suspends rows   *)
(* at any moment.  Workers may stall for any time at any point, crash,     *)
(* and lose a database or an HTTP call.                                    *)
(*                                                                         *)
(* Code: apps/agent-worker/worker/{queue,main,runner,task_context}.py and  *)
(* apps/core-api/app/api/{runs,internal}.py.                               *)
(***************************************************************************)
EXTENDS Integers, FiniteSets

CONSTANTS
    Runs,           \* run ids; a smaller number was created earlier
    Workers,        \* worker ids
    SleepRuns,      \* runs whose handler calls the heartbeat while it works
    AgentRuns,      \* runs of type agent_loop_turn, which may yield
    NoRun,          \* "no run in hand"
    NoWorker,       \* worker_id IS NULL
    LeaseTicks,     \* RUN_LEASE_SECONDS, in ticks
    BeatTicks,      \* RUN_HEARTBEAT_SECONDS, in ticks
    MaxAttempts,    \* RUN_MAX_ATTEMPTS
    MaxFaults       \* bound: crashes and lost database calls in a behaviour

ASSUME RunQueueAssumption ==
    /\ Runs \subseteq Nat
    /\ IsFiniteSet(Workers)
    /\ SleepRuns \subseteq Runs
    /\ AgentRuns \subseteq Runs
    /\ NoRun \notin Runs
    /\ NoWorker \notin Workers
    /\ LeaseTicks \in Nat \ {0}
    /\ BeatTicks \in Nat
    /\ MaxAttempts \in Nat
    /\ MaxFaults \in Nat

VARIABLES
    \* one row of the runs table per run
    status,     \* "ABSENT" before POST /runs, "DELETED" after DELETE
    worker_id,  \* who claimed it last
    lease,      \* ticks until lease_expires_at; 0 = past; NoLease = NULL
    attempt,    \* claims so far, counted up to MaxAttempts + 1
    waiting,    \* output_json holds a `waiting` record
    stale,      \* updated_at lies more than 600 s back (kept for waiting rows)
    \* one main loop per worker
    pc,         \* where the loop of run_worker stands
    job,        \* the run it fetched or claimed
    seen,       \* status in its session's copy of the row
    claimNo,    \* history: the attempt number its own claim wrote
    hold,       \* history: ticks left of the lease it last wrote
    beat,       \* ticks until the heartbeat callback touches the database
    outcome,    \* which complete_* call it is about to make
    \* whole system
    started,    \* history: claim numbers of the row whose handler was started
    faults      \* crashes and lost database calls so far

table   == <<status, worker_id, lease, attempt, waiting, stale>>
loop    == <<pc, job, seen, claimNo, hold, beat, outcome>>
vars    == <<table, loop, started, faults>>

Final    == {"SUCCEEDED", "FAILED", "CANCELED"}
Statuses == {"ABSENT", "QUEUED", "RUNNING", "WAITING_CHILD", "DELETED"} \cup Final
Live(r)  == status[r] \notin {"ABSENT", "DELETED"}
NoLease  == -1

\* Positions of the loop: "claimed" is between claim_run's commit and its
\* second SELECT, "starting" before the handler, "beating" between the two
\* statements of the heartbeat callback.
Working    == {"claimed", "starting", "body", "beating", "finishing"}
Positions  == {"idle", "down", "fetched", "emitting"} \cup Working
Outcomes   == {"none", "success", "failed", "raised", "canceled"}

Init ==
    /\ status = [r \in Runs |-> "ABSENT"]
    /\ worker_id = [r \in Runs |-> NoWorker]
    /\ lease = [r \in Runs |-> NoLease]
    /\ attempt = [r \in Runs |-> 0]
    /\ waiting = [r \in Runs |-> FALSE]
    /\ stale = [r \in Runs |-> FALSE]
    /\ pc = [w \in Workers |-> "idle"]
    /\ job = [w \in Workers |-> NoRun]
    /\ seen = [w \in Workers |-> "ABSENT"]
    /\ claimNo = [w \in Workers |-> 0]
    /\ hold = [w \in Workers |-> 0]
    /\ beat = [w \in Workers |-> 0]
    /\ outcome = [w \in Workers |-> "none"]
    /\ started = [r \in Runs |-> {}]
    /\ faults = 0

-----------------------------------------------------------------------------
(* core-api: the HTTP handlers that write the table.                       *)

\* POST /runs.  created_at grows, so runs are created in the order of Runs.
CreateRun(r) ==
    /\ status[r] = "ABSENT"
    /\ \A q \in Runs : q < r => status[q] # "ABSENT"
    /\ status' = [status EXCEPT ![r] = "QUEUED"]
    /\ UNCHANGED <<worker_id, lease, attempt, waiting, stale, loop, started, faults>>

\* POST /runs/{id}/cancel: one conditional UPDATE; worker_id stays.
CancelRun(r) ==
    /\ status[r] \in {"QUEUED", "RUNNING"}
    /\ status' = [status EXCEPT ![r] = "CANCELED"]
    /\ lease' = [lease EXCEPT ![r] = NoLease]
    /\ UNCHANGED <<worker_id, attempt, waiting, stale, loop, started, faults>>

\* DELETE /runs/{id}, whatever the status.
DeleteRun(r) ==
    /\ Live(r)
    /\ status' = [status EXCEPT ![r] = "DELETED"]
    /\ worker_id' = [worker_id EXCEPT ![r] = NoWorker]
    /\ lease' = [lease EXCEPT ![r] = NoLease]
    /\ waiting' = [waiting EXCEPT ![r] = FALSE]
    /\ stale' = [stale EXCEPT ![r] = FALSE]
    /\ started' = [started EXCEPT ![r] = {}]
    /\ UNCHANGED <<attempt, loop, faults>>

-----------------------------------------------------------------------------
(* The worker's loop.                                                      *)

\* The loop goes round: the iteration's locals are gone.
Leave(w, position) ==
    /\ pc' = [pc EXCEPT ![w] = position]
    /\ job' = [job EXCEPT ![w] = NoRun]
    /\ seen' = [seen EXCEPT ![w] = "ABSENT"]
    /\ claimNo' = [claimNo EXCEPT ![w] = 0]
    /\ hold' = [hold EXCEPT ![w] = 0]
    /\ beat' = [beat EXCEPT ![w] = 0]
    /\ outcome' = [outcome EXCEPT ![w] = "none"]

\* Go on with the job in hand towards complete_*(outcome = o).  claimNo serves until
\* the handler starts or is passed over.
Conclude(w, o) ==
    /\ pc' = [pc EXCEPT ![w] = "finishing"]
    /\ outcome' = [outcome EXCEPT ![w] = o]
    /\ claimNo' = [claimNo EXCEPT ![w] = 0]
    /\ UNCHANGED <<job, hold, beat>>

Expired(r) == status[r] = "RUNNING" /\ lease[r] = 0

\* A slip: the expired rows are forgotten.
CandidatesQueuedOnly == {r \in Runs : status[r] = "QUEUED"}

\* queued first, then expired running, then waiting_child left over 600 s
Candidates ==
    LET queued  == {r \in Runs : status[r] = "QUEUED"}
        expired == {r \in Runs : Expired(r)}
        overdue == {r \in Runs : status[r] = "WAITING_CHILD" /\ stale[r]}
    IN  IF queued # {} THEN queued ELSE IF expired # {} THEN expired ELSE overdue

FetchCandidate(w) ==
    /\ pc[w] = "idle"
    /\ \E oldest \in Candidates :
        /\ \A r \in Candidates : oldest <= r
        /\ job' = [job EXCEPT ![w] = oldest]
    /\ pc' = [pc EXCEPT ![w] = "fetched"]
    /\ UNCHANGED <<table, seen, claimNo, hold, beat, outcome, started, faults>>

\* Slips in claim_run's condition: the lease is not looked at; all but canceled
\* rows qualify; no condition but the id.
ClaimableWithLease(r)      == status[r] \in {"QUEUED", "RUNNING"}
ClaimableUnlessCanceled(r) == Live(r) /\ status[r] # "CANCELED"
ClaimableAlways(r)         == Live(r)

Claimable(r) == status[r] = "QUEUED" \/ Expired(r)

\* attempt + 1; what lies beyond the limit is not told apart
NextAttempt(r) == IF attempt[r] > MaxAttempts THEN attempt[r] ELSE attempt[r] + 1

\* claim_run's conditional UPDATE hits one row.
ClaimWon(w) ==
    LET r == job[w] IN
    /\ pc[w] = "fetched"
    /\ Claimable(r)
    /\ status' = [status EXCEPT ![r] = "RUNNING"]
    /\ worker_id' = [worker_id EXCEPT ![r] = w]
    /\ lease' = [lease EXCEPT ![r] = LeaseTicks]
    /\ attempt' = [attempt EXCEPT ![r] = NextAttempt(r)]
    /\ pc' = [pc EXCEPT ![w] = "claimed"]
    /\ claimNo' = [claimNo EXCEPT ![w] = NextAttempt(r)]
    /\ hold' = [hold EXCEPT ![w] = LeaseTicks]
    /\ UNCHANGED <<waiting, stale, job, seen, beat, outcome, started, faults>>

\* It hits none: somebody else was faster, or the row was never claimable.
ClaimLost(w) ==
    /\ pc[w] = "fetched"
    /\ ~Claimable(job[w])
    /\ Leave(w, "idle")
    /\ UNCHANGED <<table, started, faults>>

\* claim_run's SELECT after the commit, and run_worker's checks on what it
\* read: a canceled row is finalized, one over the limit fails, the rest runs.
RereadGone(w) ==
    /\ pc[w] = "claimed"
    /\ ~Live(job[w])
    /\ Leave(w, "idle")
    /\ UNCHANGED <<table, started, faults>>

RereadClaimed(w) ==
    LET r == job[w] IN
    /\ pc[w] = "claimed"
    /\ Live(r)
    /\ seen' = [seen EXCEPT ![w] = status[r]]
    /\ \/ /\ status[r] = "CANCELED"
          /\ Conclude(w, "canceled")
       \/ /\ status[r] # "CANCELED"
          /\ attempt[r] > MaxAttempts
          /\ Conclude(w, "raised")
       \/ /\ status[r] # "CANCELED"
          /\ attempt[r] <= MaxAttempts
          /\ pc' = [pc EXCEPT ![w] = "starting"]
          /\ UNCHANGED <<job, claimNo, hold, beat, outcome>>
    /\ UNCHANGED <<table, started, faults>>

\* execute_with_heartbeat looks the row up again: RuntimeError if it is gone,
\* else the handler begins.
StartGone(w) ==
    /\ pc[w] = "starting"
    /\ ~Live(job[w])
    /\ Leave(w, "idle")
    /\ UNCHANGED <<table, started, faults>>

StartHandler(w) ==
    LET r == job[w] IN
    /\ pc[w] = "starting"
    /\ Live(r)
    /\ pc' = [pc EXCEPT ![w] = "body"]
    /\ beat' = [beat EXCEPT ![w] = BeatTicks]
    /\ started' = [started EXCEPT ![r] = @ \cup {claimNo[w]}]
    /\ claimNo' = [claimNo EXCEPT ![w] = 0]
    /\ UNCHANGED <<table, job, seen, hold, outcome, faults>>

\* The heartbeat callback, once BeatTicks have passed.  Its SELECT finding
\* CANCELED raises inside the handler, whose exceptions run_task_with_steps
\* turns into a result with ok = False.
BeatCheck(w) ==
    LET r == job[w] IN
    /\ pc[w] = "body"
    /\ r \in SleepRuns
    /\ beat[w] = 0
    /\ \/ /\ status[r] = "CANCELED"
          /\ Conclude(w, "failed")
       \/ /\ status[r] # "CANCELED"
          /\ pc' = [pc EXCEPT ![w] = "beating"]
          /\ UNCHANGED <<job, claimNo, hold, beat, outcome>>
    /\ UNCHANGED <<table, seen, started, faults>>

\* A slip in heartbeat's condition: without worker_id.
RenewableByAnyone(w) == status[job[w]] = "RUNNING"

Renewable(w) == status[job[w]] = "RUNNING" /\ worker_id[job[w]] = w

\* heartbeat()'s UPDATE renews the lease of a row that is still this worker's;
\* otherwise the handler raises, which again ends as ok = False.
BeatRenew(w) ==
    LET r == job[w] IN
    /\ pc[w] = "beating"
    /\ Renewable(w)
    /\ lease' = [lease EXCEPT ![r] = LeaseTicks]
    /\ hold' = [hold EXCEPT ![w] = LeaseTicks]
    /\ beat' = [beat EXCEPT ![w] = BeatTicks]
    /\ pc' = [pc EXCEPT ![w] = "body"]
    /\ UNCHANGED <<status, worker_id, attempt, waiting, stale,
                   job, seen, claimNo, outcome, started, faults>>

BeatRefused(w) ==
    /\ pc[w] = "beating"
    /\ ~Renewable(w)
    /\ Conclude(w, "failed")
    /\ UNCHANGED <<table, seen, started, faults>>

\* The handler ends: ok, ok = False with an output, or an exception (unknown
\* type, bad input, no LLM) that main.py turns into complete_failed.
HandlerEnds(w) ==
    /\ \/ pc[w] = "body" /\ \E o \in {"success", "failed", "raised"} : Conclude(w, o)
       \/ pc[w] = "starting" /\ Conclude(w, "raised")
    /\ UNCHANGED <<table, seen, started, faults>>

\* agent_loop_turn after it created a child: POST yield-waiting-child checks
\* neither status nor worker.  A lost answer is reported as ok = False.
YieldWaitingChild(w) ==
    LET r == job[w] IN
    /\ pc[w] = "body"
    /\ r \in AgentRuns
    /\ Live(r)
    /\ ~waiting[r]
    /\ status' = [status EXCEPT ![r] = "WAITING_CHILD"]
    /\ worker_id' = [worker_id EXCEPT ![r] = NoWorker]
    /\ lease' = [lease EXCEPT ![r] = NoLease]
    /\ waiting' = [waiting EXCEPT ![r] = TRUE]
    /\ stale' = [stale EXCEPT ![r] = FALSE]
    /\ \/ Leave(w, "idle") /\ UNCHANGED faults
       \/ /\ faults < MaxFaults
          /\ faults' = faults + 1
          /\ Conclude(w, "failed")
          /\ UNCHANGED seen
    /\ UNCHANGED <<attempt, started>>

\* The parent already waits (another worker's yield came first): the step is
\* answered "wait" and the worker leaves the row alone, or its own yield is
\* refused with 409 and it fails.
FindWaiting(w) ==
    /\ pc[w] = "body"
    /\ job[w] \in AgentRuns
    /\ waiting[job[w]]
    /\ \/ ~stale[job[w]] /\ Leave(w, "idle")
       \/ Conclude(w, "failed") /\ UNCHANGED seen
    /\ UNCHANGED <<table, started, faults>>

\* orchestration-step finds a wait older than 600 s: it clears the record and
\* has the worker finish the parent with a reply.
FindOverdueWait(w) ==
    LET r == job[w] IN
    /\ pc[w] = "body"
    /\ r \in AgentRuns
    /\ waiting[r] /\ stale[r]
    /\ waiting' = [waiting EXCEPT ![r] = FALSE]
    /\ stale' = [stale EXCEPT ![r] = FALSE]
    /\ Conclude(w, "success")
    /\ UNCHANGED <<status, worker_id, lease, attempt, seen, started, faults>>

\* What complete_success, complete_failed and complete_canceled write
OutcomeStatus(o) ==
    IF o = "success" THEN "SUCCEEDED"
    ELSE IF o = "canceled" THEN "CANCELED" ELSE "FAILED"

\* complete_*: an UPDATE by id, with no condition on status or worker_id.  An
\* output replaces output_json and its `waiting` record.  The message API is
\* called unless the session's copy of the row was final.
Complete(w) ==
    LET r == job[w] IN
    /\ pc[w] = "finishing"
    /\ Live(r)
    /\ status' = [status EXCEPT ![r] = OutcomeStatus(outcome[w])]
    /\ lease' = [lease EXCEPT ![r] = NoLease]
    /\ waiting' = [waiting EXCEPT ![r] = @ /\ outcome[w] \in {"raised", "canceled"}]
    /\ stale' = [stale EXCEPT ![r] = FALSE]
    /\ Leave(w, IF seen[w] \in Final THEN "idle" ELSE "emitting")
    /\ UNCHANGED <<worker_id, attempt, started, faults>>

CompleteGone(w) ==
    /\ pc[w] = "finishing"
    /\ ~Live(job[w])
    /\ Leave(w, "idle")
    /\ UNCHANGED <<table, started, faults>>

\* POST emit-message, at most two tries, returned or gave up.  What core-api
\* does with it leaves the row alone.
EmitReturns(w) ==
    /\ pc[w] = "emitting"
    /\ Leave(w, "idle")
    /\ UNCHANGED <<table, started, faults>>

\* A database call raises: main.py's outer handler rolls back and the loop goes
\* on; the row stays as it is.
DatabaseError(w) ==
    /\ pc[w] \in {"fetched", "claimed", "finishing"}
    /\ faults < MaxFaults
    /\ faults' = faults + 1
    /\ Leave(w, "idle")
    /\ UNCHANGED <<table, started>>

Crash(w) ==
    /\ pc[w] # "down"
    /\ faults < MaxFaults
    /\ faults' = faults + 1
    /\ Leave(w, "down")
    /\ UNCHANGED <<table, started>>

Restart(w) ==
    /\ pc[w] = "down"
    /\ pc' = [pc EXCEPT ![w] = "idle"]
    /\ UNCHANGED <<table, job, seen, claimNo, hold, beat, outcome, started, faults>>

-----------------------------------------------------------------------------
(* Time.                                                                   *)

Down1(n) == IF n > 0 THEN n - 1 ELSE n

Tick ==
    /\ lease' = [r \in Runs |-> Down1(lease[r])]
    /\ hold' = [w \in Workers |-> Down1(hold[w])]
    /\ beat' = [w \in Workers |-> Down1(beat[w])]
    /\ UNCHANGED <<status, worker_id, attempt, waiting, stale,
                   pc, job, seen, claimNo, outcome, started, faults>>

\* 600 s go by with no write to a waiting row.
WaitGetsStale(r) ==
    /\ status[r] = "WAITING_CHILD" \/ waiting[r]
    /\ ~stale[r]
    /\ stale' = [stale EXCEPT ![r] = TRUE]
    /\ UNCHANGED <<status, worker_id, lease, attempt, waiting, loop, started, faults>>

-----------------------------------------------------------------------------
Api(r) == CreateRun(r) \/ CancelRun(r) \/ DeleteRun(r)

\* The handler gives control back to the main loop
HandlerStops(w) ==
    HandlerEnds(w) \/ YieldWaitingChild(w) \/ FindWaiting(w) \/ FindOverdueWait(w)

\* What a live worker does by itself
Progress(w) ==
    \/ FetchCandidate(w) \/ ClaimWon(w) \/ ClaimLost(w)
    \/ RereadGone(w) \/ RereadClaimed(w) \/ StartGone(w) \/ StartHandler(w)
    \/ BeatRenew(w) \/ BeatRefused(w)
    \/ HandlerStops(w)
    \/ Complete(w) \/ CompleteGone(w) \/ EmitReturns(w)

Next ==
    \/ \E r \in Runs : Api(r) \/ WaitGetsStale(r)
    \/ \E w \in Workers : Progress(w) \/ BeatCheck(w)
    \/ \E w \in Workers : DatabaseError(w) \/ Crash(w) \/ Restart(w)
    \/ Tick

Spec == Init /\ [][Next]_vars

\* Workers poll forever, every call returns or times out, among the handlers that may
\* end again and again one does (their loops are bounded), and time passes.  Nothing is
\* assumed of the users, of crashes or of restarts.
Fairness ==
    /\ WF_vars(Tick)
    /\ \A w \in Workers : WF_vars(Progress(w))
    /\ SF_vars(\E w \in Workers : HandlerStops(w))

FairSpec == Spec /\ Fairness

-----------------------------------------------------------------------------
(* Properties                                                              *)

\* The domains of all variables (RunModel's columns, the loop's locals).
TypeOK ==
    /\ status \in [Runs -> Statuses]
    /\ worker_id \in [Runs -> Workers \cup {NoWorker}]
    /\ lease \in [Runs -> 0..LeaseTicks \cup {NoLease}]
    /\ attempt \in [Runs -> 0..(MaxAttempts + 1)]
    /\ waiting \in [Runs -> BOOLEAN]
    /\ stale \in [Runs -> BOOLEAN]
    /\ pc \in [Workers -> Positions]
    /\ job \in [Workers -> Runs \cup {NoRun}]
    /\ seen \in [Workers -> Statuses]
    /\ claimNo \in [Workers -> 0..(MaxAttempts + 1)]
    /\ hold \in [Workers -> 0..LeaseTicks]
    /\ beat \in [Workers -> 0..BeatTicks]
    /\ outcome \in [Workers -> Outcomes]
    /\ started \in [Runs -> SUBSET (0..(MaxAttempts + 1))]
    /\ faults \in 0..MaxFaults
    /\ \A w \in Workers : job[w] = NoRun <=> pc[w] \in {"idle", "down", "emitting"}

\* Two workers never work on one run while both still hold a lease that has
\* not run out by their own reckoning: claims, renewals, cancellations,
\* yields and late completions in any order do not break the lease
\* (queue.py claim_run, heartbeat).
LeaseMutex ==
    \A v, w \in Workers :
        /\ v # w
        /\ pc[v] \in Working /\ pc[w] \in Working
        /\ job[v] = job[w]
        => hold[v] = 0 \/ hold[w] = 0

\* A row has a lease exactly while it is RUNNING, and then an owner.  A RUNNING
\* row with lease_expires_at NULL would never be taken over (NULL < now is not
\* true); a lease left on a settled row would survive its cancellation.
RunningHasLease ==
    \A r \in Runs :
        /\ status[r] = "RUNNING" <=> lease[r] # NoLease
        /\ status[r] = "RUNNING" => worker_id[r] \in Workers

\* Every start of a handler uses up an attempt number of its own between 1 and
\* RUN_MAX_ATTEMPTS, so that a run's handler is started at most that often,
\* however claims, stalls and takeovers interleave (claim_run's attempt + 1,
\* run_worker's check of what it re-read).
AttemptBudget ==
    /\ \A r \in Runs : started[r] \subseteq 1..MaxAttempts
    /\ \A w \in Workers : pc[w] = "starting" => claimNo[w] \notin started[job[w]]

\* No step makes a final row queued or running again, whatever workers still have in
\* hand: claim_run tests the status in the UPDATE itself (queue.py:174-188).  A row
\* that waits for a child is left out: it is meant to be queued again.
SettledNeverRuns ==
    [][\A r \in Runs : status[r] \in Final => status'[r] \notin {"QUEUED", "RUNNING"}]_vars

\* A final row that no worker has in hand is not changed any more, except by
\* DELETE: in particular a run canceled before anybody claimed it never starts.
QuietFinalIsFrozen ==
    [][\A r \in Runs :
         (/\ status[r] \in Final
          /\ \A w \in Workers : pc[w] \in Working => job[w] # r)
         => status'[r] \in {status[r], "DELETED"}]_vars

\* Whatever is queued or running gets settled, through crashes, lost leases and
\* takeovers: there comes a moment at which every run has ended, waits for a
\* child, or is deleted.
RunsSettle ==
    LET active == \E r \in Runs : status[r] \in {"QUEUED", "RUNNING"}
    IN  active ~> ~active

-----------------------------------------------------------------------------
(* What the leases amount to.                                              *)

\* The workers that work on a run under a lease that has not run out
Holders ==
    [r \in Runs |-> {w \in Workers : pc[w] \in Working /\ job[w] = r /\ hold[w] > 0}]

Lease == INSTANCE ExclusiveLease WITH Resources <- Runs, Clients <- Workers, holders <- Holders

\* The queue implements the exclusive lease: a worker comes to hold a run only
\* by a step in which nobody else holds it (claim_run), and renewing, canceling,
\* yielding or completing never lets a second one in.
ImplementsExclusiveLease == Lease!Spec

-----------------------------------------------------------------------------
(* The inductive invariant behind them.                                    *)

\* What a worker believes of an unexpired lease is true of the row, or the row
\* is settled and nobody can claim it.
HeldLeaseIsRowLease ==
    \A w \in Workers :
        (pc[w] \in Working /\ hold[w] > 0) =>
            LET r == job[w] IN
            \/ status[r] \in Final \cup {"WAITING_CHILD", "DELETED"}
            \/ status[r] = "RUNNING" /\ worker_id[r] = w /\ lease[r] = hold[w]

\* Workers that have yet to start hold different attempt numbers, none of them
\* used, unless the number lies beyond the limit.
PreStart(w) == pc[w] \in {"claimed", "starting"}

AttemptNumbers ==
    /\ \A w \in Workers :
        /\ PreStart(w) => claimNo[w] \in 1..attempt[job[w]]
        /\ pc[w] = "starting" => claimNo[w] <= MaxAttempts
        /\ PreStart(w) /\ claimNo[w] <= MaxAttempts => claimNo[w] \notin started[job[w]]
    /\ \A v, w \in Workers :
        (v # w /\ PreStart(v) /\ PreStart(w) /\ job[v] = job[w])
            => claimNo[v] # claimNo[w] \/ claimNo[w] > MaxAttempts
    /\ \A r \in Runs : started[r] \subseteq 1..MaxAttempts /\ started[r] \subseteq 1..attempt[r]

\* Together with the types, leases and attempt numbers of rows and workers agree
\* through every interleaving of claims, renewals, cancellations and takeovers.
IInv ==
    /\ TypeOK
    /\ RunningHasLease
    /\ HeldLeaseIsRowLease
    /\ LeaseMutex
    /\ AttemptNumbers

=============================================================================
