-------------------------- MODULE ExecutionRecords --------------------------
(***************************************************************************)
(* The records of executions.  A process opens the store, which migrates   *)
(* the database one column at a time, and then executes.  An execution     *)
(* leaves a directory (three inputs, events, the report execution.json)    *)
(* and a row; neither is written in one transaction with the other, and    *)
(* every write may raise.  Meanwhile the API suggests repairs, which are   *)
(* written to the directories too.                                         *)
(*                                                                         *)
(* The lock lets one process execute at a time (ExecutionLock), so the     *)
(* execution under way is the last one; what it does to the workspace is   *)
(* in HostExecutor.  The names differ from HostExecutor's and              *)
(* ExecutionLock's, so that ExecutorProofs can extend the three.           *)
(*                                                                         *)
(* Code: packages/executor/{executor,artifacts,storage,schema,migrations,  *)
(*       repair}.py, apps/core-api/app/api/executions.py                   *)
(***************************************************************************)
EXTENDS ExecutionHistory

CONSTANTS
    Procs,
    MaxEvents       \* bound: executions, errors raised by the file system or the database,
                    \* and processes that die, together

ASSUME RecordsAssumption ==
    /\ None \notin Ids \cup Row
    /\ Requests # {}
    /\ MaxEvents \in Nat

VARIABLES
    columns,    \* columns of the graph that the table has
    version,    \* latest row of schema_migrations
    stage,      \* where each process stands
    column,     \* the next column it adds
    rows,       \* the table, None for an execution without a row
    dirs,       \* the directories
    \* locals of the execution under way
    requested, step, open, backedUp, error, status,
    \* history
    torn,       \* a migration was left half way: an ALTER TABLE raised, or its process died
    lost,       \* executions that ended without closing their row
    troubles

schema == <<columns, version, column, torn>>
locals == <<requested, step, open, backedUp, error, status>>
recordsVars == <<schema, stage, rows, dirs, locals, lost, troubles>>

Migrating == {"inspecting", "altering", "recording"}
Executing == {"preparing", "running", "reported", "raised", "failing", "reporting", "closing"}

GraphColumns == <<"correlation_id", "parent_execution_id", "trigger_kind", "run_id">>
AllColumns == {GraphColumns[i] : i \in 1..4}

Steps == 1..6
ValidateStep == 1
ChecksumStep == 2
BackupStep == 3
OtherError == 7         \* an error of the file system or of the database

Event == [kind : {"start", "ok", "failed"}, step : Steps]
Repair == [evidence : Ids \cup {None}, plan : BOOLEAN]
Dir == [inputs : 0..3, events : Seq(Event), report : Ended \cup {"none", "torn"},
        repair : Repair \cup {None}]

EmptyDir == [inputs |-> 0, events |-> <<>>, report |-> "none", repair |-> None]

RecordsInit ==
    /\ columns = {} /\ version = 0
    /\ stage = [p \in Procs |-> "down"]
    /\ column = [p \in Procs |-> 1]
    /\ rows = <<>> /\ dirs = <<>>
    /\ requested = CHOOSE r \in Requests : TRUE
    /\ step = 0 /\ open = FALSE /\ backedUp = FALSE /\ error = NoError /\ status = "pending"
    /\ torn = FALSE /\ lost = {}
    /\ troubles = 0

Proceeds(p, place) == stage' = [stage EXCEPT ![p] = place]
At(p, places) == stage[p] \in places

\* The call is over, and its locals with it.
Leaves(p, place) ==
    /\ Proceeds(p, place)
    /\ requested' = CHOOSE r \in Requests : TRUE
    /\ step' = 0 /\ open' = FALSE /\ backedUp' = FALSE /\ error' = NoError /\ status' = "pending"

Busy == \E p \in Procs : stage[p] \in Executing
Newest == Len(rows)
MayHappen == Newest + troubles < MaxEvents
Trouble == MayHappen /\ troubles' = troubles + 1

-----------------------------------------------------------------------------
(* Opening the store: CREATE TABLE IF NOT EXISTS, then the migration.      *)

Open(p) ==
    /\ At(p, {"down"})
    /\ Proceeds(p, IF version = 1 THEN "up" ELSE "inspecting")
    /\ UNCHANGED <<schema, rows, dirs, locals, lost, troubles>>

\* The first of the four columns stands for all.
Inspect(p) ==
    /\ At(p, {"inspecting"})
    /\ IF "correlation_id" \in columns
       THEN Proceeds(p, "recording")
       ELSE Proceeds(p, "altering")
    /\ UNCHANGED <<schema, rows, dirs, locals, lost, troubles>>

\* A slip: off by one, the last column is forgotten.
ForgetsColumn(p) ==
    /\ At(p, {"altering"})
    /\ LET new == GraphColumns[column[p]]
       IN  IF new \in columns
           THEN Proceeds(p, "down") /\ UNCHANGED <<columns, column>>
           ELSE /\ columns' = columns \cup {new}
                /\ IF column[p] = 3
                   THEN Proceeds(p, "recording") /\ column' = [column EXCEPT ![p] = 1]
                   ELSE column' = [column EXCEPT ![p] = @ + 1] /\ UNCHANGED stage
    /\ UNCHANGED <<version, torn, rows, dirs, locals, lost, troubles>>

\* Each ALTER TABLE commits by itself; a column that exists already is an error.
AddColumn(p) ==
    /\ At(p, {"altering"})
    /\ LET new == GraphColumns[column[p]]
       IN  IF new \in columns
           THEN Proceeds(p, "down") /\ UNCHANGED <<columns, column>>
           ELSE /\ columns' = columns \cup {new}
                /\ IF column[p] = 4
                   THEN Proceeds(p, "recording") /\ column' = [column EXCEPT ![p] = 1]
                   ELSE column' = [column EXCEPT ![p] = @ + 1] /\ UNCHANGED stage
    /\ UNCHANGED <<version, torn, rows, dirs, locals, lost, troubles>>

RecordVersion(p) ==
    /\ At(p, {"recording"})
    /\ version' = 1
    /\ Proceeds(p, "up")
    /\ UNCHANGED <<columns, column, torn, rows, dirs, locals, lost, troubles>>

\* The database is locked or the disk is full.  The rollback undoes none of the ALTER TABLEs,
\* and the process lives on: it may open the store again.
MigrationFails(p) ==
    /\ At(p, Migrating)
    /\ Trouble
    /\ torn' = (torn \/ column[p] > 1)
    /\ column' = [column EXCEPT ![p] = 1]
    /\ Proceeds(p, "down")
    /\ UNCHANGED <<columns, version, rows, dirs, locals, lost>>

-----------------------------------------------------------------------------
(* The start of an execution                                               *)

BeginExecution(p) ==
    /\ At(p, {"up"})
    /\ ~Busy
    /\ MayHappen
    /\ rows' = Append(rows, None)
    /\ dirs' = Append(dirs, EmptyDir)
    /\ \E r \in Requests : requested' = r
    /\ Proceeds(p, "preparing")
    /\ UNCHANGED <<schema, step, open, backedUp, error, status, lost, troubles>>

\* plan.json, changeset.json, decision.json.
WriteInput(p) ==
    /\ At(p, {"preparing"})
    /\ dirs[Newest].inputs < 3
    /\ dirs' = [dirs EXCEPT ![Newest].inputs = @ + 1]
    /\ UNCHANGED <<schema, stage, rows, locals, lost, troubles>>

NewRow(parent, chain) ==
    [request |-> requested, status |-> "pending", error |-> NoError, undone |-> FALSE,
     parent |-> parent, chain |-> chain]

\* record_execution_start.
Insert(p, parent, chain) ==
    /\ At(p, {"preparing"})
    /\ dirs[Newest].inputs = 3
    /\ columns = AllColumns
    /\ rows' = [rows EXCEPT ![Newest] = NewRow(parent, chain)]
    /\ Proceeds(p, "running")
    /\ UNCHANGED <<schema, dirs, locals, lost, troubles>>

\* The executor passes nothing: every execution it starts is a root.
InsertRoot(p) == Insert(p, None, Newest)

\* Other callers of the store name the parent and its chain.
InsertChild(p) == \E parent \in Recorded(rows) : Insert(p, parent, rows[parent].chain)

\* Nothing catches an error before the try: the directory stays without a row.
NeverStarts(p) ==
    /\ At(p, {"preparing"})
    /\ \/ dirs[Newest].inputs = 3 /\ columns # AllColumns /\ UNCHANGED troubles
       \/ Trouble
    /\ Leaves(p, "up")
    /\ UNCHANGED <<schema, rows, dirs, lost>>

-----------------------------------------------------------------------------
(* The steps, with their events.  An event that cannot be written is lost. *)

Emit(kind, n) ==
    \/ dirs' = [dirs EXCEPT ![Newest].events = Append(@, [kind |-> kind, step |-> n])]
       /\ UNCHANGED troubles
    \/ Trouble /\ UNCHANGED dirs

\* The backup is never closed: the next step takes its place.
BetweenSteps == ~open \/ (step = BackupStep /\ backedUp)

StartStep(p) ==
    /\ At(p, {"running"})
    /\ step < 6
    /\ BetweenSteps
    /\ step' = step + 1
    /\ open' = TRUE
    /\ Emit("start", step + 1)
    /\ UNCHANGED <<schema, stage, rows, requested, backedUp, error, status, lost>>

EndStep(p) ==
    /\ At(p, {"running"})
    /\ open /\ step # BackupStep
    /\ step = ValidateStep => requested.verdict = "allow"
    /\ step = ChecksumStep => step \notin requested.checks
    /\ open' = FALSE
    /\ Emit("ok", step)
    /\ UNCHANGED <<schema, stage, rows, requested, step, backedUp, error, status, lost>>

BackUpStep(p) ==
    /\ At(p, {"running"})
    /\ open /\ step = BackupStep /\ ~backedUp
    /\ backedUp' = TRUE
    /\ UNCHANGED <<schema, stage, rows, dirs, requested, step, open, error, status, lost, troubles>>

Raise(p, e) ==
    /\ error' = e
    /\ Proceeds(p, "raised")

\* What the step looks at is not as it should be.  (The event of a checksum that does not fit
\* is ended before the error is raised: the same event as the one the handler writes.)
StepFails(p) ==
    /\ At(p, {"running"})
    /\ open
    /\ step \in requested.checks \/ (step = ValidateStep /\ requested.verdict # "allow")
    /\ Raise(p, step)
    /\ UNCHANGED <<schema, rows, dirs, requested, step, open, backedUp, status, lost, troubles>>

\* An error anywhere in the try, the report and the last update included.
Breaks(p) ==
    /\ At(p, {"running", "reported"})
    /\ Trouble
    /\ Raise(p, OtherError)
    /\ UNCHANGED <<schema, rows, dirs, requested, step, open, backedUp, status, lost>>

-----------------------------------------------------------------------------
(* The end of an execution                                                 *)

\* execution.json is opened for writing, which empties it.
Report(s) == dirs' = [dirs EXCEPT ![Newest].report = s]

Ready(p) == At(p, {"running"}) /\ step = 6 /\ ~open

WriteReport(p) ==
    /\ Ready(p)
    /\ Report("completed")
    /\ Proceeds(p, "reported")
    /\ UNCHANGED <<schema, rows, requested, step, open, backedUp, error, status, lost, troubles>>

TearReport(p) ==
    /\ Ready(p)
    /\ Trouble
    /\ Report("torn")
    /\ Raise(p, OtherError)
    /\ UNCHANGED <<schema, rows, requested, step, open, backedUp, status, lost>>

Close(s, e) == rows' = [rows EXCEPT ![Newest] = [@ EXCEPT !.status = s, !.error = e,
                                                           !.undone = s = "rolled_back"]]

CloseRow(p) ==
    /\ At(p, {"reported"})
    /\ Close("completed", NoError)
    /\ Leaves(p, "up")
    /\ UNCHANGED <<schema, dirs, lost, troubles>>

\* A slip: also a step that has been ended.
EndsAgain(p) ==
    /\ At(p, {"raised"})
    /\ Emit("failed", step)
    /\ open' = FALSE
    /\ Proceeds(p, "failing")
    /\ UNCHANGED <<schema, rows, requested, step, backedUp, error, status, lost>>

\* The handler ends the event of the step that was running, if one was.
EndFailedStep(p) ==
    /\ At(p, {"raised"})
    /\ IF open THEN Emit("failed", step) ELSE UNCHANGED <<dirs, troubles>>
    /\ open' = FALSE
    /\ Proceeds(p, "failing")
    /\ UNCHANGED <<schema, rows, requested, step, backedUp, error, status, lost>>

\* The rollback may fail, and there is none without a backup; an error after it leaves the
\* status it has set.
RollBack(p) ==
    /\ At(p, {"failing"})
    /\ \/ backedUp /\ status' = "rolled_back" /\ UNCHANGED troubles
       \/ ~backedUp /\ status' = "failed" /\ UNCHANGED troubles
       \/ backedUp /\ Trouble /\ status' \in Failed
    /\ Proceeds(p, "reporting")
    /\ UNCHANGED <<schema, rows, dirs, requested, step, open, backedUp, error, lost>>

ReportFailure(p) ==
    /\ At(p, {"reporting"})
    /\ Report(status)
    /\ Proceeds(p, "closing")
    /\ UNCHANGED <<schema, rows, locals, lost, troubles>>

\* A slip: the row is closed although the report could not be written.
ClosesAnyway(p) ==
    /\ At(p, {"failing", "reporting", "closing"})
    /\ Trouble
    /\ IF stage[p] = "failing" THEN UNCHANGED rows ELSE Close(status, error)
    /\ Leaves(p, "up")
    /\ lost' = IF stage[p] = "failing" THEN lost \cup {Newest} ELSE lost
    /\ UNCHANGED <<schema, dirs>>

\* Nothing catches an error of the handler: the row stays pending.
HandlerBreaks(p) ==
    /\ At(p, {"failing", "reporting", "closing"})
    /\ Trouble
    /\ IF stage[p] = "reporting" THEN Report("torn") ELSE UNCHANGED dirs
    /\ Leaves(p, "up")
    /\ lost' = lost \cup {Newest}
    /\ UNCHANGED <<schema, rows>>

CloseFailedRow(p) ==
    /\ At(p, {"closing"})
    /\ Close(status, error)
    /\ Leaves(p, "up")
    /\ UNCHANGED <<schema, dirs, lost, troubles>>

-----------------------------------------------------------------------------
(* The API, and processes that die                                         *)

\* artifacts_complete: the four files are there.
Complete(e) == dirs[e].inputs = 3 /\ dirs[e].report # "none"

\* The replay reads them, too.
Replayable(e) == Complete(e) /\ dirs[e].report # "torn"

HasPlan(e) == dirs[e].inputs > 0

Proposal(e) ==
    LET best == Evidence(rows, e)
    IN  [evidence |-> best, plan |-> best # None /\ HasPlan(best)]

SuggestRepair(p) ==
    /\ At(p, {"up"})
    /\ \E e \in WithStatus(rows, Failed) :
         dirs' = [dirs EXCEPT ![e].repair = Proposal(e)]
    /\ UNCHANGED <<schema, stage, rows, locals, lost, troubles>>

MayTear == Report("torn") \/ UNCHANGED dirs

\* A process dies; its lock is cleaned up before another execution.
ProcessDies(p) ==
    /\ At(p, Migrating \cup Executing)
    /\ Trouble
    /\ torn' = (torn \/ column[p] > 1)
    /\ column' = [column EXCEPT ![p] = 1]
    /\ lost' = IF At(p, Executing \ {"preparing"}) THEN lost \cup {Newest} ELSE lost
    /\ IF At(p, {"reporting"}) \/ Ready(p) THEN MayTear ELSE UNCHANGED dirs
    /\ IF At(p, Executing) THEN Leaves(p, "down") ELSE Proceeds(p, "down") /\ UNCHANGED locals
    /\ UNCHANGED <<columns, version, rows>>

Migrate(p) == Inspect(p) \/ AddColumn(p) \/ RecordVersion(p) \/ MigrationFails(p)

Prepare(p) == WriteInput(p) \/ InsertRoot(p) \/ InsertChild(p) \/ NeverStarts(p)

Try(p) ==
    \/ StartStep(p) \/ EndStep(p) \/ BackUpStep(p) \/ StepFails(p) \/ Breaks(p)
    \/ WriteReport(p) \/ TearReport(p) \/ CloseRow(p)

Handle(p) ==
    \/ EndFailedStep(p) \/ RollBack(p) \/ ReportFailure(p)
    \/ HandlerBreaks(p) \/ CloseFailedRow(p)

Work(p) == Migrate(p) \/ Prepare(p) \/ Try(p) \/ Handle(p)

RecordsNext ==
    \E p \in Procs : Open(p) \/ Work(p) \/ BeginExecution(p) \/ SuggestRepair(p) \/ ProcessDies(p)

RecordsSpec == RecordsInit /\ [][RecordsNext]_recordsVars

-----------------------------------------------------------------------------
(* Properties                                                              *)

\* Every variable keeps its domain.
RecordsTypeOK ==
    /\ columns \subseteq AllColumns /\ version \in {0, 1}
    /\ stage \in [Procs -> {"down", "up"} \cup Migrating \cup Executing]
    /\ column \in [Procs -> 1..4]
    /\ rows \in Seq(Row \cup {None}) /\ dirs \in Seq(Dir) /\ Len(dirs) = Len(rows)
    /\ requested \in Requests /\ step \in 0..6 /\ open \in BOOLEAN /\ backedUp \in BOOLEAN
    /\ error \in {NoError} \cup Errors /\ status \in {"pending"} \cup Failed
    /\ torn \in BOOLEAN /\ lost \subseteq DOMAIN rows
    /\ troubles \in 0..MaxEvents

\* An execution whose row says how it ended can be replayed: its directory holds
\* the three inputs and a report that says the same, also when the success was reported first
\* and the last update then failed.
EndedIsReported ==
    \A e \in WithStatus(rows, Ended) :
        Replayable(e) /\ dirs[e].report = rows[e].status

\* The rows that count neither as completed nor as failed are the execution under way and
\* those whose process died or whose handler could not write.
PendingIsOpen ==
    LET s == Statistics(rows)
    IN  s.total - s.completed - s.failed
            = Cardinality(lost) + (IF Busy /\ rows[Newest] # None THEN 1 ELSE 0)

\* The three together: table and directories fit each other.
RowsFitDirectories == RecordsTypeOK /\ EndedIsReported /\ PendingIsOpen

\* The events of an execution tell one story even if some are lost: steps in their order,
\* each ended at most once and after its start, nothing after a failure, and no failure in
\* an execution that completed.
EventsInOrder ==
    \A e \in DOMAIN dirs : LET events == dirs[e].events IN
        /\ \A i, j \in DOMAIN events : i < j =>
              \/ events[i].step < events[j].step
              \/ events[i].step = events[j].step /\ events[i].kind = "start" /\ events[j].kind # "start"
        /\ \A i \in DOMAIN events : events[i].kind = "failed" =>
              i = Len(events) /\ (rows[e] # None => rows[e].status # "completed")

\* A repair that was written refers to an execution of another chain that completed and is
\* similar enough, whatever ended since.
RepairIsGrounded ==
    \A e \in DOMAIN dirs : dirs[e].repair # None =>
        LET x == dirs[e].repair.evidence
        IN  x # None => /\ rows[x].status = "completed"
                        /\ rows[x].chain # rows[e].chain
                        /\ Score(rows[e], rows[x]) >= Threshold

\* What is an ancestor of an execution lists it among its descendants.
AncestorsListIt ==
    \A e \in Recorded(rows) : \A a \in Lineage(rows, e, 2).ancestors : e \in Descendants(rows, a, 2)

\* So does a parent that lists one level only; descendants stay in the chain and have what
\* they descend from among their ancestors; siblings are siblings of each other, and
\* the way up ends at the root of the chain.
KinAgree ==
    \A e \in Recorded(rows) :
        LET lineage == Lineage(rows, e, 2)
        IN  /\ \A a \in Ancestors(rows, e, 1) : e \in Descendants(rows, a, 1)
            /\ \A d \in lineage.descendants :
                  rows[d].chain = rows[e].chain /\ e \in Ancestors(rows, d, Newest)
            /\ \A s \in lineage.siblings : e \in Siblings(rows, s)
            /\ Root(rows, rows[e].chain) \in {e} \cup Ancestors(rows, e, Newest)

\* The three look-ups and the root agree about who is related to whom.
LineageAgrees == AncestorsListIt /\ KinAgree

\* The recorded version means that the table has its columns, unless a process is still
\* adding them or a migration was left half way; and where a column is missing no execution
\* gets further than its directory.
VersionIsEarned ==
    /\ version = 1 => columns = AllColumns \/ torn \/ \E p \in Procs : At(p, {"altering"})
    /\ Recorded(rows) # {} => columns = AllColumns
=============================================================================
