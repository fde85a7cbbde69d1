----------------------------- MODULE AgentLoop -----------------------------
(***************************************************************************)
(* An agent_loop_turn run (the parent) that has code executed by child     *)
(* runs: the worker asks core-api for the next step, creates the child,    *)
(* suspends the parent and goes on to other runs; when the child is done,  *)
(* core-api should put the parent back into the queue; when the parent is  *)
(* done, core-api writes the task_done message.                            *)
(*                                                                         *)
(* RunQueue models leases and claims in detail; here a RUNNING row's lease *)
(* may simply run out at any time.  core-api's handlers run on one event   *)
(* loop and have no suspension point, so each is one step; the worker is a *)
(* process of its own, and each of its calls is one step.                  *)
(*                                                                         *)
(* Code: apps/agent-worker/worker/{runner,main,queue}.py,                  *)
(* apps/core-api/app/api/internal.py and app/services/run_messages.py.     *)
(***************************************************************************)
EXTENDS Integers, FiniteSets

CONSTANTS
    Parents,        \* agent_loop_turn runs
    Children,       \* ids for the run_code_snippet runs that turns create
    Workers,
    None,           \* no run: nothing in hand, no child, no parent
    MaxAttempts,    \* RUN_MAX_ATTEMPTS
    MaxFaults       \* bound: crashes and lost answers in a behaviour

ASSUME AgentLoopAssumption ==
    /\ Parents \cap Children = {}
    /\ None \notin Parents \cup Children
    /\ MaxAttempts \in Nat \ {0}
    /\ MaxFaults \in Nat

Runs == Parents \cup Children

VARIABLES
    status,     \* of each row; "ABSENT" before POST /runs
    expired,    \* the lease of a RUNNING row has run out
    attempt,    \* claims of the row, counted up to MaxAttempts + 1
    childOf,    \* input_json.parent_run_id of a child
    output,     \* what a parent's output_json says about waiting
    overdue,    \* the parent's updated_at is more than 600 s back
    messages,   \* run_done messages about a parent in its conversation
    pc,         \* where a worker's iteration stands
    job,        \* the run it works on
    child,      \* the child it has just created
    outcome,    \* which complete_* call comes next
    tries,      \* calls of emit-message so far
    faults

rows   == <<status, expired, attempt, childOf, output, overdue, messages>>
locals == <<pc, job, child, outcome, tries>>
vars   == <<rows, locals, faults>>

Final     == {"SUCCEEDED", "FAILED", "CANCELED"}
Statuses  == {"ABSENT", "QUEUED", "RUNNING", "WAITING_CHILD"} \cup Final
Positions == {"idle", "down", "step", "create", "yield", "body", "finishing", "emitting"}

\* output_json as the two ends of the wait see it: `waiting` is the record that
\* yield-waiting-child writes, `state` and `waiting_child_run_id` are the
\* top-level keys that the wake of a parent reads.
NoOutput    == [waiting |-> None, state |-> "none", waiting_child_run_id |-> None]
Waiting(p)  == output[p].waiting

Init ==
    /\ status = [r \in Runs |-> "ABSENT"]
    /\ expired = [r \in Runs |-> FALSE]
    /\ attempt = [r \in Runs |-> 0]
    /\ childOf = [c \in Children |-> None]
    /\ output = [p \in Parents |-> NoOutput]
    /\ overdue = [p \in Parents |-> FALSE]
    /\ messages = [p \in Parents |-> 0]
    /\ pc = [w \in Workers |-> "idle"]
    /\ job = [w \in Workers |-> None]
    /\ child = [w \in Workers |-> None]
    /\ outcome = [w \in Workers |-> "none"]
    /\ tries = [w \in Workers |-> 0]
    /\ faults = 0

-----------------------------------------------------------------------------
(* Users.                                                                  *)

\* A message of the user that needs code: the conversation creates the turn.
CreateTurn(p) ==
    /\ status[p] = "ABSENT"
    /\ status' = [status EXCEPT ![p] = "QUEUED"]
    /\ UNCHANGED <<expired, attempt, childOf, output, overdue, messages, locals, faults>>

\* POST /runs/{id}/cancel.  It announces nothing and wakes nobody.
CancelRun(r) ==
    /\ status[r] \in {"QUEUED", "RUNNING"}
    /\ status' = [status EXCEPT ![r] = "CANCELED"]
    /\ UNCHANGED <<expired, attempt, childOf, output, overdue, messages, locals, faults>>

-----------------------------------------------------------------------------
(* The worker.                                                             *)

Leave(w, position) ==
    /\ pc' = [pc EXCEPT ![w] = position]
    /\ job' = [job EXCEPT ![w] = None]
    /\ child' = [child EXCEPT ![w] = None]
    /\ outcome' = [outcome EXCEPT ![w] = "none"]
    /\ tries' = [tries EXCEPT ![w] = 0]

GoTo(w, position) ==
    /\ pc' = [pc EXCEPT ![w] = position]
    /\ UNCHANGED <<job, child, outcome, tries>>

Conclude(w, o) ==
    /\ pc' = [pc EXCEPT ![w] = "finishing"]
    /\ outcome' = [outcome EXCEPT ![w] = o]
    /\ UNCHANGED <<job, child, tries>>

Fault == faults < MaxFaults /\ faults' = faults + 1

\* Fetch and claim: a queued row, or one whose lease ran out.  Beyond the limit
\* of attempts the run is failed without being executed.
Claim(w, r) ==
    /\ pc[w] = "idle"
    /\ status[r] = "QUEUED" \/ (status[r] = "RUNNING" /\ expired[r])
    /\ status' = [status EXCEPT ![r] = "RUNNING"]
    /\ expired' = [expired EXCEPT ![r] = FALSE]
    /\ attempt' = [attempt EXCEPT ![r] = IF @ > MaxAttempts THEN @ ELSE @ + 1]
    /\ job' = [job EXCEPT ![w] = r]
    /\ \/ /\ attempt[r] >= MaxAttempts
          /\ pc' = [pc EXCEPT ![w] = "finishing"]
          /\ outcome' = [outcome EXCEPT ![w] = "exceeded"]
       \/ /\ attempt[r] < MaxAttempts
          /\ pc' = [pc EXCEPT ![w] = IF r \in Parents THEN "step" ELSE "body"]
          /\ UNCHANGED outcome
    /\ UNCHANGED <<childOf, output, overdue, messages, child, tries, faults>>

\* A child's code ran, or could not be run.
ChildEnds(w) ==
    /\ pc[w] = "body"
    /\ \E o \in {"success", "failed"} : Conclude(w, o)
    /\ UNCHANGED <<rows, faults>>

\* POST orchestration-step for a parent with no waiting record: the decision is
\* a reply, a child to run, or no usable answer.  Step numbers play no part:
\* the worker reads input_json.agent_loop, which nobody writes, so that every
\* step is step 0.
AskStep(w) ==
    /\ pc[w] = "step"
    /\ Waiting(job[w]) = None
    /\ Conclude(w, "success") \/ Conclude(w, "failed") \/ GoTo(w, "create")
    /\ UNCHANGED <<rows, faults>>

\* The parent waits already: leave it to its child.
AskStepWaits(w) ==
    /\ pc[w] = "step"
    /\ Waiting(job[w]) # None
    /\ ~overdue[job[w]]
    /\ Leave(w, "idle")
    /\ UNCHANGED <<rows, faults>>

\* It has waited for more than 600 s: forget the child, reply.
AskStepOverdue(w) ==
    LET p == job[w] IN
    /\ pc[w] = "step"
    /\ Waiting(p) # None
    /\ overdue[p]
    /\ output' = [output EXCEPT ![p] = NoOutput]
    /\ overdue' = [overdue EXCEPT ![p] = FALSE]
    /\ Conclude(w, "success")
    /\ UNCHANGED <<status, expired, attempt, childOf, messages, faults>>

\* A new run gets an id that no run has (uuid4); which one makes no difference.
FreshId ==
    LET unused == {c \in Children : status[c] = "ABSENT"}
    IN  IF unused = {} THEN {} ELSE {CHOOSE c \in unused : TRUE}

\* A slip: the request is sent again when its answer is lost.
CreateChildRetries(w) ==
    /\ pc[w] = "create"
    /\ \E c \in FreshId :
        /\ status' = [status EXCEPT ![c] = "QUEUED"]
        /\ childOf' = [childOf EXCEPT ![c] = job[w]]
        /\ \/ /\ pc' = [pc EXCEPT ![w] = "yield"]
              /\ child' = [child EXCEPT ![w] = c]
              /\ UNCHANGED <<job, outcome, tries, faults>>
           \/ Fault /\ GoTo(w, "create")
    /\ UNCHANGED <<expired, attempt, output, overdue, messages>>

\* POST /runs for the child.  If the answer is lost, the child is there but the
\* turn fails.
CreateChild(w) ==
    /\ pc[w] = "create"
    /\ \E c \in FreshId :
        /\ status' = [status EXCEPT ![c] = "QUEUED"]
        /\ childOf' = [childOf EXCEPT ![c] = job[w]]
        /\ \/ /\ pc' = [pc EXCEPT ![w] = "yield"]
              /\ child' = [child EXCEPT ![w] = c]
              /\ UNCHANGED <<job, outcome, tries, faults>>
           \/ Fault /\ Conclude(w, "failed")
    /\ UNCHANGED <<expired, attempt, output, overdue, messages>>

\* The request is refused or does not arrive.
CreateChildFails(w) ==
    /\ pc[w] = "create"
    /\ Conclude(w, "failed")
    /\ UNCHANGED <<rows, faults>>

Suspended(c) == [NoOutput EXCEPT !.waiting = c]

\* Slips in yield-waiting-child: the 409 is forgotten; the worker stays with
\* the parent until the child is done, as execute-orchestration would.
YieldUnchecked(w) ==
    LET p == job[w] IN
    /\ pc[w] = "yield"
    /\ status' = [status EXCEPT ![p] = "WAITING_CHILD"]
    /\ output' = [output EXCEPT ![p] = Suspended(child[w])]
    /\ overdue' = [overdue EXCEPT ![p] = FALSE]
    /\ \/ Leave(w, "idle") /\ UNCHANGED faults
       \/ Fault /\ Conclude(w, "failed")
    /\ UNCHANGED <<expired, attempt, childOf, messages>>

YieldKeepsWorker(w) ==
    LET p == job[w] IN
    /\ pc[w] = "yield"
    /\ status' = [status EXCEPT ![p] = "WAITING_CHILD"]
    /\ output' = [output EXCEPT ![p] = Suspended(child[w])]
    /\ overdue' = [overdue EXCEPT ![p] = FALSE]
    /\ IF status[child[w]] \in Final THEN Leave(w, "idle") ELSE UNCHANGED locals
    /\ UNCHANGED <<expired, attempt, childOf, messages, faults>>

\* POST yield-waiting-child: whatever the parent's status, it is set to wait and
\* the worker is done with it.  If the answer is lost, the worker fails the
\* parent.
Yield(w) ==
    LET p == job[w] IN
    /\ pc[w] = "yield"
    /\ Waiting(p) = None
    /\ status' = [status EXCEPT ![p] = "WAITING_CHILD"]
    /\ output' = [output EXCEPT ![p] = Suspended(child[w])]
    /\ overdue' = [overdue EXCEPT ![p] = FALSE]
    /\ \/ Leave(w, "idle") /\ UNCHANGED faults
       \/ Fault /\ Conclude(w, "failed")
    /\ UNCHANGED <<expired, attempt, childOf, messages>>

\* 409: the parent waits for another child.
YieldRefused(w) ==
    /\ pc[w] = "yield"
    /\ Waiting(job[w]) \notin {None, child[w]}
    /\ Conclude(w, "failed")
    /\ UNCHANGED <<rows, faults>>

\* complete_success or complete_failed: by id, whatever the row says now.  A run over the
\* limit is failed without an output_json, so that the old one stays.
Complete(w) ==
    LET r == job[w] IN
    /\ pc[w] = "finishing"
    /\ status' = [status EXCEPT ![r] = IF outcome[w] = "success" THEN "SUCCEEDED" ELSE "FAILED"]
    /\ output' = [p \in Parents |-> IF p = r /\ outcome[w] # "exceeded" THEN NoOutput ELSE output[p]]
    /\ overdue' = [p \in Parents |-> overdue[p] /\ p # r]
    /\ GoTo(w, "emitting")
    /\ UNCHANGED <<expired, attempt, childOf, messages, faults>>

Crash(w) ==
    /\ pc[w] # "down"
    /\ Fault
    /\ Leave(w, "down")
    /\ UNCHANGED rows

Restart(w) ==
    /\ pc[w] = "down"
    /\ GoTo(w, "idle")
    /\ UNCHANGED <<rows, faults>>

-----------------------------------------------------------------------------
(* POST emit-message, called by a worker that completed a run, once more if *)
(* the first call fails.                                                   *)

\* After an answer 204, 400 or 404, or after the second call
Done(w) == Leave(w, "idle")

Again(w) ==
    IF tries[w] = 0
    THEN tries' = [tries EXCEPT ![w] = 1] /\ UNCHANGED <<pc, job, child, outcome>>
    ELSE Done(w)

\* Another worker's yield or claim made the row non-final again: 400.
EmitNotFinal(w) ==
    /\ pc[w] = "emitting"
    /\ status[job[w]] \notin Final
    /\ Done(w)
    /\ UNCHANGED <<rows, faults>>

\* A child is not announced; its parent is put back into the queue, if its
\* output_json has state = "WAIT_CHILD" and names this child at top level.
Wakes(c, p) == output[p].state = "WAIT_CHILD" /\ output[p].waiting_child_run_id = c

EmitForChild(w) ==
    LET c == job[w]
        p == childOf[c]
    IN
    /\ pc[w] = "emitting"
    /\ c \in Children
    /\ status[c] \in Final
    /\ status' = IF Wakes(c, p) THEN [status EXCEPT ![p] = "QUEUED"] ELSE status
    /\ output' = IF Wakes(c, p)
                 THEN [output EXCEPT ![p] = [@ EXCEPT !.state = "none", !.waiting_child_run_id = None]]
                 ELSE output
    /\ overdue' = [q \in Parents |-> overdue[q] /\ ~(q = p /\ Wakes(c, p))]
    /\ Done(w)
    /\ UNCHANGED <<expired, attempt, childOf, messages, faults>>

\* A turn gets its message unless it has one; the answer may be lost, and the
\* call is made again.
EmitForTurn(w) ==
    LET p == job[w] IN
    /\ pc[w] = "emitting"
    /\ p \in Parents
    /\ status[p] \in Final
    /\ status[p] # "SUCCEEDED" \/ messages[p] > 0
    /\ messages' = [messages EXCEPT ![p] = IF @ = 0 THEN 1 ELSE @]
    /\ \/ Done(w) /\ UNCHANGED faults
       \/ Fault /\ Again(w)
    /\ UNCHANGED <<status, expired, attempt, childOf, output, overdue>>

\* For a turn that succeeded, emit_run_message puts the text into `summary` and
\* then reads `content`: UnboundLocalError, answered with 500.
EmitForTurnRaises(w) ==
    /\ pc[w] = "emitting"
    /\ job[w] \in Parents
    /\ status[job[w]] = "SUCCEEDED"
    /\ messages[job[w]] = 0
    /\ Again(w)
    /\ UNCHANGED <<rows, faults>>

-----------------------------------------------------------------------------
(* Time.                                                                   *)

\* Neither a turn nor its child renews its lease: each calls the heartbeat once,
\* before RUN_HEARTBEAT_SECONDS have passed.
LeaseExpires(r) ==
    /\ status[r] = "RUNNING"
    /\ ~expired[r]
    /\ expired' = [expired EXCEPT ![r] = TRUE]
    /\ UNCHANGED <<status, attempt, childOf, output, overdue, messages, locals, faults>>

WaitGetsOverdue(p) ==
    /\ Waiting(p) # None
    /\ ~overdue[p]
    /\ overdue' = [overdue EXCEPT ![p] = TRUE]
    /\ UNCHANGED <<status, expired, attempt, childOf, output, messages, locals, faults>>

-----------------------------------------------------------------------------
Emit(w) == EmitNotFinal(w) \/ EmitForChild(w) \/ EmitForTurn(w) \/ EmitForTurnRaises(w)

TakeStep(w) ==
    \/ AskStep(w) \/ AskStepWaits(w) \/ AskStepOverdue(w)
    \/ CreateChild(w) \/ CreateChildFails(w)
    \/ Yield(w) \/ YieldRefused(w)

Progress(w) ==
    \/ \E r \in Runs : Claim(w, r)
    \/ TakeStep(w) \/ ChildEnds(w) \/ Complete(w) \/ Emit(w)

Next ==
    \/ \E p \in Parents : CreateTurn(p) \/ WaitGetsOverdue(p)
    \/ \E r \in Runs : CancelRun(r) \/ LeaseExpires(r)
    \/ \E w \in Workers : Progress(w) \/ Crash(w) \/ Restart(w)

Spec == Init /\ [][Next]_vars

\* Workers poll and finish what they started, one of them at least is started
\* again when all are dead, and leases run out.  Nothing is assumed of the users.
AllDown == \A w \in Workers : pc[w] = "down"

Fairness ==
    /\ \A w \in Workers : WF_vars(Progress(w))
    /\ WF_vars(AllDown /\ \E w \in Workers : Restart(w))
    /\ \A r \in Runs : SF_vars(\E w \in Workers : Claim(w, r))
    /\ \A r \in Runs : WF_vars(LeaseExpires(r))

FairSpec == Spec /\ Fairness

-----------------------------------------------------------------------------
(* Properties                                                              *)

\* Domains; a worker has a run in hand exactly while it is in an iteration.
TypeOK ==
    /\ status \in [Runs -> Statuses]
    /\ expired \in [Runs -> BOOLEAN]
    /\ attempt \in [Runs -> 0..(MaxAttempts + 1)]
    /\ childOf \in [Children -> Parents \cup {None}]
    /\ output \in [Parents -> [waiting : Children \cup {None},
                               state : {"none", "WAIT_CHILD"},
                               waiting_child_run_id : Children \cup {None}]]
    /\ overdue \in [Parents -> BOOLEAN]
    /\ messages \in [Parents -> Nat]
    /\ pc \in [Workers -> Positions]
    /\ job \in [Workers -> Runs \cup {None}]
    /\ child \in [Workers -> Children \cup {None}]
    /\ outcome \in [Workers -> {"none", "success", "failed", "exceeded"}]
    /\ tries \in [Workers -> {0, 1}]
    /\ faults \in 0..MaxFaults
    /\ \A w \in Workers : job[w] = None <=> pc[w] \in {"idle", "down"}

\* A turn has at most RUN_MAX_ATTEMPTS children, however often its lease runs
\* out, its worker dies or an answer is lost: each attempt creates at most one
\* (runner.py _handle_agent_loop_turn; a lost POST /runs is not repeated).
ChildrenWithinAttempts ==
    \A p \in Parents : Cardinality({c \in Children : childOf[c] = p}) <= MaxAttempts

\* While a parent waits for a child, no other child takes its place, although
\* two workers may have created one each (the 409 of yield-waiting-child).
WaitingChildIsKept ==
    [][\A p \in Parents : Waiting(p) # None => Waiting(p)' \in {Waiting(p), None}]_vars

\* A turn is announced at most once, although the call is repeated after a lost
\* answer and two workers may complete the same turn (emit_run_message).
AnnouncedOnce == \A p \in Parents : messages[p] <= 1

\* The three together: what core-api keeps of a turn fits the attempts made at it.
TurnFitsAttempts == TypeOK /\ ChildrenWithinAttempts /\ AnnouncedOnce

\* The children of a turn are all executed, even when one worker is left: a
\* waiting parent does not hold up the worker its child needs.
ChildrenEnd ==
    \A p \in Parents :
        (\E c \in Children : childOf[c] = p /\ status[c] \notin Final)
        ~> (\A c \in Children : childOf[c] = p => status[c] \in Final)

-----------------------------------------------------------------------------
(* What the documentation says and the code does not do.                   *)

\* docs/analysis-turn-flow-and-timeout.md:186: a child that ended wakes its
\* parent, which is not stuck in WAITING_CHILD for ever.
ParentsAreWoken ==
    \A p \in Parents, c \in Children :
        (status[p] = "WAITING_CHILD" /\ Waiting(p) = c /\ status[c] \in {"SUCCEEDED", "FAILED"})
        ~> status[p] # "WAITING_CHILD"

=============================================================================
