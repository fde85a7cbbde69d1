---------------------------- MODULE Governance ----------------------------
(***************************************************************************)
(* Plans, changesets, decisions and approvals (api/governance.py over      *)
(* packages/governance), the WriteGate that judges them by the policies it *)
(* read when it was made.                                                  *)
(* Clients carry plans, changesets and decisions from one to the other:    *)
(* what the planner makes is stored only if a client sends it.  A handler  *)
(* has no await: it is one step.  The tables are sequences, in the order   *)
(* of their timestamps.                                                    *)
(***************************************************************************)
EXTENDS Planner, FiniteSetsExt

CONSTANTS
    Form,      \* plans that clients write themselves, as far as WriteGate looks at them
    Changes,   \* lists of changes that clients propose
    Policy,    \* contents of agent/policies/default.yaml
    MaxRows,   \* of the four tables together
    MaxStates, \* of a planning task
    MaxEdits,  \* edits of the policies
    Null

\* A path stands for the patterns its text matches: nothing resolves it before.
Paths == {"plain", "policy", "service", "migration", "sql"}

\* A list is the set of its items, each with its place.
Change == [item : Nat, path : Paths, delete : BOOLEAN, delta : Int]
Plan == [risk : 0..3, rollback : BOOLEAN, verification : BOOLEAN, health : BOOLEAN]
Critical == {"policy", "service", "migration"}
Schema == {"migration", "sql"}

ASSUME GovernanceAssumption ==
    /\ Form \subseteq Plan
    /\ Changes \subseteq SUBSET Change
    /\ \A c \in Changes : IsFiniteSet(c)
    /\ Policy \subseteq [forbidden : SUBSET Paths, triggers : SUBSET Paths]
    /\ Null \notin Context
    /\ {MaxRows, MaxStates, MaxEdits} \subseteq Nat

VARIABLES
    file,       \* agent/policies/default.yaml now
    policies,   \* what WriteGate parsed of it
    snapshot,   \* the content that policy_snapshot_hash is of
    late,       \* history: the file was edited between the two reads
    plans, csets, decisions, approvals,  \* the tables
    context,    \* of the planning task, Null before
    edits

gate == <<policies, snapshot, late>>
tables == <<plans, csets, decisions, approvals>>
disk == <<file, edits>>
vars == <<gate, tables, disk, context>>

Rows(table) == 1..Len(table)
Verdicts == {"allow", "need_approval", "deny"}
ChangeSet == [plan : Nat, changes : Changes \cup {Placeholder}]
Decision == [plan : Nat, cset : Nat, verdict : Verdicts, risk : 0..3, policy : Policy, late : BOOLEAN]
Approval == [plan : Nat, decision : Nat]

Init ==
    /\ file \in Policy
    /\ policies = file /\ snapshot = file /\ late = FALSE
    /\ plans = <<>> /\ csets = <<>> /\ decisions = <<>> /\ approvals = <<>>
    /\ context = Null
    /\ edits = 0

-----------------------------------------------------------------------------
(* WriteGate.evaluate.                                                     *)

Touches(changes, paths) == \E c \in changes : c.path \in paths

\* line_count_delta is the caller's: a file rewritten at its old length counts nothing.
TotalLines(changes) == MapThenSumSet(LAMBDA c : IF c.delta < 0 THEN - c.delta ELSE c.delta, changes)

\* A slip: the level is set, whether it was higher or not.
SetTo(risk, to, cause) == IF cause THEN to ELSE risk

Climb(risk, to, cause) == IF cause /\ risk < to THEN to ELSE risk

EffectiveRisk(plan, changes) ==
    LET critical == Climb(plan.risk, 1, Touches(changes, Critical))
        large == Climb(critical, 2, TotalLines(changes) > 500)
        deleting == Climb(large, 1, \E c \in changes : c.delete)
    IN  Climb(deleting, 2, Touches(changes, Schema))

\* Health checks are asked for by the risk that was proposed, not by the effective one.
Gated(plan) == plan.rollback /\ plan.verification /\ (plan.risk >= 1 => plan.health)

Evaluate(plan, changes, policy) ==
    IF Touches(changes, policy.forbidden) THEN [verdict |-> "deny", risk |-> 3]
    ELSE LET risk == EffectiveRisk(plan, changes)
             asks == ~ Gated(plan) \/ risk >= 2 \/ Touches(changes, policy.triggers)
         IN  [verdict |-> IF asks THEN "need_approval" ELSE "allow", risk |-> risk]

-----------------------------------------------------------------------------
(* The policies.                                                           *)

EditPolicies ==
    /\ edits < MaxEdits /\ edits' = edits + 1
    /\ file' \in Policy \ {file}
    /\ UNCHANGED <<gate, tables, context>>

\* core-api starts again: WriteGate() parses the file, then reads it again for its hash,
\* and an edit may come between.
Restart ==
    /\ policies' = file
    /\ \/ UNCHANGED disk
       \/ edits < MaxEdits /\ edits' = edits + 1 /\ file' \in Policy \ {file}
    /\ snapshot' = file'
    /\ late' = (snapshot' # policies')
    /\ UNCHANGED <<tables, context>>

HasRoom == Len(plans) + Len(csets) + Len(decisions) + Len(approvals) < MaxRows

-----------------------------------------------------------------------------
(* The handlers.                                                           *)

CreatePlan(form) ==
    /\ HasRoom
    /\ plans' = Append(plans, form)
    /\ UNCHANGED <<disk, gate, csets, decisions, approvals, context>>

\* A task of the planner.  Its plan and changeset are returned and stored nowhere.
PlanFromIntent(i) ==
    /\ context = Null
    /\ context' = [intent |-> i, states |-> Planned(i)]
    /\ UNCHANGED <<disk, gate, tables>>

\* Whoever holds the context moves it on; no decision and no approval is asked for.
Transition(to) ==
    /\ context # Null /\ Len(context.states) < MaxStates
    /\ to \in ValidTransitions(State(context))
    /\ context' = [context EXCEPT !.states = Append(@, to)]
    /\ UNCHANGED <<disk, gate, tables>>

CreateChangeset(p, changes) ==
    /\ HasRoom
    /\ csets' = Append(csets, [plan |-> p, changes |-> changes])
    /\ UNCHANGED <<disk, gate, plans, decisions, approvals, context>>

DecisionOn(c, policy) ==
    LET p == csets[c].plan
        result == Evaluate(plans[p], csets[c].changes, policies)
    IN  [plan |-> p, cset |-> c, verdict |-> result.verdict, risk |-> result.risk,
         policy |-> policy, late |-> late]

\* A slip: the decision is stamped with the policies that are on the disk now.
EvaluateStampingFile(c) ==
    /\ HasRoom
    /\ decisions' = Append(decisions, DecisionOn(c, file))
    /\ UNCHANGED <<disk, gate, plans, csets, approvals, context>>

\* The changeset must be of the plan, and its checksum right.
EvaluateChangeset(c) ==
    /\ HasRoom
    /\ decisions' = Append(decisions, DecisionOn(c, snapshot))
    /\ UNCHANGED <<disk, gate, plans, csets, approvals, context>>

ApprovalOf(p) == {a \in Rows(approvals) : approvals[a].plan = p}

\* If the plan has an approval, of whichever decision, that one is the answer: nothing is
\* stored, and the verdict is not looked at.
ApprovePlan(p, d) ==
    /\ HasRoom
    /\ decisions[d].plan = p
    /\ ApprovalOf(p) = {}
    /\ decisions[d].verdict # "deny"
    /\ approvals' = Append(approvals, [plan |-> p, decision |-> d])
    /\ UNCHANGED <<disk, gate, plans, csets, decisions, context>>

Next ==
    \/ EditPolicies \/ Restart
    \/ \E form \in Form \cup {PlanFor(i) : i \in Intent} : CreatePlan(form)
    \/ \E i \in Intent : PlanFromIntent(i)
    \/ \E to \in States : Transition(to)
    \/ \E p \in Rows(plans), changes \in Changes \cup {Placeholder} : CreateChangeset(p, changes)
    \/ \E c \in Rows(csets) : EvaluateChangeset(c)
    \/ \E p \in Rows(plans), d \in Rows(decisions) : ApprovePlan(p, d)

Spec == Init /\ [][Next]_vars

-----------------------------------------------------------------------------
(* Properties.                                                             *)

\* Every row has the type its table declares and points at rows that are there.
TypeOK ==
    /\ file \in Policy /\ edits \in Nat
    /\ {policies, snapshot} \subseteq Policy /\ late \in BOOLEAN
    /\ plans \in Seq(Plan)
    /\ csets \in Seq(ChangeSet)
    /\ \A c \in Rows(csets) : csets[c].plan \in Rows(plans)
    /\ decisions \in Seq(Decision)
    /\ \A d \in Rows(decisions) :
         decisions[d].cset \in Rows(csets) /\ decisions[d].plan = csets[decisions[d].cset].plan
    /\ approvals \in Seq(Approval)
    /\ \A a \in Rows(approvals) :
         LET d == approvals[a].decision
         IN  d \in Rows(decisions) /\ approvals[a].plan = decisions[d].plan
    /\ context # Null => context \in Context /\ context.states # <<>>

\* A decision can be replayed: judging the stored plan and changeset by the policies its
\* hash names gives its verdict and its risk, whatever was edited or restarted since, unless
\* the file changed between the two reads of WriteGate() (writegate.py, evaluate).
DecisionsReplay ==
    \A d \in Rows(decisions) : ~ decisions[d].late =>
        LET row == decisions[d]
            again == Evaluate(plans[row.plan], csets[row.cset].changes, row.policy)
        IN  row.verdict = again.verdict /\ row.risk = again.risk

Severity(verdict) == CASE verdict = "allow" -> 0 [] verdict = "need_approval" -> 1 [] verdict = "deny" -> 2

\* A changeset that does more than another is never judged more mildly: with the same plan
\* and policies, a superset of changes gets at least the verdict and the risk of the subset
\* (the escalation chain of _check_risk_escalation only climbs).
MoreIsNeverMilder ==
    \A d, e \in Rows(decisions) :
        LET small == decisions[d]
            large == decisions[e]
        IN  /\ small.plan = large.plan /\ small.policy = large.policy
            /\ ~ small.late /\ ~ large.late
            /\ csets[small.cset].changes \subseteq csets[large.cset].changes
            => /\ Severity(small.verdict) <= Severity(large.verdict)
               /\ small.risk <= large.risk

\* A plan the planner made for a request about governance or the database is never allowed
\* without a human, whatever changeset comes with it and however the rest of the request
\* reads (_estimate_risk to _determine_verdict).
SensitiveNeedsApproval ==
    \A i \in Intent, d \in Rows(decisions) :
        i.components \cap {"governance", "database"} # {} /\ plans[decisions[d].plan] = PlanFor(i)
        => decisions[d].verdict # "allow"

\* The tables keep their types, and what is sensitive is left to a human.
GateIsKept == TypeOK /\ SensitiveNeedsApproval

\* Nothing stored is ever changed or removed: the tables only grow (storage.py).
AppendOnly == [][/\ \A r \in Rows(plans) : plans'[r] = plans[r]
                 /\ \A c \in Rows(csets) : csets'[c] = csets[c]
                 /\ \A d \in Rows(decisions) : decisions'[d] = decisions[d]
                 /\ \A a \in Rows(approvals) : approvals'[a] = approvals[a]]_tables
=============================================================================
