------------------------------ MODULE Planner ------------------------------
(***************************************************************************)
(* The planner (packages/planner): rules that turn a request into a kind   *)
(* of intent, tools, a risk and a form of plan, and the state machine of a *)
(* planning task with the tools each state allows.  There is no language   *)
(* model in it; the states after governance_check are left to whoever      *)
(* holds the context.                                                      *)
(***************************************************************************)
EXTENDS Integers, Sequences, FiniteSets

CONSTANT Intent   \* requests, as far as the keyword tables tell them apart

\* INTENT_KEYWORDS, in the order of the dictionary.
Kinds == <<"fix_bug", "add_feature", "refactor", "update_docs", "add_test", "investigate", "optimize">>
Component == {"memory", "governance", "agent", "api", "database", "ui"}

\* score: how many keywords of each kind the text holds; modifies: one of to, in, for, on.
ASSUME PlannerAssumption ==
    Intent \subseteq [score : [1..7 -> Nat], components : SUBSET Component, modifies : BOOLEAN]

-----------------------------------------------------------------------------
(* IntentDecomposer.                                                       *)

\* max() keeps the first of the kinds that score highest.
Kind(i) ==
    IF \A k \in 1..7 : i.score[k] = 0 THEN "unknown"
    ELSE Kinds[CHOOSE k \in 1..7 :
                 \A j \in 1..7 : i.score[j] <= i.score[k] /\ (i.score[j] = i.score[k] => k <= j)]

NeedsAnalysis(i) ==
    CASE Kind(i) = "add_feature" -> i.modifies
      [] Kind(i) \in {"update_docs", "add_test"} -> FALSE
      [] OTHER -> TRUE

Requirements(i) ==
    CASE Kind(i) = "fix_bug"     -> {"read_code", "trace_flow", "check_tests"}
      [] Kind(i) = "add_feature" -> {"read_code", "review_docs"}
      [] Kind(i) = "refactor"    -> {"read_code", "check_tests"}
      [] Kind(i) = "investigate" -> {"read_code", "search_pattern", "trace_flow"}
      [] Kind(i) = "optimize"    -> {"read_code", "trace_flow"}
      [] OTHER -> {}

ToolsFor(requirement) ==
    CASE requirement = "read_code"      -> {"read_file", "list_directory"}
      [] requirement = "search_pattern" -> {"grep", "glob"}
      [] requirement = "trace_flow"     -> {"read_file", "grep"}
      [] requirement = "check_tests"    -> {"glob", "read_file"}
      [] requirement = "review_docs"    -> {"read_file"}

AnalysisTools(i) == IF NeedsAnalysis(i) THEN UNION {ToolsFor(r) : r \in Requirements(i)} ELSE {}

PlanningTools == {"generate_diff", "compute_checksum"}

\* A slip: the kind of the intent is looked at before the components.
RiskByKind(i) ==
    IF Kind(i) \in {"update_docs", "add_test"} THEN 0
    ELSE IF i.components \cap {"governance", "database"} # {} THEN 2 ELSE 1

\* Levels are low, medium, high, critical: 0..3.
EstimatedRisk(i) ==
    IF i.components \cap {"governance", "database"} # {} THEN 2
    ELSE IF Kind(i) \in {"update_docs", "add_test"} THEN 0 ELSE 1

-----------------------------------------------------------------------------
(* RiskShaper, over classes of paths: its patterns name sources of the     *)
(* services and files of the database, and match no component's name.      *)

HealthChecks(paths) == paths \cap {"service", "sql"}

\* The rollback and verification plans are never empty; the orchestrator hands the shaper
\* the names of components where it expects paths.
PlanFor(i) == [risk |-> EstimatedRisk(i), rollback |-> TRUE, verification |-> TRUE,
               health |-> HealthChecks(i.components) # {}]

\* The placeholder updates the first component, or <to_be_determined>.
Placeholder == {[item |-> 1, path |-> "plain", delete |-> FALSE, delta |-> 0]}

-----------------------------------------------------------------------------
(* PlannerStateMachine.                                                    *)

States == {"intent", "analysis", "plan_generation", "governance_check", "execution_ready",
           "completed", "failed"}

ValidTransitions(s) ==
    CASE s = "intent" -> {"analysis", "plan_generation", "failed"}
      [] s = "analysis" -> {"plan_generation", "analysis", "failed"}
      [] s = "plan_generation" -> {"governance_check", "analysis", "failed"}
      [] s = "governance_check" -> {"execution_ready", "plan_generation", "failed"}
      [] s = "execution_ready" -> {"completed", "failed"}
      [] OTHER -> {}

AllowedTools(s) ==
    CASE s = "analysis" -> {"read_file", "list_directory", "grep", "glob", "web.search", "web.fetch",
                            "memory.list_facts", "memory.query"}
      [] s = "plan_generation" -> {"read_file", "list_directory", "grep", "glob", "generate_diff",
                                   "compute_checksum"}
      [] s = "governance_check" -> {"governance.evaluate", "governance.get_decision"}
      [] OTHER -> {}

\* The states create_plan_from_intent goes through, by transition(), before it returns.
Planned(i) ==
    IF NeedsAnalysis(i) THEN <<"intent", "analysis", "plan_generation", "governance_check">>
    ELSE <<"intent", "plan_generation", "governance_check">>

\* The request, and state_history with the first state before it; the last is the current one.
\* The plan of a context is a function of its request.
Context == [intent : Intent, states : Seq(States)]
State(c) == c.states[Len(c.states)]
=============================================================================
