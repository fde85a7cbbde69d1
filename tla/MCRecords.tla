------------------------------ MODULE MCRecords ------------------------------
(* Governance and ExecutionRecords share no variable, so that what holds   *)
(* of each alone holds of both: either moves while the other is at rest.   *)
EXTENDS Governance, ExecutionRecords

Request(kinds, components) ==
    [score |-> [k \in 1..7 |-> IF k \in kinds THEN 1 ELSE 0], components |-> components, modifies |-> FALSE]

\* "document the writegate" and "fix and investigate the memory".
Intents == {Request({4}, {"governance"}), Request({1, 6}, {"memory"})}

\* With it come the plans of the planner, which ask for health checks they do not have.
Forms == {[risk |-> 0, rollback |-> TRUE, verification |-> TRUE, health |-> FALSE]}

Edit(item, path, delta) == [item |-> item, path |-> path, delete |-> FALSE, delta |-> delta]
Removal(item, path) == [item |-> item, path |-> path, delete |-> TRUE, delta |-> -10]

ChangeSets == {{Edit(1, "plain", 1)},
               {Edit(1, "plain", 1), Edit(2, "service", 501)},
               {Edit(1, "plain", 1), Edit(2, "service", 501), Removal(3, "plain")},
               {Edit(1, "sql", 2)}}

Strict == [forbidden |-> {"policy", "plain"}, triggers |-> {}]
Policies == {[forbidden |-> {"policy"}, triggers |-> {"service"}], Strict}

Alike == [pair \in Errors \X Errors |-> IF pair[1] = pair[2] THEN 10 ELSE 2]

Wanted == {[paths |-> {"a"}, verdict |-> "allow", checks |-> {5}],
           [paths |-> {"b"}, verdict |-> "allow", checks |-> {2}],
           [paths |-> {"a", "b"}, verdict |-> "need_approval", checks |-> {6}]}

EitherInit == Init /\ RecordsInit

EitherNext ==
    \/ RecordsInit /\ Next /\ UNCHANGED recordsVars
    \/ Init /\ file = Strict /\ RecordsNext /\ UNCHANGED vars

EitherSpec == EitherInit /\ [][EitherNext]_<<vars, recordsVars>>
=============================================================================
