-------------------------- MODULE ExecutionHistory --------------------------
(***************************************************************************)
(* What is read from the executions table: statistics, similar executions  *)
(* and the success to repeat, and the graph of parents.  An execution is   *)
(* known by its place in the table, which is the order of started_at; an   *)
(* execution whose row was never inserted has None there.                  *)
(*                                                                         *)
(* Code: packages/executor/{storage,similarity}.py,                        *)
(*       apps/core-api/app/api/executions.py, scripts/suggest_repair.py    *)
(***************************************************************************)
EXTENDS Integers, Sequences, FiniteSets

CONSTANTS
    None,
    Requests,       \* what is executed: the paths, the verdict and the checks that do not hold or
                    \* may not: step 2 (checksum), step 5 (verification), step 6 (health)
    ErrorAlike,     \* how alike two error messages are, in tenths
    Limit,          \* how many similar executions are considered: 10
    Fan             \* descendants listed for each level of depth: 10

\* The last kind of message is the one of an error of the file system or of the database;
\* the others belong to the step that failed.
Errors == 1..7
NoError == 0

Ended == {"completed", "failed", "rolled_back"}
Failed == {"failed", "rolled_back"}

ASSUME HistoryAssumption ==
    /\ ErrorAlike \in [Errors \X Errors -> 0..10]
    /\ Limit \in Nat \ {0} /\ Fan \in Nat \ {0}
    /\ \A r \in Requests : IsFiniteSet(r.paths) /\ r.checks \subseteq {2, 5, 6}

Ids == Nat \ {0}

Row == [request : Requests, status : Ended \cup {"pending"}, error : {NoError} \cup Errors,
        undone : BOOLEAN, parent : Ids \cup {None}, chain : Ids]

Recorded(table) == {e \in DOMAIN table : table[e] # None}
WithStatus(table, statuses) == {e \in Recorded(table) : table[e].status \in statuses}

\* total_executions, and the two counts behind success_rate_percent.
Statistics(table) ==
    [total     |-> Cardinality(Recorded(table)),
     completed |-> Cardinality(WithStatus(table, {"completed"})),
     failed    |-> Cardinality(WithStatus(table, Failed))]

-----------------------------------------------------------------------------
(* Similarity, in twentieths: 0.5 for the message, 0.3 for the paths, 0.1  *)
(* for the status and 0.1 for the verdict.                                 *)

ErrorScore(a, b) ==
    IF a # NoError /\ b # NoError THEN ErrorAlike[<<a, b>>]
    ELSE IF a = NoError /\ b = NoError THEN 10 ELSE 0

PathScore(a, b) ==
    IF a \cup b = {} THEN 6 ELSE (6 * Cardinality(a \cap b)) \div Cardinality(a \cup b)

Same(a, b) == IF a = b THEN 2 ELSE 0

Score(a, b) ==
    ErrorScore(a.error, b.error) + PathScore(a.request.paths, b.request.paths)
        + Same(a.status, b.status) + Same(a.request.verdict, b.request.verdict)

Threshold == 6

\* The candidates that pass, from other chains.
Matches(table, e) ==
    {c \in Recorded(table) : /\ c # e
                             /\ table[c].chain # table[e].chain
                             /\ Score(table[e], table[c]) >= Threshold}

\* Best first; among equals the newer one, because the sort is stable.
Precedes(table, e, c, d) ==
    LET s == Score(table[e], table[c])
        t == Score(table[e], table[d])
    IN  s > t \/ (s = t /\ c > d)

\* find_similar_executions.
Similar(table, e) ==
    {c \in Matches(table, e) :
        Cardinality({d \in Matches(table, e) : Precedes(table, e, d, c)}) < Limit}

\* A slip: whatever is similar is taken for a success.
AnySimilar(table, e) == Similar(table, e)

\* The similar executions that completed, after the cut.
Successes(table, e) == Similar(table, e) \cap WithStatus(table, {"completed"})

Evidence(table, e) ==
    IF Successes(table, e) = {} THEN None
    ELSE CHOOSE c \in Successes(table, e) :
            \A d \in Successes(table, e) \ {c} : Precedes(table, e, c, d)

-----------------------------------------------------------------------------
(* The graph.  A parent has a row before its child has one, so the code's  *)
(* protection against cycles is not needed here.                           *)

Parent(table, e) == IF e = None THEN None ELSE table[e].parent
Children(table, e) == {c \in Recorded(table) : table[c].parent = e}

\* The way up: the execution, its parent, and so on as far as there are parents.
Upward(table, e) ==
    LET up[n \in 0..Len(table)] == IF n = 0 THEN e ELSE Parent(table, up[n - 1])
    IN  up

\* The first depth executions on the way up.
Ancestors(table, e, depth) ==
    {Upward(table, e)[n] : n \in (1..depth) \cap (1..Len(table))} \ {None}

ChildrenInOrder(table, e) ==
    LET children == Children(table, e)
    IN  CHOOSE line \in [1..Cardinality(children) -> children] :
            \A i, j \in DOMAIN line : i < j => line[i] < line[j]

\* Breadth first: the n-th look-up is for e and then for what was found, in that order.
\* The limit is compared with the number found before each look-up.
Search(table, e, depth) ==
    LET walk[n \in 0..Len(table)] ==
          IF n = 0 THEN <<>>
          ELSE LET found == walk[n - 1]
               IN  IF n > Len(found) + 1 \/ Len(found) >= depth * Fan THEN found
                   ELSE found \o ChildrenInOrder(table, (<<e>> \o found)[n])
    IN  walk

\* A slip: only the children of the first execution are looked up.
OneLevel(table, e, depth) == Children(table, e)

Descendants(table, e, depth) ==
    LET all == Search(table, e, depth)[Len(table)]
    IN  {all[i] : i \in 1..Len(all)}

Siblings(table, e) ==
    IF table[e].parent = None THEN {} ELSE Children(table, table[e].parent) \ {e}

Lineage(table, e, depth) ==
    [ancestors   |-> Ancestors(table, e, depth),
     descendants |-> Descendants(table, e, depth),
     siblings    |-> Siblings(table, e)]

Chain(table, chain) == {r \in Recorded(table) : table[r].chain = chain}

\* get_root_execution: the first row of the chain without a parent.
Root(table, chain) ==
    LET roots == {r \in Chain(table, chain) : table[r].parent = None}
    IN  IF roots = {} THEN None ELSE CHOOSE r \in roots : \A s \in roots : r <= s
=============================================================================
