-------------------------- MODULE AgentLoopProofs --------------------------
(***************************************************************************)
(* What holds of agent loop turns for any number of turns, children,       *)
(* workers, attempts and faults.                                           *)
(***************************************************************************)
EXTENDS AgentLoop, FiniteSetTheorems, TLAPS

\* Only a turn asks for steps and creates children.
InHand == \A w \in Workers : pc[w] \in {"step", "create", "yield"} => job[w] \in Parents

\* An id that no run has is nobody's child.
NoOrphans == \A c \in Children : status[c] = "ABSENT" => childOf[c] = None

Created(p) == {c \in Children : childOf[c] = p}

\* Workers that may still create a child for p.
Executing(p) == {w \in Workers : job[w] = p /\ pc[w] \in {"step", "create"}}

\* An attempt is used up by a worker that is at it, or by the child it made; the claim
\* beyond the limit executes nothing.  Counting the children alone is not inductive: a
\* worker about to create one would not be seen.
Budget ==
    \A p \in Parents :
        /\ IsFiniteSet(Created(p)) /\ IsFiniteSet(Executing(p))
        /\ Cardinality(Created(p)) + Cardinality(Executing(p)) <= attempt[p]
        /\ Cardinality(Created(p)) + Cardinality(Executing(p)) <= MaxAttempts

IInv == TypeOK /\ InHand /\ NoOrphans /\ AnnouncedOnce /\ Budget

-----------------------------------------------------------------------------
(* The invariant.                                                          *)

Output == [waiting : Children \cup {None}, state : {"none", "WAIT_CHILD"},
           waiting_child_run_id : Children \cup {None}]

\* What waking a parent leaves of output_json, for a child that has none, too.
LEMMA WokenOutput ==
    ASSUME output \in [Parents -> Output], NEW p,
           \/ output' = [output EXCEPT ![p] = [@ EXCEPT !.state = "none", !.waiting_child_run_id = None]]
           \/ output' = output
    PROVE  output' \in [Parents -> Output]
<1>1. CASE p \in Parents
  <2> DEFINE o == [output[p] EXCEPT !.state = "none", !.waiting_child_run_id = None]
  <2>1. o \in Output
    BY <1>1 DEF Output
  <2>2. output' = [output EXCEPT ![p] = o] \/ output' = output
    BY <1>1
  <2> HIDE DEF o
  <2> QED
    BY <2>1, <2>2
<1>2. CASE p \notin Parents
  BY <1>2
<1> QED
  BY <1>1, <1>2

\* No step leaves the types.
LEMMA TypeStep == TypeOK /\ InHand /\ [Next]_vars => TypeOK'
<1> SUFFICES ASSUME TypeOK /\ InHand, [Next]_vars PROVE TypeOK'
  OBVIOUS
<1> USE AgentLoopAssumption DEF TypeOK, Output, InHand, Runs, Statuses, Final, Positions, Waiting, rows, locals
<1>1. ASSUME NEW p \in Parents, CreateTurn(p) PROVE TypeOK'
  BY <1>1 DEF CreateTurn
<1>2. ASSUME NEW r \in Runs, CancelRun(r) PROVE TypeOK'
  BY <1>2 DEF CancelRun
<1>3. ASSUME NEW w \in Workers, NEW r \in Runs, Claim(w, r) PROVE TypeOK'
  <2>1. /\ status' \in [Runs -> Statuses] /\ expired' \in [Runs -> BOOLEAN]
        /\ attempt' \in [Runs -> 0..(MaxAttempts + 1)] /\ job' \in [Workers -> Runs \cup {None}]
    BY <1>3 DEF Claim
  <2>2. pc' \in [Workers -> Positions]
    BY <1>3 DEF Claim
  <2>3. outcome' \in [Workers -> {"none", "success", "failed", "exceeded"}]
    BY <1>3 DEF Claim
  <2> QED
    BY <1>3, <2>1, <2>2, <2>3 DEF Claim
<1>4. ASSUME NEW w \in Workers, ChildEnds(w) PROVE TypeOK'
  BY <1>4 DEF ChildEnds, Conclude
<1>5. ASSUME NEW w \in Workers, AskStep(w) PROVE TypeOK'
  <2>1. CASE \E o \in {"success", "failed"} : Conclude(w, o)
    BY <1>5, <2>1 DEF AskStep, Conclude
  <2>2. CASE GoTo(w, "create")
    BY <1>5, <2>2 DEF AskStep, GoTo
  <2> QED
    BY <1>5, <2>1, <2>2 DEF AskStep
<1>6. ASSUME NEW w \in Workers, AskStepWaits(w) PROVE TypeOK'
  BY <1>6 DEF AskStepWaits, Leave
<1>7. ASSUME NEW w \in Workers, AskStepOverdue(w) PROVE TypeOK'
  BY <1>7 DEF AskStepOverdue, Conclude, NoOutput
<1>8. ASSUME NEW w \in Workers, CreateChild(w) PROVE TypeOK'
  <2>1. PICK c \in Children : /\ status' = [status EXCEPT ![c] = "QUEUED"]
                              /\ childOf' = [childOf EXCEPT ![c] = job[w]]
                              /\ \/ /\ pc' = [pc EXCEPT ![w] = "yield"]
                                    /\ child' = [child EXCEPT ![w] = c]
                                    /\ UNCHANGED <<job, outcome, tries, faults>>
                                 \/ Fault /\ Conclude(w, "failed")
    BY <1>8 DEF CreateChild, FreshId
  <2>2. job[w] \in Parents /\ UNCHANGED <<expired, attempt, output, overdue, messages>> /\ pc[w] = "create"
    BY <1>8 DEF CreateChild
  <2>3. status' \in [Runs -> Statuses] /\ childOf' \in [Children -> Parents \cup {None}]
    BY <2>1, <2>2
  <2>4. CASE UNCHANGED <<job, outcome, tries, faults>> /\ pc' = [pc EXCEPT ![w] = "yield"] /\ child' = [child EXCEPT ![w] = c]
    BY <2>2, <2>3, <2>4
  <2>5. CASE Fault /\ Conclude(w, "failed")
    BY <2>2, <2>3, <2>5 DEF Fault, Conclude
  <2> QED
    BY <2>1, <2>4, <2>5
<1>9. ASSUME NEW w \in Workers, CreateChildFails(w) PROVE TypeOK'
  BY <1>9 DEF CreateChildFails, Conclude
<1>10. ASSUME NEW w \in Workers, Yield(w) PROVE TypeOK'
  <2>1. job[w] \in Parents /\ child[w] \in Children \cup {None}
    BY <1>10 DEF Yield
  <2>2. output' \in [Parents -> Output]
    BY <1>10, <2>1 DEF Yield, Suspended, NoOutput
  <2>3. status' \in [Runs -> Statuses] /\ overdue' \in [Parents -> BOOLEAN]
    BY <1>10, <2>1 DEF Yield
  <2>4. CASE Leave(w, "idle") /\ UNCHANGED faults
    BY <1>10, <2>2, <2>3, <2>4 DEF Yield, Leave
  <2>5. CASE Fault /\ Conclude(w, "failed")
    BY <1>10, <2>2, <2>3, <2>5 DEF Yield, Fault, Conclude
  <2> QED
    BY <1>10, <2>4, <2>5 DEF Yield
<1>11. ASSUME NEW w \in Workers, YieldRefused(w) PROVE TypeOK'
  BY <1>11 DEF YieldRefused, Conclude
<1>12. ASSUME NEW w \in Workers, Complete(w) PROVE TypeOK'
  BY <1>12 DEF Complete, GoTo, NoOutput
<1>13. ASSUME NEW w \in Workers, Crash(w) PROVE TypeOK'
  BY <1>13 DEF Crash, Fault, Leave
<1>14. ASSUME NEW w \in Workers, Restart(w) PROVE TypeOK'
  BY <1>14 DEF Restart, GoTo
<1>15. ASSUME NEW w \in Workers, EmitNotFinal(w) PROVE TypeOK'
  BY <1>15 DEF EmitNotFinal, Done, Leave
<1>16. ASSUME NEW w \in Workers, EmitForChild(w) PROVE TypeOK'
  <2>1. output' \in [Parents -> Output]
    BY <1>16, WokenOutput DEF EmitForChild
  <2>2. status' \in [Runs -> Statuses] /\ overdue' \in [Parents -> BOOLEAN]
    BY <1>16 DEF EmitForChild
  <2> QED
    BY <1>16, <2>1, <2>2 DEF EmitForChild, Done, Leave
<1>17. ASSUME NEW w \in Workers, EmitForTurn(w) PROVE TypeOK'
  <2>1. messages' \in [Parents -> Nat]
    BY <1>17 DEF EmitForTurn
  <2>2. CASE Done(w) /\ UNCHANGED faults
    BY <1>17, <2>1, <2>2 DEF EmitForTurn, Done, Leave
  <2>3. CASE Fault /\ Done(w)
    BY <1>17, <2>1, <2>3 DEF EmitForTurn, Fault, Done, Leave
  <2>4. CASE Fault /\ tries[w] = 0 /\ Again(w)
    BY <1>17, <2>1, <2>4 DEF EmitForTurn, Fault, Again
  <2> QED
    BY <1>17, <2>2, <2>3, <2>4 DEF EmitForTurn, Again
<1>18. ASSUME NEW w \in Workers, EmitForTurnRaises(w) PROVE TypeOK'
  <2>1. CASE tries[w] = 0
    BY <1>18, <2>1 DEF EmitForTurnRaises, Again
  <2>2. CASE tries[w] # 0
    <3>1. Leave(w, "idle")
      BY <1>18, <2>2 DEF EmitForTurnRaises, Again, Done
    <3> QED
      BY <1>18, <3>1 DEF EmitForTurnRaises, Leave
  <2> QED
    BY <2>1, <2>2
<1>19. ASSUME NEW r \in Runs, LeaseExpires(r) PROVE TypeOK'
  BY <1>19 DEF LeaseExpires
<1>20. ASSUME NEW p \in Parents, WaitGetsOverdue(p) PROVE TypeOK'
  BY <1>20 DEF WaitGetsOverdue
<1>21. CASE UNCHANGED vars
  BY <1>21 DEF vars
<1> QED
  BY <1>1, <1>2, <1>3, <1>4, <1>5, <1>6, <1>7, <1>8, <1>9, <1>10, <1>11, <1>12, <1>13, <1>14, <1>15, <1>16, <1>17, <1>18, <1>19, <1>20, <1>21
     DEF Next, Progress, TakeStep, Emit

\* No step gives a child work of a turn, an unused id a parent, or a turn a second message.
LEMMA HandStep == TypeOK /\ InHand /\ NoOrphans /\ AnnouncedOnce /\ [Next]_vars => (InHand /\ NoOrphans /\ AnnouncedOnce)'
<1> SUFFICES ASSUME TypeOK /\ InHand /\ NoOrphans /\ AnnouncedOnce, [Next]_vars PROVE (InHand /\ NoOrphans /\ AnnouncedOnce)'
  OBVIOUS
<1> USE AgentLoopAssumption DEF TypeOK, InHand, NoOrphans, AnnouncedOnce, Runs, Statuses, Final, Positions, Waiting, rows, locals
<1>1. ASSUME NEW p \in Parents, CreateTurn(p) PROVE (InHand /\ NoOrphans /\ AnnouncedOnce)'
  BY <1>1 DEF CreateTurn
<1>2. ASSUME NEW r \in Runs, CancelRun(r) PROVE (InHand /\ NoOrphans /\ AnnouncedOnce)'
  BY <1>2 DEF CancelRun
<1>3. ASSUME NEW w \in Workers, NEW r \in Runs, Claim(w, r) PROVE (InHand /\ NoOrphans /\ AnnouncedOnce)'
  BY <1>3 DEF Claim
<1>4. ASSUME NEW w \in Workers, ChildEnds(w) PROVE (InHand /\ NoOrphans /\ AnnouncedOnce)'
  BY <1>4 DEF ChildEnds, Conclude
<1>5. ASSUME NEW w \in Workers, AskStep(w) PROVE (InHand /\ NoOrphans /\ AnnouncedOnce)'
  BY <1>5 DEF AskStep, Conclude, GoTo
<1>6. ASSUME NEW w \in Workers, AskStepWaits(w) PROVE (InHand /\ NoOrphans /\ AnnouncedOnce)'
  BY <1>6 DEF AskStepWaits, Leave
<1>7. ASSUME NEW w \in Workers, AskStepOverdue(w) PROVE (InHand /\ NoOrphans /\ AnnouncedOnce)'
  BY <1>7 DEF AskStepOverdue, Conclude, NoOutput
<1>8. ASSUME NEW w \in Workers, CreateChild(w) PROVE (InHand /\ NoOrphans /\ AnnouncedOnce)'
  BY <1>8 DEF CreateChild, FreshId, Conclude, Fault
<1>9. ASSUME NEW w \in Workers, CreateChildFails(w) PROVE (InHand /\ NoOrphans /\ AnnouncedOnce)'
  BY <1>9 DEF CreateChildFails, Conclude
<1>10. ASSUME NEW w \in Workers, Yield(w) PROVE (InHand /\ NoOrphans /\ AnnouncedOnce)'
  <2>1. job[w] \in Parents /\ UNCHANGED <<childOf, messages>> /\ status' = [status EXCEPT ![job[w]] = "WAITING_CHILD"]
    BY <1>10 DEF Yield
  <2>2. \/ pc' = [pc EXCEPT ![w] = "idle"] /\ job' = [job EXCEPT ![w] = None]
        \/ pc' = [pc EXCEPT ![w] = "finishing"] /\ job' = job
    BY <1>10 DEF Yield, Leave, Conclude
  <2>3. InHand'
    BY <2>2
  <2>4. NoOrphans' /\ AnnouncedOnce'
    BY <2>1
  <2> QED
    BY <2>3, <2>4
<1>11. ASSUME NEW w \in Workers, YieldRefused(w) PROVE (InHand /\ NoOrphans /\ AnnouncedOnce)'
  BY <1>11 DEF YieldRefused, Conclude
<1>12. ASSUME NEW w \in Workers, Complete(w) PROVE (InHand /\ NoOrphans /\ AnnouncedOnce)'
  BY <1>12 DEF Complete, GoTo, NoOutput
<1>13. ASSUME NEW w \in Workers, Crash(w) PROVE (InHand /\ NoOrphans /\ AnnouncedOnce)'
  BY <1>13 DEF Crash, Fault, Leave
<1>14. ASSUME NEW w \in Workers, Restart(w) PROVE (InHand /\ NoOrphans /\ AnnouncedOnce)'
  BY <1>14 DEF Restart, GoTo
<1>15. ASSUME NEW w \in Workers, EmitNotFinal(w) PROVE (InHand /\ NoOrphans /\ AnnouncedOnce)'
  BY <1>15 DEF EmitNotFinal, Done, Leave
<1>16. ASSUME NEW w \in Workers, EmitForChild(w) PROVE (InHand /\ NoOrphans /\ AnnouncedOnce)'
  BY <1>16 DEF EmitForChild, Done, Leave, Wakes
<1>17. ASSUME NEW w \in Workers, EmitForTurn(w) PROVE (InHand /\ NoOrphans /\ AnnouncedOnce)'
  BY <1>17, SMTT(30) DEF EmitForTurn, Done, Leave, Fault, Again
<1>18. ASSUME NEW w \in Workers, EmitForTurnRaises(w) PROVE (InHand /\ NoOrphans /\ AnnouncedOnce)'
  BY <1>18 DEF EmitForTurnRaises, Again, Done, Leave
<1>19. ASSUME NEW r \in Runs, LeaseExpires(r) PROVE (InHand /\ NoOrphans /\ AnnouncedOnce)'
  BY <1>19 DEF LeaseExpires
<1>20. ASSUME NEW p \in Parents, WaitGetsOverdue(p) PROVE (InHand /\ NoOrphans /\ AnnouncedOnce)'
  BY <1>20 DEF WaitGetsOverdue
<1>21. CASE UNCHANGED vars
  BY <1>21 DEF vars
<1> QED
  BY <1>1, <1>2, <1>3, <1>4, <1>5, <1>6, <1>7, <1>8, <1>9, <1>10, <1>11, <1>12, <1>13, <1>14, <1>15, <1>16, <1>17, <1>18, <1>19, <1>20, <1>21
     DEF Next, Progress, TakeStep, Emit

-----------------------------------------------------------------------------
(* The attempts.                                                           *)

\* One more element costs at most one.
LEMMA AddOne ==
    ASSUME NEW S, IsFiniteSet(S), NEW x, NEW T, T \subseteq S \cup {x}
    PROVE  IsFiniteSet(T) /\ Cardinality(T) <= Cardinality(S) + 1
<1>0. Cardinality(S) \in Nat
  BY FS_CardinalityType
<1>1. IsFiniteSet(S \cup {x}) /\ Cardinality(S \cup {x}) <= Cardinality(S) + 1
  <2>1. CASE x \in S
    <3>1. S \cup {x} = S
      BY <2>1
    <3> QED
      BY <1>0, <3>1
  <2>2. CASE x \notin S
    <3>1. IsFiniteSet(S \cup {x}) /\ Cardinality(S \cup {x}) = Cardinality(S) + 1
      BY <2>2, FS_AddElement, Zenon
    <3> QED
      BY <1>0, <3>1
  <2> QED
    BY <2>1, <2>2
<1>2. IsFiniteSet(T) /\ Cardinality(T) <= Cardinality(S \cup {x})
  BY <1>1, FS_Subset
<1> QED
  BY <1>1, <1>2, FS_CardinalityType

\* A step that gives no turn a child or a worker more, and counts no attempt back.
LEMMA NoneMore ==
    ASSUME TypeOK, Budget, UNCHANGED childOf,
           \A p \in Parents : attempt'[p] \in Nat /\ attempt'[p] >= attempt[p],
           \A p \in Parents : Executing(p)' \subseteq Executing(p)
    PROVE  Budget'
<1> SUFFICES ASSUME NEW p \in Parents
             PROVE  /\ IsFiniteSet(Created(p)') /\ IsFiniteSet(Executing(p)')
                    /\ Cardinality(Created(p)') + Cardinality(Executing(p)') <= attempt'[p]
                    /\ Cardinality(Created(p)') + Cardinality(Executing(p)') <= MaxAttempts
  BY DEF Budget
<1>1. Created(p)' = Created(p)
  BY DEF Created
<1>2. IsFiniteSet(Executing(p)') /\ Cardinality(Executing(p)') <= Cardinality(Executing(p))
  BY FS_Subset DEF Budget
<1>3. /\ Cardinality(Created(p)) \in Nat /\ Cardinality(Executing(p)) \in Nat
      /\ Cardinality(Executing(p)') \in Nat
  BY <1>2, FS_CardinalityType DEF Budget
<1>4. attempt[p] \in Nat /\ attempt'[p] \in Nat /\ MaxAttempts \in Nat
  BY AgentLoopAssumption DEF TypeOK, Runs
<1> QED
  BY <1>1, <1>2, <1>3, <1>4 DEF Budget

\* No step makes more children, or workers that make them, than attempts are counted.
LEMMA BudgetStep == TypeOK /\ InHand /\ NoOrphans /\ Budget /\ [Next]_vars => Budget'
<1> SUFFICES ASSUME TypeOK, InHand, NoOrphans, Budget, [Next]_vars PROVE Budget'
  OBVIOUS
<1>1. ASSUME NEW w \in Workers, NEW r \in Runs, Claim(w, r) PROVE Budget'
  <2> SUFFICES ASSUME NEW p \in Parents
               PROVE  /\ IsFiniteSet(Created(p)') /\ IsFiniteSet(Executing(p)')
                      /\ Cardinality(Created(p)') + Cardinality(Executing(p)') <= attempt'[p]
                      /\ Cardinality(Created(p)') + Cardinality(Executing(p)') <= MaxAttempts
    BY DEF Budget
  <2>1. Created(p)' = Created(p)
    BY <1>1 DEF Claim, Created
  <2>2. attempt[p] \in Nat /\ attempt[r] \in Nat /\ attempt'[p] \in Nat /\ MaxAttempts \in Nat
    BY <1>1, AgentLoopAssumption DEF Claim, TypeOK, Runs
  <2>3. attempt'[p] >= attempt[p]
    BY <1>1, AgentLoopAssumption DEF Claim, TypeOK, Runs
  <2>4. /\ IsFiniteSet(Created(p)) /\ IsFiniteSet(Executing(p))
        /\ Cardinality(Created(p)) \in Nat /\ Cardinality(Executing(p)) \in Nat
        /\ Cardinality(Created(p)) + Cardinality(Executing(p)) <= attempt[p]
        /\ Cardinality(Created(p)) + Cardinality(Executing(p)) <= MaxAttempts
    BY FS_CardinalityType DEF Budget
  <2>5. CASE r = p /\ attempt[r] < MaxAttempts
    <3>1. Executing(p)' \subseteq Executing(p) \cup {w}
      BY <1>1 DEF Claim, Executing, TypeOK
    <3>2. IsFiniteSet(Executing(p)') /\ Cardinality(Executing(p)') <= Cardinality(Executing(p)) + 1
      BY <2>4, <3>1, AddOne
    <3>3. attempt'[p] = attempt[p] + 1
      BY <1>1, <2>2, <2>5 DEF Claim, TypeOK, Runs
    <3>4. Cardinality(Executing(p)') \in Nat
      BY <3>2, FS_CardinalityType
    <3> QED
      BY <2>1, <2>2, <2>4, <2>5, <3>2, <3>3, <3>4
  <2>6. CASE r # p \/ attempt[r] >= MaxAttempts
    <3>1. Executing(p)' \subseteq Executing(p)
      BY <1>1, <2>2, <2>6 DEF Claim, Executing, TypeOK
    <3>2. IsFiniteSet(Executing(p)') /\ Cardinality(Executing(p)') <= Cardinality(Executing(p))
      BY <2>4, <3>1, FS_Subset
    <3>3. Cardinality(Executing(p)') \in Nat
      BY <3>2, FS_CardinalityType
    <3> QED
      BY <2>1, <2>2, <2>3, <2>4, <3>2, <3>3
  <2> QED
    BY <2>2, <2>5, <2>6
<1>2. ASSUME NEW w \in Workers, CreateChild(w) PROVE Budget'
  <2> SUFFICES ASSUME NEW p \in Parents
               PROVE  /\ IsFiniteSet(Created(p)') /\ IsFiniteSet(Executing(p)')
                      /\ Cardinality(Created(p)') + Cardinality(Executing(p)') <= attempt'[p]
                      /\ Cardinality(Created(p)') + Cardinality(Executing(p)') <= MaxAttempts
    BY DEF Budget
  <2>1. PICK c \in Children : childOf' = [childOf EXCEPT ![c] = job[w]]
    BY <1>2 DEF CreateChild, FreshId
  <2>2. UNCHANGED <<attempt, job>> /\ pc[w] = "create" /\ job[w] \in Parents
        /\ \E x \in {"yield", "finishing"} : pc' = [pc EXCEPT ![w] = x]
    BY <1>2 DEF CreateChild, Conclude, InHand
  <2>3. attempt[p] \in Nat /\ MaxAttempts \in Nat
    BY AgentLoopAssumption DEF TypeOK, Runs
  <2>4. /\ IsFiniteSet(Created(p)) /\ IsFiniteSet(Executing(p))
        /\ Cardinality(Created(p)) \in Nat /\ Cardinality(Executing(p)) \in Nat
        /\ Cardinality(Created(p)) + Cardinality(Executing(p)) <= attempt[p]
        /\ Cardinality(Created(p)) + Cardinality(Executing(p)) <= MaxAttempts
    BY FS_CardinalityType DEF Budget
  <2>5. Executing(p)' = Executing(p) \ {w}
    BY <2>2 DEF Executing, TypeOK
  <2>6. CASE p = job[w]
    <3>1. w \in Executing(p)
      BY <2>2, <2>6 DEF Executing
    <3>2. IsFiniteSet(Executing(p)') /\ Cardinality(Executing(p)') = Cardinality(Executing(p)) - 1
      BY <2>4, <2>5, <3>1, FS_RemoveElement
    <3>3. Created(p)' \subseteq Created(p) \cup {c}
      BY <2>1 DEF Created, TypeOK
    <3>4. IsFiniteSet(Created(p)') /\ Cardinality(Created(p)') <= Cardinality(Created(p)) + 1
      BY <2>4, <3>3, AddOne
    <3>5. Cardinality(Created(p)') \in Nat
      BY <3>4, FS_CardinalityType
    <3> QED
      BY <2>2, <2>3, <2>4, <3>2, <3>4, <3>5
  <2>7. CASE p # job[w]
    <3>1. Created(p)' \subseteq Created(p) /\ Executing(p)' \subseteq Executing(p)
      BY <2>1, <2>5, <2>7 DEF Created, TypeOK
    <3>2. /\ IsFiniteSet(Created(p)') /\ Cardinality(Created(p)') <= Cardinality(Created(p))
          /\ IsFiniteSet(Executing(p)') /\ Cardinality(Executing(p)') <= Cardinality(Executing(p))
      BY <2>4, <3>1, FS_Subset
    <3>3. Cardinality(Created(p)') \in Nat /\ Cardinality(Executing(p)') \in Nat
      BY <3>2, FS_CardinalityType
    <3> QED
      BY <2>2, <2>3, <2>4, <3>2, <3>3
  <2> QED
    BY <2>6, <2>7
<1>3. ASSUME UNCHANGED <<childOf, attempt, locals>> PROVE Budget'
  <2>1. \A p \in Parents : Executing(p)' = Executing(p) /\ attempt[p] \in Nat
    BY <1>3 DEF locals, Executing, TypeOK, Runs
  <2> QED
    BY <1>3, <2>1, NoneMore
<1>4. ASSUME NEW w \in Workers, UNCHANGED <<childOf, attempt>>,
             \/ \E x \in Positions : Leave(w, x)
             \/ \E o \in {"success", "failed"} : Conclude(w, o)
             \/ \E x \in Positions : GoTo(w, x) /\ (x = "create" => pc[w] = "step") /\ x # "step"
             \/ UNCHANGED <<pc, job>>
      PROVE  Budget'
  <2>1. \A p \in Parents : attempt[p] \in Nat
    BY DEF TypeOK, Runs
  <2>2. \A p \in Parents : Executing(p)' \subseteq Executing(p)
    <3> SUFFICES ASSUME NEW p \in Parents, NEW v \in Executing(p)' PROVE v \in Executing(p)
      OBVIOUS
    <3>1. v \in Workers /\ job'[v] = p /\ pc'[v] \in {"step", "create"}
      BY DEF Executing
    <3>2. CASE \E x \in Positions : Leave(w, x)
      BY <3>1, <3>2, AgentLoopAssumption DEF Leave, Executing, TypeOK
    <3>3. CASE \E o \in {"success", "failed"} : Conclude(w, o)
      BY <3>1, <3>3 DEF Conclude, Executing, TypeOK
    <3>4. CASE \E x \in Positions : GoTo(w, x) /\ (x = "create" => pc[w] = "step") /\ x # "step"
      BY <3>1, <3>4 DEF GoTo, Executing, TypeOK
    <3>5. CASE UNCHANGED <<pc, job>>
      BY <3>1, <3>5 DEF Executing
    <3> QED
      BY <1>4, <3>2, <3>3, <3>4, <3>5
  <2> QED
    BY <1>4, <2>1, <2>2, NoneMore
<1>5. ASSUME NEW w \in Workers, TakeStep(w), ~ CreateChild(w) PROVE Budget'
  BY <1>4, <1>5 DEF TakeStep, AskStep, AskStepWaits, AskStepOverdue, CreateChildFails, Yield, YieldRefused,
     rows, Positions
<1>6. ASSUME NEW w \in Workers, ChildEnds(w) \/ Complete(w) \/ Crash(w) \/ Restart(w) PROVE Budget'
  BY <1>4, <1>6 DEF ChildEnds, Complete, Crash, Restart, rows, Positions
<1>7. ASSUME NEW w \in Workers, Emit(w) PROVE Budget'
  BY <1>4, <1>7 DEF Emit, EmitNotFinal, EmitForChild, EmitForTurn, EmitForTurnRaises, Again, Done, rows,
     Positions
<1> QED
  BY <1>1, <1>2, <1>3, <1>5, <1>6, <1>7 DEF Next, Progress, CreateTurn, CancelRun, LeaseExpires,
     WaitGetsOverdue, vars, rows

-----------------------------------------------------------------------------
(* Theorems.                                                               *)

\* The invariant holds at the start.
LEMMA InitInv == Init => IInv
<1> SUFFICES ASSUME Init PROVE IInv
  OBVIOUS
<1>1. TypeOK
  BY AgentLoopAssumption DEF Init, TypeOK, Runs, Statuses, Positions, NoOutput
<1>2. InHand /\ NoOrphans /\ AnnouncedOnce
  BY <1>1, AgentLoopAssumption DEF Init, InHand, NoOrphans, AnnouncedOnce
<1>3. ASSUME NEW p \in Parents PROVE Created(p) = {} /\ Executing(p) = {} /\ attempt[p] = 0
  BY AgentLoopAssumption DEF Init, Created, Executing, Runs
<1>4. Budget
  BY <1>3, FS_EmptySet, AgentLoopAssumption DEF Budget
<1> QED
  BY <1>1, <1>2, <1>4 DEF IInv

\* The inductive invariant.
THEOREM Inductive == Spec => []IInv
<1>1. IInv /\ [Next]_vars => IInv'
  BY TypeStep, HandStep, BudgetStep DEF IInv
<1> QED
  BY InitInv, <1>1, PTL DEF Spec

\* A turn has at most as many children as attempts and is announced at most once, for any
\* number of turns, workers, crashes, lost answers and leases that run out
\* (runner.py _handle_agent_loop_turn, run_messages.py emit_run_message).
THEOREM TurnsFit == Spec => []TurnFitsAttempts
<1>1. IInv => ChildrenWithinAttempts
  <2> SUFFICES ASSUME IInv, NEW p \in Parents
               PROVE  Cardinality({c \in Children : childOf[c] = p}) <= MaxAttempts
    BY DEF ChildrenWithinAttempts
  <2>1. Cardinality(Created(p)) \in Nat /\ Cardinality(Executing(p)) \in Nat /\ MaxAttempts \in Nat
    BY FS_CardinalityType, AgentLoopAssumption DEF IInv, Budget
  <2> QED
    BY <2>1 DEF IInv, Budget, Created
<1>2. IInv => TurnFitsAttempts
  BY <1>1 DEF IInv, TurnFitsAttempts
<1> QED
  BY <1>2, Inductive, PTL

\* No child takes the place of another that its parent waits for, whatever two workers on
\* one turn do (internal.py yield_waiting_child).
THEOREM WaitKept == Spec => WaitingChildIsKept
<1>1. IInv /\ [Next]_vars =>
        [\A p \in Parents : Waiting(p) # None => Waiting(p)' \in {Waiting(p), None}]_vars
  <2> SUFFICES ASSUME IInv, Next, NEW p \in Parents, Waiting(p) # None
               PROVE  Waiting(p)' \in {Waiting(p), None}
    BY DEF vars
  <2> USE DEF Waiting
  <2>1. CASE UNCHANGED output
    BY <2>1
  <2>2. ASSUME NEW w \in Workers, AskStepOverdue(w) PROVE Waiting(p)' \in {Waiting(p), None}
    BY <2>2 DEF AskStepOverdue, NoOutput, IInv, TypeOK
  <2>3. ASSUME NEW w \in Workers, Yield(w) PROVE Waiting(p)' \in {Waiting(p), None}
    BY <2>3 DEF Yield, IInv, TypeOK
  <2>4. ASSUME NEW w \in Workers, Complete(w) PROVE Waiting(p)' \in {Waiting(p), None}
    BY <2>4 DEF Complete, NoOutput
  <2>5. ASSUME NEW w \in Workers, EmitForChild(w) PROVE Waiting(p)' \in {Waiting(p), None}
    BY <2>5 DEF EmitForChild, IInv, TypeOK
  <2> QED
    BY <2>1, <2>2, <2>3, <2>4, <2>5
       DEF Next, Progress, TakeStep, Emit, CreateTurn, WaitGetsOverdue, CancelRun, LeaseExpires, Claim,
           ChildEnds, AskStep, AskStepWaits, CreateChild, CreateChildFails, YieldRefused, Crash, Restart,
           EmitNotFinal, EmitForTurn, EmitForTurnRaises, rows
<1> QED
  BY <1>1, Inductive, PTL DEF Spec, WaitingChildIsKept
=============================================================================
