--------------------------- MODULE SandboxProofs ---------------------------
(***************************************************************************)
(* What holds of sandbox executions for any number of requests, keys and   *)
(* limits.                                                                 *)
(***************************************************************************)
EXTENDS SandboxExec, TLAPS

\* A thread knows its record and how its container ended; a request that did not
\* arrive yet left nothing.
Progress ==
    \A e \in Exec :
        /\ At(e, "idle") => rec[e] = "none" /\ answer[e] = None
        /\ th[e].stage \notin {"idle", "done"} => rec[e] = "running"
        /\ th[e].stage \in {"release", "remove", "close"} => th[e].result # "none"
        /\ At(e, "done") /\ faults = 0 => rec[e] # "running"

\* A result is known once the container ended, and not before; success is that of an
\* execution's own container, and of a manifest that was written.
Real ==
    \A e \in Exec :
        /\ th[e].stage \in {"idle", "prepare", "create", "publish", "take", "acquire", "running"} => th[e].result = "none"
        /\ th[e].result = "succeeded" => ended[e] = "succeeded"
        /\ rec[e] = "succeeded" => ended[e] = "succeeded" /\ e \in listed

\* A container has the name of its execution, and without faults a thread that waits for
\* it, gave up waiting and will remove it, or met an error and records that.
Contained ==
    \A n \in Exec : container[n] # None =>
        /\ name[container[n]] = n
        /\ ~ At(container[n], "idle")
        /\ faults = 0 => \/ At(container[n], "running")
                         \/ At(container[n], "release") /\ th[container[n]].result \in {"timeout", "error"}
                         \/ At(container[n], "remove")
                         \/ At(container[n], "close") /\ th[container[n]].result = "error"
                         \/ At(container[n], "done") /\ rec[container[n]] = "failed"

IInv == TypeOK /\ Progress /\ KeyRunsOnce /\ Real /\ Contained

-----------------------------------------------------------------------------
(* The invariant.                                                          *)

\* What a step of one thread leaves of th.
LEMMA ThreadType ==
    ASSUME TypeOK, NEW e \in Exec, NEW t \in Thread, th' = [th EXCEPT ![e] = t]
    PROVE  th' \in [Exec -> Thread]
BY DEF TypeOK

\* A thread that goes on.
LEMMA GotoType ==
    ASSUME TypeOK, NEW e \in Exec, NEW s \in Stage, Goto(e, s)
    PROVE  th' \in [Exec -> Thread]
<1> DEFINE t == [th[e] EXCEPT !.stage = s]
<1>1. t \in Thread
  BY DEF TypeOK, Thread
<1>2. th' = [th EXCEPT ![e] = t]
  BY DEF Goto
<1> HIDE DEF t
<1> QED
  BY <1>1, <1>2, ThreadType

\* One that ends its container goes on with a result.
LEMMA EndsType ==
    ASSUME TypeOK, NEW e \in Exec, NEW s \in Stage, NEW r \in Result, Ends(e, s, r)
    PROVE  th' \in [Exec -> Thread]
<1> DEFINE u == [th[e] EXCEPT !.stage = s]
           t == [u EXCEPT !.result = r]
<1>1. u \in Thread
  BY DEF TypeOK, Thread
<1>2. th' = [th EXCEPT ![e] = t]
  BY DEF Ends
<1> HIDE DEF u
<1>3. t \in Thread
  BY <1>1 DEF Thread
<1> HIDE DEF t
<1> QED
  BY <1>2, <1>3, ThreadType

\* One that asks for a semaphore keeps the limit.
LEMMA BeginsType ==
    ASSUME TypeOK, NEW e \in Exec, NEW s \in Stage, NEW l \in Setting \cup {0},
           th' = [th EXCEPT ![e] = [@ EXCEPT !.stage = s, !.limit = l]]
    PROVE  th' \in [Exec -> Thread]
<1> DEFINE u == [th[e] EXCEPT !.stage = s]
           t == [u EXCEPT !.limit = l]
<1>1. u \in Thread
  BY DEF TypeOK, Thread
<1>2. th' = [th EXCEPT ![e] = t]
  OBVIOUS
<1> HIDE DEF u
<1>3. t \in Thread
  BY <1>1 DEF Thread
<1> HIDE DEF t
<1> QED
  BY <1>2, <1>3, ThreadType

\* One that waits knows which semaphore for.
LEMMA TakesType ==
    ASSUME TypeOK, NEW e \in Exec, NEW s \in Stage, NEW m \in Exec \cup {None},
           th' = [th EXCEPT ![e] = [@ EXCEPT !.stage = s, !.sem = m]]
    PROVE  th' \in [Exec -> Thread]
<1> DEFINE u == [th[e] EXCEPT !.stage = s]
           t == [u EXCEPT !.sem = m]
<1>1. u \in Thread
  BY DEF TypeOK, Thread
<1>2. th' = [th EXCEPT ![e] = t]
  OBVIOUS
<1> HIDE DEF u
<1>3. t \in Thread
  BY <1>1 DEF Thread
<1> HIDE DEF t
<1> QED
  BY <1>2, <1>3, ThreadType

\* A permit that is there is taken, or one is given back.
LEMMA PermitType ==
    ASSUME TypeOK, NEW x,
           \/ permits[x] > 0 /\ permits' = [permits EXCEPT ![x] = @ - 1]
           \/ permits' = [permits EXCEPT ![x] = @ + 1]
    PROVE  permits' \in [Exec -> Nat]
BY DEF TypeOK

\* One that answers is done.
LEMMA ReturnsType ==
    ASSUME TypeOK, NEW e \in Exec, Returns(e)
    PROVE  th' \in [Exec -> Thread]
BY DEF TypeOK, Thread, Returns, Finished, Stage, Result

\* No step leaves the types.
LEMMA TypeStep == TypeOK /\ [Next]_vars => TypeOK'
<1> SUFFICES ASSUME TypeOK, [Next]_vars PROVE TypeOK'
  OBVIOUS
<1> USE SandboxAssumption DEF semaphores, request, daemon, budgets
<1>1. ASSUME NEW e \in Exec, InsertRecord(e) PROVE TypeOK'
  <2>1. th' \in [Exec -> Thread]
    BY <1>1, BeginsType DEF InsertRecord, TypeOK, Stage
  <2>2. key' \in [Exec -> Key \cup {None}]
    BY <1>1 DEF InsertRecord, Arrives, TypeOK
  <2>3. name' \in [Exec -> Exec \cup {None}]
    BY <1>1 DEF InsertRecord, Arrives, Recorded, TypeOK
  <2>4. rec' \in [Exec -> {"none", "running"} \cup Final]
    BY <1>1 DEF InsertRecord, TypeOK
  <2> QED
    BY <1>1, <2>1, <2>2, <2>3, <2>4 DEF InsertRecord, TypeOK
<1>2. ASSUME NEW e \in Exec, AnswerExisting(e) PROVE TypeOK'
  <2>1. th' \in [Exec -> Thread]
    BY <1>2, ReturnsType DEF AnswerExisting
  <2>2. key' \in [Exec -> Key \cup {None}]
    BY <1>2 DEF AnswerExisting, Arrives, TypeOK
  <2>3. name' \in [Exec -> Exec \cup {None}]
    BY <1>2 DEF AnswerExisting, Arrives, Recorded, TypeOK
  <2>4. answer' \in [Exec -> Exec \cup {None}]
    BY <1>2 DEF AnswerExisting, SameKey, Recorded, TypeOK
  <2> QED
    BY <1>2, <2>1, <2>2, <2>3, <2>4 DEF AnswerExisting, TypeOK
<1>3. ASSUME NEW e \in Exec, InvokeRefused(e) PROVE TypeOK'
  <2>1. th' \in [Exec -> Thread]
    BY <1>3, ReturnsType DEF InvokeRefused, Stage, Result
  <2> QED
    BY <1>3, <2>1 DEF InvokeRefused, TypeOK, Final
<1>4. ASSUME NEW e \in Exec, Prepare(e) PROVE TypeOK'
  <2>1. th' \in [Exec -> Thread]
    BY <1>4, GotoType DEF Prepare, Stage, Result
  <2> QED
    BY <1>4, <2>1 DEF Prepare, TypeOK, Final
<1>5. ASSUME NEW e \in Exec, Deny(e) PROVE TypeOK'
  <2>1. th' \in [Exec -> Thread]
    BY <1>5, EndsType DEF Deny, Stage, Result
  <2> QED
    BY <1>5, <2>1 DEF Deny, TypeOK, Final
<1>6. ASSUME NEW e \in Exec, CreateSemaphore(e) PROVE TypeOK'
  <2>1. th' \in [Exec -> Thread]
    BY <1>6, GotoType DEF CreateSemaphore, Stage, Result
  <2>2. permits' \in [Exec -> Nat]
    <3>1. th[e].limit \in Int
      BY DEF TypeOK, Thread
    <3> QED
      BY <1>6, <3>1 DEF CreateSemaphore, TypeOK
  <2> QED
    BY <1>6, <2>1, <2>2 DEF CreateSemaphore, TypeOK
<1>7. ASSUME NEW e \in Exec, PublishLimit(e) PROVE TypeOK'
  <2>1. th' \in [Exec -> Thread]
    BY <1>7, GotoType DEF PublishLimit, Stage, Result
  <2> QED
    BY <1>7, <2>1 DEF PublishLimit, TypeOK, Final, At, Thread
<1>8. ASSUME NEW e \in Exec, TakeSemaphore(e) PROVE TypeOK'
  <2>1. th' \in [Exec -> Thread]
    BY <1>8, TakesType DEF TakeSemaphore, TypeOK, Stage
  <2> QED
    BY <1>8, <2>1 DEF TakeSemaphore, TypeOK
<1>9. ASSUME NEW e \in Exec, Start(e) PROVE TypeOK'
  <2>1. th' \in [Exec -> Thread]
    BY <1>9, GotoType DEF Start, Acquire, Stage, Result
  <2>2. permits' \in [Exec -> Nat]
    BY <1>9, PermitType DEF Start, Acquire
  <2>3. container' \in [Exec -> Exec \cup {None}]
    BY <1>9 DEF Start, TypeOK
  <2> QED
    BY <1>9, <2>1, <2>2, <2>3 DEF Start, Acquire, TypeOK
<1>10. ASSUME NEW e \in Exec, StartFails(e) PROVE TypeOK'
  <2>1. th' \in [Exec -> Thread]
    BY <1>10, EndsType DEF StartFails, Acquire, Stage, Result
  <2>2. permits' \in [Exec -> Nat]
    BY <1>10, PermitType DEF StartFails, Acquire
  <2>3. container' \in [Exec -> Exec \cup {None}]
    BY <1>10 DEF StartFails, TypeOK
  <2> QED
    BY <1>10, <2>1, <2>2, <2>3 DEF StartFails, Acquire, TypeOK
<1>11. ASSUME NEW e \in Exec, Exit(e) PROVE TypeOK'
  <2>1. th' \in [Exec -> Thread]
    BY <1>11, EndsType DEF Exit, Stage, Result
  <2>2. container' \in [Exec -> Exec \cup {None}]
    BY <1>11 DEF Exit, TypeOK
  <2>3. ended' \in [Exec -> {"none", "succeeded", "failed"}]
    BY <1>11 DEF Exit, TypeOK
  <2> QED
    BY <1>11, <2>1, <2>2, <2>3 DEF Exit, TypeOK
<1>12. ASSUME NEW e \in Exec, Killed(e) PROVE TypeOK'
  <2>1. th' \in [Exec -> Thread]
    BY <1>12, EndsType DEF Killed, Stage, Result
  <2> QED
    BY <1>12, <2>1 DEF Killed, TypeOK, Final
<1>13. ASSUME NEW e \in Exec, Timeout(e) PROVE TypeOK'
  <2>1. th' \in [Exec -> Thread]
    BY <1>13, EndsType DEF Timeout, Stage, Result
  <2> QED
    BY <1>13, <2>1 DEF Timeout, TypeOK, Final
<1>25. ASSUME NEW e \in Exec, Abandon(e) PROVE TypeOK'
  <2>1. th' \in [Exec -> Thread]
    BY <1>25, EndsType DEF Abandon, Stage, Result
  <2> QED
    BY <1>25, <2>1 DEF Abandon, TypeOK, Final
<1>14. ASSUME NEW e \in Exec, Release(e) PROVE TypeOK'
  <2>1. th' \in [Exec -> Thread]
    BY <1>14, GotoType DEF Release, Stage, Result
  <2>2. permits' \in [Exec -> Nat]
    BY <1>14, PermitType DEF Release
  <2> QED
    BY <1>14, <2>1, <2>2 DEF Release, TypeOK
<1>15. ASSUME NEW e \in Exec, Remove(e) PROVE TypeOK'
  <2>1. th' \in [Exec -> Thread]
    BY <1>15, GotoType DEF Remove, Stage, Result
  <2> QED
    BY <1>15, <2>1 DEF Remove, TypeOK, Final
<1>16. ASSUME NEW e \in Exec, Close(e) PROVE TypeOK'
  <2>1. th' \in [Exec -> Thread]
    BY <1>16, ReturnsType DEF Close, Stage, Result
  <2> QED
    BY <1>16, <2>1 DEF Close, StatusOf, TypeOK, Final, Thread, Result
<1>17. ASSUME NEW e \in Exec, ReportFails(e) PROVE TypeOK'
  <2>1. th' \in [Exec -> Thread]
    BY <1>17, ReturnsType DEF ReportFails, Stage, Result
  <2> QED
    BY <1>17, <2>1 DEF ReportFails, TypeOK, Final
<1>18. ASSUME NEW e \in Exec, InsertFails(e) PROVE TypeOK'
  <2>1. th' \in [Exec -> Thread]
    BY <1>18, ReturnsType DEF InsertFails, Fault, Stage, Result
  <2> QED
    BY <1>18, <2>1 DEF InsertFails, Fault, TypeOK, Final
<1>19. ASSUME NEW e \in Exec, RemoveFails(e) PROVE TypeOK'
  <2>1. th' \in [Exec -> Thread]
    BY <1>19, GotoType DEF RemoveFails, Fault, Stage, Result
  <2> QED
    BY <1>19, <2>1 DEF RemoveFails, Fault, TypeOK, Final
<1>20. ASSUME NEW e \in Exec, CloseFails(e) PROVE TypeOK'
  <2>1. th' \in [Exec -> Thread]
    BY <1>20, ReturnsType DEF CloseFails, Fault, Stage, Result
  <2> QED
    BY <1>20, <2>1 DEF CloseFails, Fault, TypeOK, Final
<1>21. ASSUME NEW n \in Exec, ContainerEnds(n) PROVE TypeOK'
  BY <1>21 DEF ContainerEnds, TypeOK
<1>22. CASE ChangeSettings
  BY <1>22 DEF ChangeSettings, TypeOK
<1>23. CASE Crash
  <2>1. th' \in [Exec -> Thread]
    BY <1>23 DEF Crash, TypeOK, Thread, Finished, Stage, Result
  <2> QED
    BY <1>23, <2>1 DEF Crash, Fault, TypeOK
<1>24. CASE UNCHANGED vars
  BY <1>24 DEF vars, TypeOK
<1> QED
  BY <1>1, <1>2, <1>3, <1>4, <1>5, <1>6, <1>7, <1>8, <1>9, <1>10, <1>11, <1>12, <1>13, <1>14, <1>15, <1>16, <1>17, <1>18, <1>19, <1>20, <1>21, <1>22, <1>23, <1>24, <1>25 DEF Next, Step

\* A thread keeps its record open until it closes it.
LEMMA ProgressStep == TypeOK /\ Progress /\ [Next]_vars => Progress'
<1> SUFFICES ASSUME TypeOK /\ Progress, [Next]_vars PROVE Progress'
  OBVIOUS
<1> USE SandboxAssumption DEF TypeOK, Progress, Thread, Stage, Result, Final
<1>1. ASSUME NEW e \in Exec, InsertRecord(e) PROVE Progress'
  BY <1>1 DEF InsertRecord, Arrives, SameKey, Recorded, At, semaphores, request, daemon, budgets
<1>2. ASSUME NEW e \in Exec, AnswerExisting(e) PROVE Progress'
  BY <1>2 DEF AnswerExisting, Arrives, SameKey, Recorded, At, Returns, Finished, semaphores, request, daemon, budgets
<1>3. ASSUME NEW e \in Exec, InvokeRefused(e) PROVE Progress'
  BY <1>3 DEF InvokeRefused, At, Returns, Finished, semaphores, request, daemon, budgets
<1>4. ASSUME NEW e \in Exec, Prepare(e) PROVE Progress'
  BY <1>4 DEF Prepare, At, Goto, semaphores, request, daemon, budgets
<1>5. ASSUME NEW e \in Exec, Deny(e) PROVE Progress'
  BY <1>5 DEF Deny, At, Ends, semaphores, request, daemon, budgets
<1>6. ASSUME NEW e \in Exec, CreateSemaphore(e) PROVE Progress'
  BY <1>6 DEF CreateSemaphore, At, Goto, semaphores, request, daemon, budgets
<1>7. ASSUME NEW e \in Exec, PublishLimit(e) PROVE Progress'
  BY <1>7 DEF PublishLimit, At, Goto, semaphores, request, daemon, budgets
<1>8. ASSUME NEW e \in Exec, TakeSemaphore(e) PROVE Progress'
  BY <1>8 DEF TakeSemaphore, At, semaphores, request, daemon, budgets
<1>9. ASSUME NEW e \in Exec, Start(e) PROVE Progress'
  BY <1>9 DEF Start, Acquire, At, Goto, semaphores, request, daemon, budgets
<1>10. ASSUME NEW e \in Exec, StartFails(e) PROVE Progress'
  BY <1>10 DEF StartFails, Acquire, At, Ends, semaphores, request, daemon, budgets
<1>11. ASSUME NEW e \in Exec, Exit(e) PROVE Progress'
  BY <1>11 DEF Exit, At, Ends, semaphores, request, daemon, budgets
<1>12. ASSUME NEW e \in Exec, Killed(e) PROVE Progress'
  BY <1>12 DEF Killed, At, Ends, semaphores, request, daemon, budgets
<1>13. ASSUME NEW e \in Exec, Timeout(e) PROVE Progress'
  BY <1>13 DEF Timeout, At, Ends, semaphores, request, daemon, budgets
<1>25. ASSUME NEW e \in Exec, Abandon(e) PROVE Progress'
  BY <1>25 DEF Abandon, At, Ends, semaphores, request, daemon, budgets
<1>14. ASSUME NEW e \in Exec, Release(e) PROVE Progress'
  BY <1>14 DEF Release, At, Goto, semaphores, request, daemon, budgets
<1>15. ASSUME NEW e \in Exec, Remove(e) PROVE Progress'
  BY <1>15 DEF Remove, At, Goto, semaphores, request, daemon, budgets
<1>16. ASSUME NEW e \in Exec, Close(e) PROVE Progress'
  BY <1>16 DEF Close, At, StatusOf, Returns, Finished, semaphores, request, daemon, budgets
<1>17. ASSUME NEW e \in Exec, ReportFails(e) PROVE Progress'
  BY <1>17 DEF ReportFails, At, Returns, Finished, semaphores, request, daemon, budgets
<1>18. ASSUME NEW e \in Exec, InsertFails(e) PROVE Progress'
  BY <1>18 DEF InsertFails, Fault, At, Returns, Finished, semaphores, request, daemon, budgets
<1>19. ASSUME NEW e \in Exec, RemoveFails(e) PROVE Progress'
  BY <1>19 DEF RemoveFails, Fault, At, Goto, semaphores, request, daemon, budgets
<1>20. ASSUME NEW e \in Exec, CloseFails(e) PROVE Progress'
  BY <1>20 DEF CloseFails, Fault, At, Returns, Finished, semaphores, request, daemon, budgets
<1>21. ASSUME NEW n \in Exec, ContainerEnds(n) PROVE Progress'
  BY <1>21 DEF ContainerEnds, At, semaphores, request, daemon, budgets
<1>22. CASE ChangeSettings
  BY <1>22 DEF ChangeSettings, At, semaphores, request, daemon, budgets
<1>23. CASE Crash
  BY <1>23 DEF Crash, Fault, Finished, At, semaphores, request, daemon, budgets
<1>24. CASE UNCHANGED vars
  BY <1>24 DEF vars, At, semaphores, request, daemon, budgets
<1> QED
  BY <1>1, <1>2, <1>3, <1>4, <1>5, <1>6, <1>7, <1>8, <1>9, <1>10, <1>11, <1>12, <1>13, <1>14, <1>15, <1>16, <1>17, <1>18, <1>19, <1>20, <1>21, <1>22, <1>23, <1>24, <1>25 DEF Next, Step

\* No step gives a key a second record.
LEMMA KeyStep == TypeOK /\ Progress /\ KeyRunsOnce /\ [Next]_vars => KeyRunsOnce'
<1> SUFFICES ASSUME TypeOK /\ Progress /\ KeyRunsOnce, [Next]_vars PROVE KeyRunsOnce'
  OBVIOUS
<1> USE SandboxAssumption DEF TypeOK, Progress, KeyRunsOnce, Thread, Stage, Result, Final, Recorded
<1>1. ASSUME NEW e \in Exec, InsertRecord(e) PROVE KeyRunsOnce'
  BY <1>1 DEF InsertRecord, Arrives, SameKey, Recorded, At, semaphores, request, daemon, budgets
<1>2. ASSUME NEW e \in Exec, AnswerExisting(e) PROVE KeyRunsOnce'
  BY <1>2 DEF AnswerExisting, Arrives, SameKey, Recorded, At, Returns, Finished, semaphores, request, daemon, budgets
<1>3. ASSUME NEW e \in Exec, InvokeRefused(e) PROVE KeyRunsOnce'
  BY <1>3 DEF InvokeRefused, At, Returns, Finished, semaphores, request, daemon, budgets
<1>4. ASSUME NEW e \in Exec, Prepare(e) PROVE KeyRunsOnce'
  BY <1>4 DEF Prepare, At, Goto, semaphores, request, daemon, budgets
<1>5. ASSUME NEW e \in Exec, Deny(e) PROVE KeyRunsOnce'
  BY <1>5 DEF Deny, At, Ends, semaphores, request, daemon, budgets
<1>6. ASSUME NEW e \in Exec, CreateSemaphore(e) PROVE KeyRunsOnce'
  BY <1>6 DEF CreateSemaphore, At, Goto, semaphores, request, daemon, budgets
<1>7. ASSUME NEW e \in Exec, PublishLimit(e) PROVE KeyRunsOnce'
  BY <1>7 DEF PublishLimit, At, Goto, semaphores, request, daemon, budgets
<1>8. ASSUME NEW e \in Exec, TakeSemaphore(e) PROVE KeyRunsOnce'
  BY <1>8 DEF TakeSemaphore, At, semaphores, request, daemon, budgets
<1>9. ASSUME NEW e \in Exec, Start(e) PROVE KeyRunsOnce'
  BY <1>9 DEF Start, Acquire, At, Goto, semaphores, request, daemon, budgets
<1>10. ASSUME NEW e \in Exec, StartFails(e) PROVE KeyRunsOnce'
  BY <1>10 DEF StartFails, Acquire, At, Ends, semaphores, request, daemon, budgets
<1>11. ASSUME NEW e \in Exec, Exit(e) PROVE KeyRunsOnce'
  BY <1>11 DEF Exit, At, Ends, semaphores, request, daemon, budgets
<1>12. ASSUME NEW e \in Exec, Killed(e) PROVE KeyRunsOnce'
  BY <1>12 DEF Killed, At, Ends, semaphores, request, daemon, budgets
<1>13. ASSUME NEW e \in Exec, Timeout(e) PROVE KeyRunsOnce'
  BY <1>13 DEF Timeout, At, Ends, semaphores, request, daemon, budgets
<1>25. ASSUME NEW e \in Exec, Abandon(e) PROVE KeyRunsOnce'
  BY <1>25 DEF Abandon, At, Ends, semaphores, request, daemon, budgets
<1>14. ASSUME NEW e \in Exec, Release(e) PROVE KeyRunsOnce'
  BY <1>14 DEF Release, At, Goto, semaphores, request, daemon, budgets
<1>15. ASSUME NEW e \in Exec, Remove(e) PROVE KeyRunsOnce'
  BY <1>15 DEF Remove, At, Goto, semaphores, request, daemon, budgets
<1>16. ASSUME NEW e \in Exec, Close(e) PROVE KeyRunsOnce'
  BY <1>16 DEF Close, At, StatusOf, Returns, Finished, semaphores, request, daemon, budgets
<1>17. ASSUME NEW e \in Exec, ReportFails(e) PROVE KeyRunsOnce'
  BY <1>17 DEF ReportFails, At, Returns, Finished, semaphores, request, daemon, budgets
<1>18. ASSUME NEW e \in Exec, InsertFails(e) PROVE KeyRunsOnce'
  BY <1>18 DEF InsertFails, Fault, At, Returns, Finished, semaphores, request, daemon, budgets
<1>19. ASSUME NEW e \in Exec, RemoveFails(e) PROVE KeyRunsOnce'
  BY <1>19 DEF RemoveFails, Fault, At, Goto, semaphores, request, daemon, budgets
<1>20. ASSUME NEW e \in Exec, CloseFails(e) PROVE KeyRunsOnce'
  BY <1>20 DEF CloseFails, Fault, At, Returns, Finished, semaphores, request, daemon, budgets
<1>21. ASSUME NEW n \in Exec, ContainerEnds(n) PROVE KeyRunsOnce'
  BY <1>21 DEF ContainerEnds, At, semaphores, request, daemon, budgets
<1>22. CASE ChangeSettings
  BY <1>22 DEF ChangeSettings, At, semaphores, request, daemon, budgets
<1>23. CASE Crash
  BY <1>23 DEF Crash, Fault, Finished, At, semaphores, request, daemon, budgets
<1>24. CASE UNCHANGED vars
  BY <1>24 DEF vars, At, semaphores, request, daemon, budgets
<1> QED
  BY <1>1, <1>2, <1>3, <1>4, <1>5, <1>6, <1>7, <1>8, <1>9, <1>10, <1>11, <1>12, <1>13, <1>14, <1>15, <1>16, <1>17, <1>18, <1>19, <1>20, <1>21, <1>22, <1>23, <1>24, <1>25 DEF Next, Step

\* No step makes a success of anything else.
LEMMA RealStep == TypeOK /\ Progress /\ Real /\ [Next]_vars => Real'
<1> SUFFICES ASSUME TypeOK /\ Progress /\ Real, [Next]_vars PROVE Real'
  OBVIOUS
<1> USE SandboxAssumption DEF TypeOK, Progress, Real, Thread, Stage, Result, Final, Recorded
<1>1. ASSUME NEW e \in Exec, InsertRecord(e) PROVE Real'
  BY <1>1 DEF InsertRecord, Arrives, SameKey, Recorded, At, semaphores, request, daemon, budgets
<1>2. ASSUME NEW e \in Exec, AnswerExisting(e) PROVE Real'
  BY <1>2 DEF AnswerExisting, Arrives, SameKey, Recorded, At, Returns, Finished, semaphores, request, daemon, budgets
<1>3. ASSUME NEW e \in Exec, InvokeRefused(e) PROVE Real'
  BY <1>3 DEF InvokeRefused, At, Returns, Finished, semaphores, request, daemon, budgets
<1>4. ASSUME NEW e \in Exec, Prepare(e) PROVE Real'
  BY <1>4 DEF Prepare, At, Goto, semaphores, request, daemon, budgets
<1>5. ASSUME NEW e \in Exec, Deny(e) PROVE Real'
  BY <1>5 DEF Deny, At, Ends, semaphores, request, daemon, budgets
<1>6. ASSUME NEW e \in Exec, CreateSemaphore(e) PROVE Real'
  BY <1>6 DEF CreateSemaphore, At, Goto, semaphores, request, daemon, budgets
<1>7. ASSUME NEW e \in Exec, PublishLimit(e) PROVE Real'
  BY <1>7 DEF PublishLimit, At, Goto, semaphores, request, daemon, budgets
<1>8. ASSUME NEW e \in Exec, TakeSemaphore(e) PROVE Real'
  BY <1>8 DEF TakeSemaphore, At, semaphores, request, daemon, budgets
<1>9. ASSUME NEW e \in Exec, Start(e) PROVE Real'
  BY <1>9 DEF Start, Acquire, At, Goto, semaphores, request, daemon, budgets
<1>10. ASSUME NEW e \in Exec, StartFails(e) PROVE Real'
  BY <1>10 DEF StartFails, Acquire, At, Ends, semaphores, request, daemon, budgets
<1>11. ASSUME NEW e \in Exec, Exit(e) PROVE Real'
  BY <1>11 DEF Exit, At, Ends, semaphores, request, daemon, budgets
<1>12. ASSUME NEW e \in Exec, Killed(e) PROVE Real'
  BY <1>12 DEF Killed, At, Ends, semaphores, request, daemon, budgets
<1>13. ASSUME NEW e \in Exec, Timeout(e) PROVE Real'
  BY <1>13 DEF Timeout, At, Ends, semaphores, request, daemon, budgets
<1>25. ASSUME NEW e \in Exec, Abandon(e) PROVE Real'
  BY <1>25 DEF Abandon, At, Ends, semaphores, request, daemon, budgets
<1>14. ASSUME NEW e \in Exec, Release(e) PROVE Real'
  BY <1>14 DEF Release, At, Goto, semaphores, request, daemon, budgets
<1>15. ASSUME NEW e \in Exec, Remove(e) PROVE Real'
  BY <1>15 DEF Remove, At, Goto, semaphores, request, daemon, budgets
<1>16. ASSUME NEW e \in Exec, Close(e) PROVE Real'
  BY <1>16 DEF Close, At, StatusOf, Returns, Finished, semaphores, request, daemon, budgets
<1>17. ASSUME NEW e \in Exec, ReportFails(e) PROVE Real'
  BY <1>17 DEF ReportFails, At, Returns, Finished, semaphores, request, daemon, budgets
<1>18. ASSUME NEW e \in Exec, InsertFails(e) PROVE Real'
  BY <1>18 DEF InsertFails, Fault, At, Returns, Finished, semaphores, request, daemon, budgets
<1>19. ASSUME NEW e \in Exec, RemoveFails(e) PROVE Real'
  BY <1>19 DEF RemoveFails, Fault, At, Goto, semaphores, request, daemon, budgets
<1>20. ASSUME NEW e \in Exec, CloseFails(e) PROVE Real'
  BY <1>20 DEF CloseFails, Fault, At, Returns, Finished, semaphores, request, daemon, budgets
<1>21. ASSUME NEW n \in Exec, ContainerEnds(n) PROVE Real'
  BY <1>21 DEF ContainerEnds, At, semaphores, request, daemon, budgets
<1>22. CASE ChangeSettings
  BY <1>22 DEF ChangeSettings, At, semaphores, request, daemon, budgets
<1>23. CASE Crash
  BY <1>23 DEF Crash, Fault, Finished, At, semaphores, request, daemon, budgets
<1>24. CASE UNCHANGED vars
  BY <1>24 DEF vars, At, semaphores, request, daemon, budgets
<1> QED
  BY <1>1, <1>2, <1>3, <1>4, <1>5, <1>6, <1>7, <1>8, <1>9, <1>10, <1>11, <1>12, <1>13, <1>14, <1>15, <1>16, <1>17, <1>18, <1>19, <1>20, <1>21, <1>22, <1>23, <1>24, <1>25 DEF Next, Step

\* No step leaves a container alone.
LEMMA ContainedStep == TypeOK /\ Progress /\ Real /\ Contained /\ [Next]_vars => Contained'
<1> SUFFICES ASSUME TypeOK /\ Progress /\ Real /\ Contained, [Next]_vars PROVE Contained'
  OBVIOUS
<1> USE SandboxAssumption DEF TypeOK, Progress, Real, Contained, Thread, Stage, Result, Final, Recorded
<1>1. ASSUME NEW e \in Exec, InsertRecord(e) PROVE Contained'
  BY <1>1 DEF InsertRecord, Arrives, SameKey, Recorded, At, semaphores, request, daemon, budgets
<1>2. ASSUME NEW e \in Exec, AnswerExisting(e) PROVE Contained'
  BY <1>2 DEF AnswerExisting, Arrives, SameKey, Recorded, At, Returns, Finished, semaphores, request, daemon, budgets
<1>3. ASSUME NEW e \in Exec, InvokeRefused(e) PROVE Contained'
  BY <1>3 DEF InvokeRefused, At, Returns, Finished, semaphores, request, daemon, budgets
<1>4. ASSUME NEW e \in Exec, Prepare(e) PROVE Contained'
  BY <1>4 DEF Prepare, At, Goto, semaphores, request, daemon, budgets
<1>5. ASSUME NEW e \in Exec, Deny(e) PROVE Contained'
  BY <1>5 DEF Deny, At, Ends, semaphores, request, daemon, budgets
<1>6. ASSUME NEW e \in Exec, CreateSemaphore(e) PROVE Contained'
  BY <1>6 DEF CreateSemaphore, At, Goto, semaphores, request, daemon, budgets
<1>7. ASSUME NEW e \in Exec, PublishLimit(e) PROVE Contained'
  BY <1>7 DEF PublishLimit, At, Goto, semaphores, request, daemon, budgets
<1>8. ASSUME NEW e \in Exec, TakeSemaphore(e) PROVE Contained'
  BY <1>8 DEF TakeSemaphore, At, semaphores, request, daemon, budgets
<1>9. ASSUME NEW e \in Exec, Start(e) PROVE Contained'
  BY <1>9 DEF Start, Acquire, At, Goto, semaphores, request, daemon, budgets
<1>10. ASSUME NEW e \in Exec, StartFails(e) PROVE Contained'
  BY <1>10 DEF StartFails, Acquire, At, Ends, semaphores, request, daemon, budgets
<1>11. ASSUME NEW e \in Exec, Exit(e) PROVE Contained'
  BY <1>11 DEF Exit, At, Ends, semaphores, request, daemon, budgets
<1>12. ASSUME NEW e \in Exec, Killed(e) PROVE Contained'
  BY <1>12 DEF Killed, At, Ends, semaphores, request, daemon, budgets
<1>13. ASSUME NEW e \in Exec, Timeout(e) PROVE Contained'
  BY <1>13 DEF Timeout, At, Ends, semaphores, request, daemon, budgets
<1>25. ASSUME NEW e \in Exec, Abandon(e) PROVE Contained'
  BY <1>25 DEF Abandon, At, Ends, semaphores, request, daemon, budgets
<1>14. ASSUME NEW e \in Exec, Release(e) PROVE Contained'
  BY <1>14 DEF Release, At, Goto, semaphores, request, daemon, budgets
<1>15. ASSUME NEW e \in Exec, Remove(e) PROVE Contained'
  BY <1>15 DEF Remove, At, Goto, semaphores, request, daemon, budgets
<1>16. ASSUME NEW e \in Exec, Close(e) PROVE Contained'
  BY <1>16 DEF Close, At, StatusOf, Returns, Finished, semaphores, request, daemon, budgets
<1>17. ASSUME NEW e \in Exec, ReportFails(e) PROVE Contained'
  BY <1>17 DEF ReportFails, At, Returns, Finished, semaphores, request, daemon, budgets
<1>18. ASSUME NEW e \in Exec, InsertFails(e) PROVE Contained'
  BY <1>18 DEF InsertFails, Fault, At, Returns, Finished, semaphores, request, daemon, budgets
<1>19. ASSUME NEW e \in Exec, RemoveFails(e) PROVE Contained'
  BY <1>19 DEF RemoveFails, Fault, At, Goto, semaphores, request, daemon, budgets
<1>20. ASSUME NEW e \in Exec, CloseFails(e) PROVE Contained'
  BY <1>20 DEF CloseFails, Fault, At, Returns, Finished, semaphores, request, daemon, budgets
<1>21. ASSUME NEW n \in Exec, ContainerEnds(n) PROVE Contained'
  BY <1>21 DEF ContainerEnds, At, semaphores, request, daemon, budgets
<1>22. CASE ChangeSettings
  BY <1>22 DEF ChangeSettings, At, semaphores, request, daemon, budgets
<1>23. CASE Crash
  BY <1>23 DEF Crash, Fault, Finished, At, semaphores, request, daemon, budgets
<1>24. CASE UNCHANGED vars
  BY <1>24 DEF vars, At, semaphores, request, daemon, budgets
<1> QED
  BY <1>1, <1>2, <1>3, <1>4, <1>5, <1>6, <1>7, <1>8, <1>9, <1>10, <1>11, <1>12, <1>13, <1>14, <1>15, <1>16, <1>17, <1>18, <1>19, <1>20, <1>21, <1>22, <1>23, <1>24, <1>25 DEF Next, Step

\* The invariant holds at the start.
LEMMA InitInv == Init => IInv
BY SandboxAssumption DEF Init, IInv, TypeOK, Progress, KeyRunsOnce, Real, Contained, Thread, Stage, Result, Final, Recorded, At

\* The inductive invariant.
THEOREM Inductive == Spec => []IInv
<1>1. IInv /\ [Next]_vars => IInv'
  BY TypeStep, ProgressStep, KeyStep, RealStep, ContainedStep DEF IInv
<1> QED
  BY InitInv, <1>1, PTL DEF Spec

\* Every variable keeps its type.
THEOREM TypeCorrect == Spec => []TypeOK
BY Inductive, PTL DEF IInv

\* Where the unique index exists, requests with one key share one record and one answer
\* (sandbox.py:224-241).
THEOREM KeysOnce == Spec => []KeyRunsOnce
BY Inductive, PTL DEF IInv

\* Without faults, a record is open exactly as long as its thread lives
\* (sandbox.py:260-318).
THEOREM Closed == Spec => []RecordsAreClosed
<1>1. IInv => RecordsAreClosed
  BY DEF IInv, TypeOK, Progress, RecordsAreClosed, At, Thread
<1> QED
  BY <1>1, Inductive, PTL

\* A record says succeeded only of an execution whose own container ended well and whose
\* output is listed, for any number of threads, namesakes, crashes and failed removals
\* (runner_docker.py:229-243, sandbox.py:301-318).
THEOREM Successes == Spec => []SuccessIsReal
<1>1. IInv => SuccessIsReal
  BY DEF IInv, Real, SuccessIsReal, Observation
<1> QED
  BY <1>1, Inductive, PTL

\* A final status is never replaced, not even by a failure that follows
\* (sandbox.py:155-197).
THEOREM Frozen == Spec => FinalIsFinal
<1>1. IInv /\ [Next]_vars => [\A e \in Exec : rec[e] \in Final => rec'[e] = rec[e]]_vars
  <2> SUFFICES ASSUME IInv, Next, NEW e \in Exec, rec[e] \in Final PROVE rec'[e] = rec[e]
    BY DEF vars
  <2> USE DEF IInv, TypeOK, Progress, Final, At
  <2>1. CASE \E d \in Exec : InsertRecord(d)
    BY <2>1 DEF InsertRecord, Arrives
  <2>2. CASE \E d \in Exec : Close(d) \/ ReportFails(d)
    BY <2>2 DEF Close, ReportFails
  <2>3. CASE UNCHANGED rec
    BY <2>3
  <2> QED
    BY <2>1, <2>2, <2>3 DEF Next, Step, AnswerExisting, InvokeRefused, Prepare, Deny, CreateSemaphore,
       PublishLimit, TakeSemaphore, Start, StartFails, Acquire, Exit, Killed, Timeout, Abandon, Release, Remove,
       InsertFails, RemoveFails, CloseFails, ContainerEnds, ChangeSettings, Crash
<1> QED
  BY <1>1, Inductive, PTL DEF Spec, FinalIsFinal

-----------------------------------------------------------------------------
(* The policy.                                                             *)

\* A limit out of the settings is between the floor and the cap.
LEMMA SettingsCapped ==
    ASSUME NEW f \in Limits, NEW x \in Int \cup {None}
    PROVE  FromSettings(f, x) \in Int /\ FromSettings(f, x) <= f.cap
BY SandboxAssumption DEF FromSettings

\* One more limit never loosens the base, and is obeyed when it is acceptable.
LEMMA StricterIsLeast ==
    ASSUME NEW f \in Limits, NEW base \in Int, NEW x \in Int \cup {None}
    PROVE  /\ Stricter(f, base, x) \in Int
           /\ Stricter(f, base, x) <= base
           /\ x # None /\ x >= f.floor => Stricter(f, base, x) <= x
           /\ Stricter(f, base, x) = base
              \/ (Stricter(f, base, x) = x /\ x # None /\ x >= f.floor)
BY SandboxAssumption DEF Stricter

\* The effective limit is the strictest of the acceptable ones, whatever the settings,
\* the manifest and the request say (runner_docker.py:37-125).
THEOREM PolicyStrictest == PolicyIsStrictest
<1>1. SUFFICES ASSUME NEW f \in Limits, NEW s \in Value \cup Setting,
                      NEW m \in Value, NEW o \in Value
               PROVE  LET legal == {FromSettings(f, s)} \cup {x \in {m, o} \ {None} : x >= f.floor} IN
                      /\ Policy(f, s, m, o) \in legal
                      /\ \A x \in legal : Policy(f, s, m, o) <= x
  BY DEF PolicyIsStrictest
<1> DEFINE base == FromSettings(f, s)
           both == Stricter(f, base, m)
<1>2. s \in Int \cup {None} /\ m \in Int \cup {None} /\ o \in Int \cup {None}
  BY <1>1, SandboxAssumption
<1>3. base \in Int
  BY <1>2, SettingsCapped
<1>4. /\ both \in Int /\ both <= base
      /\ m # None /\ m >= f.floor => both <= m
      /\ both = base \/ (both = m /\ m # None /\ m >= f.floor)
  BY <1>2, <1>3, StricterIsLeast
<1>5. /\ Policy(f, s, m, o) \in Int /\ Policy(f, s, m, o) <= both
      /\ o # None /\ o >= f.floor => Policy(f, s, m, o) <= o
      /\ Policy(f, s, m, o) = both \/ (Policy(f, s, m, o) = o /\ o # None /\ o >= f.floor)
  BY <1>2, <1>4, StricterIsLeast DEF Policy
<1> QED
  BY <1>2, <1>3, <1>4, <1>5

-----------------------------------------------------------------------------
(* The cleaning up.                                                        *)

\* A container outlives the thread that waited for it only if its execution is recorded as
\* failed, unless docker rm fails or core-api dies; the limits it ran under were the
\* strictest, and every variable has its type (runner_docker.py:343-356, sandbox.py:295).
THEOREM Tidy == Spec => []SandboxIsTidy
<1>1. IInv => NoSilentLeftover
  BY DEF IInv, TypeOK, Contained, NoSilentLeftover, At
<1>2. IInv => SandboxIsTidy
  BY <1>1, PolicyStrictest DEF IInv, SandboxIsTidy
<1> QED
  BY <1>2, Inductive, PTL
=============================================================================
