--------------------------- MODULE RunQueueProofs ---------------------------
(***************************************************************************)
(* Proofs about RunQueue, for any number of runs and workers, any lease,   *)
(* any limit of attempts and any number of faults: IInv is inductive, and  *)
(* the safety properties of RunQueue follow from it.                       *)
(***************************************************************************)
EXTENDS RunQueue, TLAPS

\* The names whose definitions are plain abbreviations.
USE DEF Final, Statuses, NoLease, Working, Positions, Outcomes, table, loop, vars

\* Every variable stays in its domain, and exactly the workers in an iteration
\* of the loop have a run in hand.
LEMMA TypeStep == TypeOK /\ [Next]_vars => TypeOK'
<1> SUFFICES ASSUME TypeOK, [Next]_vars PROVE TypeOK'
  OBVIOUS
<1> USE RunQueueAssumption
<1>1. ASSUME NEW r \in Runs, CreateRun(r) PROVE TypeOK'
  BY <1>1 DEF TypeOK, CreateRun
<1>2. ASSUME NEW r \in Runs, CancelRun(r) PROVE TypeOK'
  BY <1>2 DEF TypeOK, CancelRun
<1>3. ASSUME NEW r \in Runs, DeleteRun(r) PROVE TypeOK'
  BY <1>3 DEF TypeOK, DeleteRun
<1>4. ASSUME NEW r \in Runs, WaitGetsStale(r) PROVE TypeOK'
  BY <1>4 DEF TypeOK, WaitGetsStale
<1>5. ASSUME NEW w \in Workers, FetchCandidate(w) PROVE TypeOK'
  <2>1. Candidates \subseteq Runs
    BY DEF Candidates
  <2> QED
    BY <1>5, <2>1 DEF TypeOK, FetchCandidate
<1>6. ASSUME NEW w \in Workers, ClaimWon(w) PROVE TypeOK'
  <2>1. job[w] \in Runs
    BY <1>6 DEF TypeOK, ClaimWon
  <2>2. NextAttempt(job[w]) \in 0..(MaxAttempts + 1)
    <3>1. attempt[job[w]] \in 0..(MaxAttempts + 1) /\ MaxAttempts \in Nat
      BY <2>1 DEF TypeOK, RunQueueAssumption
    <3> QED
      BY <3>1 DEF NextAttempt
  <2>3. /\ status' \in [Runs -> Statuses]
        /\ worker_id' \in [Runs -> Workers \cup {NoWorker}]
        /\ lease' \in [Runs -> 0..LeaseTicks \cup {NoLease}]
        /\ attempt' \in [Runs -> 0..(MaxAttempts + 1)]
    BY <1>6, <2>1, <2>2 DEF TypeOK, ClaimWon
  <2>4. /\ pc' \in [Workers -> Positions]
        /\ claimNo' \in [Workers -> 0..(MaxAttempts + 1)]
        /\ hold' \in [Workers -> 0..LeaseTicks]
        /\ \A v \in Workers : job'[v] = NoRun <=> pc'[v] \in {"idle", "down", "emitting"}
    BY <1>6, <2>1, <2>2 DEF TypeOK, ClaimWon
  <2> QED
    BY <1>6, <2>3, <2>4 DEF TypeOK, ClaimWon
<1>7. ASSUME NEW w \in Workers, ClaimLost(w) PROVE TypeOK'
  BY <1>7 DEF TypeOK, ClaimLost, Leave
<1>8. ASSUME NEW w \in Workers, RereadGone(w) PROVE TypeOK'
  BY <1>8 DEF TypeOK, RereadGone, Leave
<1>9. ASSUME NEW w \in Workers, RereadClaimed(w) PROVE TypeOK'
  <2>1. job[w] \in Runs
    BY <1>9 DEF TypeOK, RereadClaimed
  <2>2. seen' \in [Workers -> Statuses]
    BY <1>9, <2>1 DEF TypeOK, RereadClaimed
  <2>3. PICK p \in {"starting", "finishing"}, o \in Outcomes, n \in 0..(MaxAttempts + 1) :
            /\ pc' = [pc EXCEPT ![w] = p]
            /\ outcome' = [outcome EXCEPT ![w] = o]
            /\ claimNo' = [claimNo EXCEPT ![w] = n]
            /\ UNCHANGED <<job, hold, beat>>
    <3>1. 0 \in 0..(MaxAttempts + 1)
      BY DEF RunQueueAssumption
    <3>2. CASE Conclude(w, "canceled")
      BY <3>1, <3>2 DEF Conclude, Outcomes
    <3>3. CASE Conclude(w, "raised")
      BY <3>1, <3>3 DEF Conclude, Outcomes
    <3>4. CASE /\ pc' = [pc EXCEPT ![w] = "starting"]
               /\ UNCHANGED <<job, claimNo, hold, beat, outcome>>
      <4>1. outcome[w] \in Outcomes /\ outcome = [outcome EXCEPT ![w] = outcome[w]]
        BY DEF TypeOK
      <4>2. claimNo[w] \in 0..(MaxAttempts + 1) /\ claimNo = [claimNo EXCEPT ![w] = claimNo[w]]
        BY DEF TypeOK
      <4> QED
        BY <3>4, <4>1, <4>2
    <3> QED
      BY <1>9, <3>2, <3>3, <3>4 DEF RereadClaimed
  <2>4. pc[w] = "claimed"
    BY <1>9 DEF RereadClaimed
  <2> QED
    BY <1>9, <2>1, <2>2, <2>3, <2>4 DEF TypeOK, RereadClaimed
<1>10. ASSUME NEW w \in Workers, StartGone(w) PROVE TypeOK'
  BY <1>10 DEF TypeOK, StartGone, Leave
<1>11. ASSUME NEW w \in Workers, StartHandler(w) PROVE TypeOK'
  <2>1. job[w] \in Runs
    BY <1>11 DEF TypeOK, StartHandler
  <2>2. started' \in [Runs -> SUBSET (0..(MaxAttempts + 1))]
    <3> DEFINE N == 0..(MaxAttempts + 1)
    <3>1. started \in [Runs -> SUBSET N] /\ claimNo[w] \in N
      BY DEF TypeOK
    <3>2. started' = [started EXCEPT ![job[w]] = started[job[w]] \cup {claimNo[w]}]
      BY <1>11 DEF StartHandler
    <3> HIDE DEF N
    <3>3. started[job[w]] \cup {claimNo[w]} \in SUBSET N
      BY <3>1, <2>1
    <3>4. started' \in [Runs -> SUBSET N]
      BY <3>1, <3>2, <3>3
    <3> QED
      BY <3>4 DEF N
  <2>3. /\ pc' \in [Workers -> Positions]
        /\ beat' \in [Workers -> 0..BeatTicks]
        /\ claimNo' \in [Workers -> 0..(MaxAttempts + 1)]
        /\ \A v \in Workers : job'[v] = NoRun <=> pc'[v] \in {"idle", "down", "emitting"}
    BY <1>11 DEF TypeOK, StartHandler, RunQueueAssumption
  <2> QED
    BY <1>11, <2>2, <2>3 DEF TypeOK, StartHandler
<1>12. ASSUME NEW w \in Workers, BeatCheck(w) PROVE TypeOK'
  BY <1>12 DEF TypeOK, BeatCheck, Conclude
<1>13. ASSUME NEW w \in Workers, BeatRenew(w) PROVE TypeOK'
  BY <1>13 DEF TypeOK, BeatRenew
<1>14. ASSUME NEW w \in Workers, BeatRefused(w) PROVE TypeOK'
  BY <1>14 DEF TypeOK, BeatRefused, Conclude
<1>15. ASSUME NEW w \in Workers, HandlerEnds(w) PROVE TypeOK'
  <2>1. PICK o \in {"success", "failed", "raised"} : Conclude(w, o)
    BY <1>15 DEF HandlerEnds
  <2>2. pc[w] \in {"body", "starting"}
    BY <1>15 DEF HandlerEnds
  <2> QED
    BY <1>15, <2>1, <2>2 DEF TypeOK, HandlerEnds, Conclude
<1>16. ASSUME NEW w \in Workers, YieldWaitingChild(w) PROVE TypeOK'
  <2>1. job[w] \in Runs /\ pc[w] = "body"
    BY <1>16 DEF TypeOK, YieldWaitingChild
  <2>2. CASE Leave(w, "idle")
    BY <1>16, <2>1, <2>2 DEF TypeOK, YieldWaitingChild, Leave
  <2>3. CASE Conclude(w, "failed") /\ UNCHANGED seen
    BY <1>16, <2>1, <2>3 DEF TypeOK, YieldWaitingChild, Conclude
  <2> QED
    BY <1>16, <2>2, <2>3 DEF YieldWaitingChild
<1>17. ASSUME NEW w \in Workers, FindWaiting(w) PROVE TypeOK'
  <2>1. CASE Leave(w, "idle")
    BY <1>17, <2>1 DEF TypeOK, FindWaiting, Leave
  <2>2. CASE Conclude(w, "failed")
    <3>1. job[w] \in Runs /\ pc[w] = "body" /\ UNCHANGED seen
      BY <1>17, <2>2 DEF TypeOK, FindWaiting, Leave, Conclude
    <3>2. UNCHANGED <<table, started, faults>>
      BY <1>17 DEF FindWaiting
    <3> QED
      BY <2>2, <3>1, <3>2 DEF TypeOK, Conclude
  <2> QED
    BY <1>17, <2>1, <2>2 DEF FindWaiting
<1>18. ASSUME NEW w \in Workers, FindOverdueWait(w) PROVE TypeOK'
  BY <1>18 DEF TypeOK, FindOverdueWait, Conclude
<1>19. ASSUME NEW w \in Workers, Complete(w) PROVE TypeOK'
  BY <1>19 DEF TypeOK, Complete, Leave, OutcomeStatus
<1>20. ASSUME NEW w \in Workers, CompleteGone(w) PROVE TypeOK'
  BY <1>20 DEF TypeOK, CompleteGone, Leave
<1>21. ASSUME NEW w \in Workers, EmitReturns(w) PROVE TypeOK'
  BY <1>21 DEF TypeOK, EmitReturns, Leave
<1>22. ASSUME NEW w \in Workers, DatabaseError(w) PROVE TypeOK'
  BY <1>22 DEF TypeOK, DatabaseError, Leave
<1>23. ASSUME NEW w \in Workers, Crash(w) PROVE TypeOK'
  BY <1>23 DEF TypeOK, Crash, Leave
<1>24. ASSUME NEW w \in Workers, Restart(w) PROVE TypeOK'
  BY <1>24 DEF TypeOK, Restart
<1>25. ASSUME Tick PROVE TypeOK'
  BY <1>25 DEF TypeOK, Tick, Down1
<1>26. CASE UNCHANGED vars
  BY <1>26 DEF TypeOK
<1> QED
  BY <1>1, <1>2, <1>3, <1>4, <1>5, <1>6, <1>7, <1>8, <1>9, <1>10, <1>11, <1>12, <1>13,
     <1>14, <1>15, <1>16, <1>17, <1>18, <1>19, <1>20, <1>21, <1>22, <1>23, <1>24, <1>25,
     <1>26 DEF Next, Api, Progress, HandlerStops

-----------------------------------------------------------------------------
(* The lease part of the invariant.                                        *)

LeaseInv == RunningHasLease /\ HeldLeaseIsRowLease /\ LeaseMutex

\* A step that leaves the rows alone and lets one worker keep or lose what it
\* held keeps the lease part of the invariant.
LEMMA LeaseKept ==
  ASSUME TypeOK, LeaseInv, NEW w \in Workers,
         UNCHANGED <<status, worker_id, lease>>,
         \A v \in Workers : v # w => pc'[v] = pc[v] /\ job'[v] = job[v] /\ hold'[v] = hold[v],
         \/ pc'[w] \notin Working
         \/ pc[w] \in Working /\ job'[w] = job[w] /\ hold'[w] = hold[w]
  PROVE  LeaseInv'
<1>1. RunningHasLease'
  BY DEF LeaseInv, RunningHasLease
<1>2. HeldLeaseIsRowLease'
  BY DEF LeaseInv, HeldLeaseIsRowLease
<1>3. LeaseMutex'
  BY DEF LeaseInv, LeaseMutex
<1> QED
  BY <1>1, <1>2, <1>3 DEF LeaseInv

\* The two ways a worker's locals change with no write to a row.
LEMMA LeaseLeave ==
  ASSUME TypeOK, LeaseInv, NEW w \in Workers, NEW p \in {"idle", "down"},
         Leave(w, p), UNCHANGED <<status, worker_id, lease>>
  PROVE  LeaseInv'
<1>1. pc'[w] \notin Working
  BY DEF Leave, TypeOK
<1>2. \A v \in Workers : v # w => pc'[v] = pc[v] /\ job'[v] = job[v] /\ hold'[v] = hold[v]
  BY DEF Leave, TypeOK
<1> QED
  BY <1>1, <1>2, LeaseKept

LEMMA LeaseConclude ==
  ASSUME TypeOK, LeaseInv, NEW w \in Workers, NEW o, pc[w] \in Working,
         Conclude(w, o), UNCHANGED <<status, worker_id, lease>>
  PROVE  LeaseInv'
<1>1. job'[w] = job[w] /\ hold'[w] = hold[w]
  BY DEF Conclude
<1>2. \A v \in Workers : v # w => pc'[v] = pc[v] /\ job'[v] = job[v] /\ hold'[v] = hold[v]
  BY DEF Conclude, TypeOK
<1> QED
  BY <1>1, <1>2, LeaseKept

\* A write that settles a row takes no worker's lease away and gives none.
LEMMA LeaseSettled ==
  ASSUME TypeOK, LeaseInv, NEW r \in Runs,
         status'[r] \in Final \cup {"WAITING_CHILD", "DELETED"}, lease'[r] = NoLease,
         \A q \in Runs : q # r => /\ status'[q] = status[q] /\ lease'[q] = lease[q]
                                 /\ worker_id'[q] = worker_id[q],
         \A v \in Workers : pc'[v] \in Working =>
             pc[v] \in Working /\ job'[v] = job[v] /\ hold'[v] = hold[v]
  PROVE  LeaseInv'
<1>1. RunningHasLease'
  BY DEF LeaseInv, RunningHasLease
<1>2. HeldLeaseIsRowLease'
  <2> SUFFICES ASSUME NEW v \in Workers, pc'[v] \in Working, hold'[v] > 0
               PROVE  \/ status'[job'[v]] \in Final \cup {"WAITING_CHILD", "DELETED"}
                      \/ /\ status'[job'[v]] = "RUNNING" /\ worker_id'[job'[v]] = v
                         /\ lease'[job'[v]] = hold'[v]
    BY DEF HeldLeaseIsRowLease
  <2>1. job[v] \in Runs /\ job'[v] = job[v] /\ hold'[v] = hold[v] /\ pc[v] \in Working
    BY DEF TypeOK
  <2>2. CASE job[v] = r
    BY <2>1, <2>2
  <2>3. CASE job[v] # r
    BY <2>1, <2>3 DEF LeaseInv, HeldLeaseIsRowLease
  <2> QED
    BY <2>2, <2>3
<1>3. LeaseMutex'
  BY DEF LeaseInv, LeaseMutex
<1> QED
  BY <1>1, <1>2, <1>3 DEF LeaseInv

LEMMA LeaseStep == TypeOK /\ LeaseInv /\ [Next]_vars => LeaseInv'
<1> SUFFICES ASSUME TypeOK, LeaseInv, [Next]_vars PROVE LeaseInv'
  OBVIOUS
<1> USE RunQueueAssumption
<1>1. ASSUME NEW r \in Runs, CreateRun(r) PROVE LeaseInv'
  <2>1. RunningHasLease'
    BY <1>1 DEF CreateRun, TypeOK, LeaseInv, RunningHasLease
  <2>2. HeldLeaseIsRowLease'
    BY <1>1 DEF CreateRun, TypeOK, LeaseInv, HeldLeaseIsRowLease
  <2>3. LeaseMutex'
    BY <1>1 DEF CreateRun, LeaseInv, LeaseMutex
  <2> QED
    BY <2>1, <2>2, <2>3 DEF LeaseInv
<1>2. ASSUME NEW r \in Runs, CancelRun(r) PROVE LeaseInv'
  BY <1>2, LeaseSettled DEF CancelRun, TypeOK
<1>3. ASSUME NEW r \in Runs, DeleteRun(r) PROVE LeaseInv'
  BY <1>3, LeaseSettled DEF DeleteRun, TypeOK
<1>4. ASSUME NEW r \in Runs, WaitGetsStale(r) PROVE LeaseInv'
  <2>1. UNCHANGED <<status, worker_id, lease, pc, job, hold>>
    BY <1>4 DEF WaitGetsStale
  <2>2. RunningHasLease' /\ LeaseMutex'
    BY <2>1 DEF LeaseInv, RunningHasLease, LeaseMutex
  <2>3. HeldLeaseIsRowLease'
    BY <2>1 DEF LeaseInv, HeldLeaseIsRowLease
  <2> QED
    BY <2>2, <2>3 DEF LeaseInv
<1>5. ASSUME NEW w \in Workers, FetchCandidate(w) PROVE LeaseInv'
  <2>1. pc'[w] \notin Working
    BY <1>5 DEF FetchCandidate, TypeOK
  <2> QED
    BY <1>5, <2>1, LeaseKept DEF FetchCandidate, TypeOK
<1>6. ASSUME NEW w \in Workers, ClaimWon(w) PROVE LeaseInv'
  <2> DEFINE r == job[w]
  <2>1. /\ r \in Runs /\ pc[w] = "fetched" /\ Claimable(r)
        /\ status' = [status EXCEPT ![r] = "RUNNING"]
        /\ worker_id' = [worker_id EXCEPT ![r] = w]
        /\ lease' = [lease EXCEPT ![r] = LeaseTicks]
        /\ pc' = [pc EXCEPT ![w] = "claimed"]
        /\ hold' = [hold EXCEPT ![w] = LeaseTicks]
        /\ job' = job
    BY <1>6 DEF ClaimWon, TypeOK
  <2> HIDE DEF r
  \* Nobody who works on a claimable row still holds a lease.
  <2>2. ASSUME NEW v \in Workers, pc[v] \in Working, job[v] = r PROVE hold[v] = 0
    BY <2>1, <2>2 DEF Claimable, Expired, TypeOK, LeaseInv, HeldLeaseIsRowLease
  <2>3. RunningHasLease'
    BY <2>1 DEF TypeOK, LeaseInv, RunningHasLease
  <2>4. HeldLeaseIsRowLease'
    <3> SUFFICES ASSUME NEW v \in Workers, pc'[v] \in Working, hold'[v] > 0
                 PROVE  \/ status'[job'[v]] \in Final \cup {"WAITING_CHILD", "DELETED"}
                        \/ /\ status'[job'[v]] = "RUNNING" /\ worker_id'[job'[v]] = v
                           /\ lease'[job'[v]] = hold'[v]
      BY DEF HeldLeaseIsRowLease
    <3>1. CASE v = w
      BY <2>1, <3>1 DEF TypeOK, r
    <3>2. CASE v # w
      <4>1. pc[v] \in Working /\ hold[v] > 0 /\ job[v] \in Runs
        BY <2>1, <3>2 DEF TypeOK
      <4>2. job[v] # r
        BY <2>2, <4>1
      <4> QED
        BY <2>1, <4>1, <4>2, <3>2 DEF TypeOK, LeaseInv, HeldLeaseIsRowLease
    <3> QED
      BY <3>1, <3>2
  <2>5. LeaseMutex'
    BY <2>1, <2>2 DEF TypeOK, LeaseInv, LeaseMutex, r
  <2> QED
    BY <2>3, <2>4, <2>5 DEF LeaseInv
<1>7. ASSUME NEW w \in Workers, ClaimLost(w) PROVE LeaseInv'
  BY <1>7, LeaseLeave DEF ClaimLost
<1>8. ASSUME NEW w \in Workers, RereadGone(w) PROVE LeaseInv'
  BY <1>8, LeaseLeave DEF RereadGone
<1>9. ASSUME NEW w \in Workers, RereadClaimed(w) PROVE LeaseInv'
  <2>1. pc[w] = "claimed" /\ job'[w] = job[w] /\ hold'[w] = hold[w]
    BY <1>9 DEF RereadClaimed, Conclude
  <2>2. \A v \in Workers : v # w => pc'[v] = pc[v] /\ job'[v] = job[v] /\ hold'[v] = hold[v]
    BY <1>9 DEF RereadClaimed, Conclude, TypeOK
  <2> QED
    BY <1>9, <2>1, <2>2, LeaseKept DEF RereadClaimed
<1>10. ASSUME NEW w \in Workers, StartGone(w) PROVE LeaseInv'
  BY <1>10, LeaseLeave DEF StartGone
<1>11. ASSUME NEW w \in Workers, StartHandler(w) PROVE LeaseInv'
  <2>1. pc[w] = "starting" /\ job' = job /\ hold' = hold
    BY <1>11 DEF StartHandler
  <2>2. \A v \in Workers : v # w => pc'[v] = pc[v]
    BY <1>11 DEF StartHandler, TypeOK
  <2> QED
    BY <1>11, <2>1, <2>2, LeaseKept DEF StartHandler
<1>12. ASSUME NEW w \in Workers, BeatCheck(w) PROVE LeaseInv'
  <2>1. pc[w] = "body" /\ job'[w] = job[w] /\ hold'[w] = hold[w]
    BY <1>12 DEF BeatCheck, Conclude
  <2>2. \A v \in Workers : v # w => pc'[v] = pc[v] /\ job'[v] = job[v] /\ hold'[v] = hold[v]
    BY <1>12 DEF BeatCheck, Conclude, TypeOK
  <2> QED
    BY <1>12, <2>1, <2>2, LeaseKept DEF BeatCheck
<1>13. ASSUME NEW w \in Workers, BeatRenew(w) PROVE LeaseInv'
  <2> DEFINE r == job[w]
  <2>1. /\ r \in Runs /\ pc[w] = "beating" /\ status[r] = "RUNNING" /\ worker_id[r] = w
        /\ lease' = [lease EXCEPT ![r] = LeaseTicks]
        /\ pc' = [pc EXCEPT ![w] = "body"]
        /\ hold' = [hold EXCEPT ![w] = LeaseTicks]
        /\ UNCHANGED <<job, status, worker_id>>
    BY <1>13 DEF BeatRenew, Renewable, TypeOK
  <2> HIDE DEF r
  \* The row is this worker's, so no other worker holds a lease on it.
  <2>2. ASSUME NEW v \in Workers, v # w, pc[v] \in Working, job[v] = r PROVE hold[v] = 0
    BY <2>1, <2>2 DEF TypeOK, LeaseInv, HeldLeaseIsRowLease
  <2>3. RunningHasLease'
    BY <2>1 DEF TypeOK, LeaseInv, RunningHasLease
  <2>4. HeldLeaseIsRowLease'
    BY <2>1, <2>2 DEF TypeOK, LeaseInv, HeldLeaseIsRowLease, r
  <2>5. LeaseMutex'
    BY <2>1, <2>2 DEF TypeOK, LeaseInv, LeaseMutex, r
  <2> QED
    BY <2>3, <2>4, <2>5 DEF LeaseInv
<1>14. ASSUME NEW w \in Workers, BeatRefused(w) PROVE LeaseInv'
  BY <1>14, LeaseConclude DEF BeatRefused
<1>15. ASSUME NEW w \in Workers, HandlerEnds(w) PROVE LeaseInv'
  <2>1. PICK o \in {"success", "failed", "raised"} : Conclude(w, o)
    BY <1>15 DEF HandlerEnds
  <2> QED
    BY <1>15, <2>1, LeaseConclude DEF HandlerEnds
<1>16. ASSUME NEW w \in Workers, YieldWaitingChild(w) PROVE LeaseInv'
  <2>1. job[w] \in Runs
    BY <1>16 DEF YieldWaitingChild, TypeOK
  <2>2. \A v \in Workers : pc'[v] \in Working =>
            pc[v] \in Working /\ job'[v] = job[v] /\ hold'[v] = hold[v]
    BY <1>16 DEF YieldWaitingChild, Leave, Conclude, TypeOK
  <2>3. /\ status'[job[w]] = "WAITING_CHILD" /\ lease'[job[w]] = NoLease
        /\ \A q \in Runs : q # job[w] => /\ status'[q] = status[q] /\ lease'[q] = lease[q]
                                        /\ worker_id'[q] = worker_id[q]
    BY <1>16, <2>1 DEF YieldWaitingChild, TypeOK
  <2> QED
    BY <2>1, <2>2, <2>3, LeaseSettled
<1>17. ASSUME NEW w \in Workers, FindWaiting(w) PROVE LeaseInv'
  BY <1>17, LeaseLeave, LeaseConclude DEF FindWaiting
<1>18. ASSUME NEW w \in Workers, FindOverdueWait(w) PROVE LeaseInv'
  BY <1>18, LeaseConclude DEF FindOverdueWait
<1>19. ASSUME NEW w \in Workers, Complete(w) PROVE LeaseInv'
  <2>1. job[w] \in Runs
    BY <1>19 DEF Complete, TypeOK
  <2>2. \A v \in Workers : pc'[v] \in Working =>
            pc[v] \in Working /\ job'[v] = job[v] /\ hold'[v] = hold[v]
    BY <1>19 DEF Complete, Leave, TypeOK
  <2>3. /\ status'[job[w]] \in Final /\ lease'[job[w]] = NoLease
        /\ \A q \in Runs : q # job[w] => /\ status'[q] = status[q] /\ lease'[q] = lease[q]
                                        /\ worker_id'[q] = worker_id[q]
    BY <1>19, <2>1 DEF Complete, TypeOK, OutcomeStatus
  <2> QED
    BY <2>1, <2>2, <2>3, LeaseSettled
<1>20. ASSUME NEW w \in Workers, CompleteGone(w) PROVE LeaseInv'
  BY <1>20, LeaseLeave DEF CompleteGone
<1>21. ASSUME NEW w \in Workers, EmitReturns(w) PROVE LeaseInv'
  BY <1>21, LeaseLeave DEF EmitReturns
<1>22. ASSUME NEW w \in Workers, DatabaseError(w) PROVE LeaseInv'
  BY <1>22, LeaseLeave DEF DatabaseError
<1>23. ASSUME NEW w \in Workers, Crash(w) PROVE LeaseInv'
  BY <1>23, LeaseLeave DEF Crash
<1>24. ASSUME NEW w \in Workers, Restart(w) PROVE LeaseInv'
  <2>1. pc'[w] \notin Working
    BY <1>24 DEF Restart, TypeOK
  <2> QED
    BY <1>24, <2>1, LeaseKept DEF Restart, TypeOK
<1>25. ASSUME Tick PROVE LeaseInv'
  <2>1. RunningHasLease'
    BY <1>25 DEF Tick, Down1, TypeOK, LeaseInv, RunningHasLease
  <2>2. HeldLeaseIsRowLease'
    BY <1>25 DEF Tick, Down1, TypeOK, LeaseInv, HeldLeaseIsRowLease
  <2>3. LeaseMutex'
    BY <1>25 DEF Tick, Down1, TypeOK, LeaseInv, LeaseMutex
  <2> QED
    BY <2>1, <2>2, <2>3 DEF LeaseInv
<1>26. CASE UNCHANGED vars
  BY <1>26 DEF LeaseInv, RunningHasLease, HeldLeaseIsRowLease, LeaseMutex
<1> QED
  BY <1>1, <1>2, <1>3, <1>4, <1>5, <1>6, <1>7, <1>8, <1>9, <1>10, <1>11, <1>12,
     <1>13, <1>14, <1>15, <1>16, <1>17, <1>18, <1>19, <1>20, <1>21, <1>22, <1>23,
     <1>24, <1>25, <1>26 DEF Next, Api, Progress, HandlerStops

-----------------------------------------------------------------------------
(* The attempt part of the invariant.                                      *)

\* Steps that neither count an attempt nor start a handler: whoever has yet to
\* start had yet to start before, with the same run and number.
LEMMA AttemptsKept ==
  ASSUME TypeOK, AttemptNumbers, UNCHANGED <<attempt, started>>,
         \A v \in Workers : pc'[v] \in {"claimed", "starting"} =>
             /\ PreStart(v) /\ job'[v] = job[v] /\ claimNo'[v] = claimNo[v]
             /\ pc'[v] = "starting" => claimNo[v] <= MaxAttempts
  PROVE  AttemptNumbers'
  BY DEF AttemptNumbers, PreStart, TypeOK

LEMMA AttemptsStep == TypeOK /\ AttemptNumbers /\ [Next]_vars => AttemptNumbers'
<1> SUFFICES ASSUME TypeOK, AttemptNumbers, [Next]_vars PROVE AttemptNumbers'
  OBVIOUS
<1> USE RunQueueAssumption
<1> DEFINE Quiet == \A v \in Workers : pc'[v] \in {"claimed", "starting"} =>
                        PreStart(v) /\ pc'[v] = pc[v] /\ job'[v] = job[v] /\ claimNo'[v] = claimNo[v]
<1>1. ASSUME UNCHANGED <<attempt, started>>, Quiet PROVE AttemptNumbers'
  <2>1. \A v \in Workers : pc[v] = "starting" => claimNo[v] <= MaxAttempts
    BY DEF AttemptNumbers
  <2> QED
    BY <1>1, <2>1, AttemptsKept
<1>2. ASSUME NEW r \in Runs, Api(r) \/ WaitGetsStale(r) PROVE AttemptNumbers'
  <2>1. UNCHANGED <<pc, job, claimNo, attempt>>
    BY <1>2 DEF Api, CreateRun, CancelRun, DeleteRun, WaitGetsStale
  <2>2. \A q \in Runs : started'[q] \subseteq started[q]
    BY <1>2 DEF Api, CreateRun, CancelRun, DeleteRun, WaitGetsStale, TypeOK
  <2>3. \A w \in Workers : PreStart(w) => job[w] \in Runs
    BY DEF PreStart, TypeOK
  <2> QED
    BY <2>1, <2>2, <2>3 DEF PreStart, AttemptNumbers
<1>3. ASSUME NEW w \in Workers, NEW p \in {"idle", "down"}, Leave(w, p),
             UNCHANGED <<attempt, started>>
      PROVE  AttemptNumbers'
  <2>1. Quiet
    BY <1>3 DEF Leave, PreStart, TypeOK
  <2> QED
    BY <1>1, <1>3, <2>1
<1>4. ASSUME NEW w \in Workers, NEW o, Conclude(w, o), UNCHANGED <<attempt, started>>
      PROVE  AttemptNumbers'
  <2>1. Quiet
    BY <1>4 DEF Conclude, PreStart, TypeOK
  <2> QED
    BY <1>1, <1>4, <2>1
<1>5. ASSUME NEW w \in Workers, FetchCandidate(w) PROVE AttemptNumbers'
  <2>1. Quiet
    BY <1>5 DEF FetchCandidate, PreStart, TypeOK
  <2> QED
    BY <1>1, <1>5, <2>1 DEF FetchCandidate
\* A claim within the limit takes a number above all that were given before.
<1>6. ASSUME NEW w \in Workers, ClaimWon(w) PROVE AttemptNumbers'
  <2> DEFINE r == job[w]  n == NextAttempt(r)
  <2>1. /\ r \in Runs /\ job' = job /\ started' = started
        /\ attempt' = [attempt EXCEPT ![r] = n]
        /\ pc' = [pc EXCEPT ![w] = "claimed"]
        /\ claimNo' = [claimNo EXCEPT ![w] = n]
    BY <1>6 DEF ClaimWon, TypeOK
  <2>2. /\ attempt[r] \in 0..(MaxAttempts + 1)
        /\ n \in 1..(MaxAttempts + 1) /\ n >= attempt[r]
        /\ n <= MaxAttempts => n > attempt[r]
    <3>1. attempt[r] \in 0..(MaxAttempts + 1) /\ MaxAttempts \in Nat
      BY <2>1 DEF TypeOK
    <3> QED
      BY <3>1 DEF NextAttempt
  <2> HIDE DEF r, n
  <2>3. /\ pc'[w] = "claimed" /\ claimNo'[w] = n /\ attempt'[r] = n /\ job[w] = r
        /\ \A v \in Workers : v # w => pc'[v] = pc[v] /\ claimNo'[v] = claimNo[v]
        /\ \A q \in Runs : q # r => attempt'[q] = attempt[q]
    BY <2>1 DEF TypeOK, r
  <2>4. ASSUME NEW v \in Workers, PreStart(v), v # w, job[v] = r
        PROVE  claimNo[v] \in 1..attempt[r]
    BY <2>4 DEF AttemptNumbers
  <2>5. \A q \in Runs : started[q] \subseteq 1..MaxAttempts /\ started[q] \subseteq 1..attempt[q]
    BY DEF AttemptNumbers
  <2>6. ASSUME NEW v \in Workers
        PROVE  /\ PreStart(v)' => claimNo'[v] \in 1..attempt'[job'[v]]
               /\ pc'[v] = "starting" => claimNo'[v] <= MaxAttempts
               /\ PreStart(v)' /\ claimNo'[v] <= MaxAttempts => claimNo'[v] \notin started'[job'[v]]
    <3>1. CASE v = w
      <4>1. /\ pc'[v] = "claimed" /\ claimNo'[v] = n /\ job'[v] = r
            /\ attempt'[r] = n /\ started' = started
        BY <3>1, <2>1, <2>3
      <4>2. n \in 1..n /\ n \in Nat
        BY <2>2
      <4>3. n <= MaxAttempts => n \notin started[r]
        BY <2>1, <2>2, <2>5
      <4> QED
        BY <4>1, <4>2, <4>3
    <3>2. CASE v # w
      <4>1. pc'[v] = pc[v] /\ claimNo'[v] = claimNo[v] /\ job'[v] = job[v] /\ started' = started
        BY <2>1, <2>3, <3>2
      <4>2. PreStart(v) => job[v] \in Runs /\ claimNo[v] \in 1..attempt[job[v]]
        BY DEF AttemptNumbers, PreStart, TypeOK
      <4>3. PreStart(v) => claimNo[v] \in 1..attempt'[job[v]]
        <5>1. CASE job[v] = r
          BY <4>2, <5>1, <2>2, <2>3 DEF TypeOK
        <5>2. CASE job[v] # r
          BY <4>2, <5>2, <2>3
        <5> QED
          BY <5>1, <5>2
      <4> QED
        BY <4>1, <4>3 DEF AttemptNumbers, PreStart
    <3> QED
      BY <3>1, <3>2
  <2>7. ASSUME NEW u \in Workers, NEW v \in Workers,
               u # v, PreStart(u)', PreStart(v)', job'[u] = job'[v]
        PROVE  claimNo'[u] # claimNo'[v] \/ claimNo'[v] > MaxAttempts
    <3>1. CASE u # w /\ v # w
      BY <2>1, <2>3, <2>7, <3>1 DEF AttemptNumbers, PreStart
    <3>2. CASE u = w
      BY <2>1, <2>2, <2>3, <2>4, <2>7, <3>2 DEF PreStart, TypeOK
    <3>3. CASE v = w
      BY <2>1, <2>2, <2>3, <2>4, <2>7, <3>3 DEF PreStart, TypeOK
    <3> QED
      BY <3>1, <3>2, <3>3
  <2>8. \A q \in Runs : started'[q] \subseteq 1..MaxAttempts /\ started'[q] \subseteq 1..attempt'[q]
    <3> SUFFICES ASSUME NEW q \in Runs
                 PROVE  started[q] \subseteq 1..MaxAttempts /\ started[q] \subseteq 1..attempt'[q]
      BY <2>1
    <3>1. CASE q = r
      BY <3>1, <2>2, <2>3, <2>5
    <3>2. CASE q # r
      BY <3>2, <2>3, <2>5
    <3> QED
      BY <3>1, <3>2
  <2> QED
    BY <2>6, <2>7, <2>8 DEF AttemptNumbers
<1>7. ASSUME NEW w \in Workers, RereadClaimed(w) PROVE AttemptNumbers'
  <2>1. /\ pc[w] = "claimed" /\ UNCHANGED <<job, attempt, started>>
        /\ \A v \in Workers : v # w => claimNo'[v] = claimNo[v]
        /\ pc'[w] \in {"claimed", "starting"} => claimNo'[w] = claimNo[w]
    BY <1>7 DEF RereadClaimed, Conclude, TypeOK
  <2>2. pc'[w] = "starting" => attempt[job[w]] <= MaxAttempts
    BY <1>7 DEF RereadClaimed, Conclude, TypeOK
  <2>3. job[w] \in Runs /\ claimNo[w] \in 1..attempt[job[w]]
    BY <2>1 DEF TypeOK, AttemptNumbers, PreStart
  <2>4. pc'[w] = "starting" => claimNo[w] <= MaxAttempts
    <3>1. attempt[job[w]] \in 0..(MaxAttempts + 1) /\ MaxAttempts \in Nat
      BY <2>3 DEF TypeOK
    <3> QED
      BY <2>2, <2>3, <3>1
  <2>5. \A v \in Workers : v # w => pc'[v] = pc[v]
    BY <1>7 DEF RereadClaimed, Conclude, TypeOK
  <2> QED
    BY <2>1, <2>4, <2>5, AttemptsKept DEF PreStart, AttemptNumbers
\* The number used is gone, and nobody else who has yet to start holds it.
<1>8. ASSUME NEW w \in Workers, StartHandler(w) PROVE AttemptNumbers'
  <2> DEFINE r == job[w]
  <2>1. /\ r \in Runs /\ pc[w] = "starting" /\ UNCHANGED <<job, attempt>>
        /\ claimNo' = [claimNo EXCEPT ![w] = 0]
        /\ pc' = [pc EXCEPT ![w] = "body"]
        /\ started'[r] = started[r] \cup {claimNo[w]}
        /\ \A q \in Runs : q # r => started'[q] = started[q]
    <3>1. r \in Runs
      BY <1>8 DEF StartHandler, TypeOK
    <3>2. started \in [Runs -> SUBSET (0..(MaxAttempts + 1))]
      BY DEF TypeOK
    <3> QED
      BY <1>8, <3>1, <3>2 DEF StartHandler
  <2> HIDE DEF r
  <2>2. /\ claimNo[w] \in 1..attempt[r] /\ claimNo[w] <= MaxAttempts
        /\ claimNo[w] \in 1..MaxAttempts
    BY <2>1 DEF AttemptNumbers, PreStart, TypeOK, r
  <2>3. \A v \in Workers : pc'[v] \in {"claimed", "starting"} =>
            v # w /\ PreStart(v) /\ pc'[v] = pc[v] /\ claimNo'[v] = claimNo[v]
    BY <2>1 DEF PreStart, TypeOK
  <2>4. ASSUME NEW v \in Workers, pc'[v] \in {"claimed", "starting"}, claimNo'[v] <= MaxAttempts
        PROVE  claimNo'[v] \notin started'[job'[v]]
    <3>1. /\ v # w /\ PreStart(v) /\ claimNo[v] <= MaxAttempts /\ job[v] \in Runs
          /\ claimNo[v] \notin started[job[v]] /\ claimNo'[v] = claimNo[v]
      BY <2>1, <2>3, <2>4 DEF AttemptNumbers, PreStart, TypeOK
    <3>2. CASE job[v] = r
      <4>1. claimNo[v] # claimNo[w]
        BY <2>1, <2>2, <3>1, <3>2 DEF AttemptNumbers, PreStart, r
      <4> QED
        BY <4>1, <3>1, <3>2, <2>1
    <3>3. CASE job[v] # r
      BY <3>1, <3>3, <2>1
    <3> QED
      BY <3>2, <3>3
  <2>5. \A q \in Runs : started'[q] \subseteq 1..MaxAttempts /\ started'[q] \subseteq 1..attempt[q]
    <3>1. \A q \in Runs : started[q] \subseteq 1..MaxAttempts /\ started[q] \subseteq 1..attempt[q]
      BY DEF AttemptNumbers
    <3> QED
      BY <3>1, <2>1, <2>2
  <2>6. \A v \in Workers :
          /\ pc'[v] \in {"claimed", "starting"} => claimNo'[v] \in 1..attempt'[job'[v]]
          /\ pc'[v] = "starting" => claimNo'[v] <= MaxAttempts
    BY <2>1, <2>3 DEF AttemptNumbers, PreStart
  <2>7. \A u, v \in Workers :
          (/\ u # v /\ job'[u] = job'[v]
           /\ pc'[u] \in {"claimed", "starting"} /\ pc'[v] \in {"claimed", "starting"})
             => claimNo'[u] # claimNo'[v] \/ claimNo'[v] > MaxAttempts
    BY <2>1, <2>3 DEF AttemptNumbers
  <2>8. \A v \in Workers :
          (pc'[v] \in {"claimed", "starting"} /\ claimNo'[v] <= MaxAttempts)
             => claimNo'[v] \notin started'[job'[v]]
    BY <2>4
  <2>9. \A q \in Runs : started'[q] \subseteq 1..MaxAttempts /\ started'[q] \subseteq 1..attempt'[q]
    <3>1. attempt' = attempt
      BY <2>1
    <3> QED
      BY <2>5, <3>1
  <2>10. (\A v \in Workers :
            /\ PreStart(v) => claimNo[v] \in 1..attempt[job[v]]
            /\ pc[v] = "starting" => claimNo[v] <= MaxAttempts
            /\ PreStart(v) /\ claimNo[v] <= MaxAttempts => claimNo[v] \notin started[job[v]])'
    BY <2>6, <2>8 DEF PreStart
  <2>11. (\A u, v \in Workers :
            (u # v /\ PreStart(u) /\ PreStart(v) /\ job[u] = job[v])
                => claimNo[u] # claimNo[v] \/ claimNo[v] > MaxAttempts)'
    BY <2>7 DEF PreStart
  <2> QED
    BY <2>9, <2>10, <2>11 DEF AttemptNumbers
<1>9. ASSUME NEW w \in Workers, BeatCheck(w) \/ BeatRefused(w) PROVE AttemptNumbers'
  <2>1. Quiet /\ UNCHANGED <<attempt, started>>
    BY <1>9 DEF BeatCheck, BeatRefused, Conclude, PreStart, TypeOK
  <2> QED
    BY <1>1, <2>1
<1>10. ASSUME NEW w \in Workers, BeatRenew(w) PROVE AttemptNumbers'
  <2>1. Quiet /\ UNCHANGED <<attempt, started>>
    BY <1>10 DEF BeatRenew, PreStart, TypeOK
  <2> QED
    BY <1>1, <2>1
<1>11. ASSUME NEW w \in Workers, HandlerStops(w) PROVE AttemptNumbers'
  BY <1>3, <1>4, <1>11
     DEF HandlerStops, HandlerEnds, YieldWaitingChild, FindWaiting, FindOverdueWait
<1>12. ASSUME NEW w \in Workers, Complete(w) PROVE AttemptNumbers'
  <2>1. Quiet /\ UNCHANGED <<attempt, started>>
    BY <1>12 DEF Complete, Leave, PreStart, TypeOK
  <2> QED
    BY <1>1, <2>1
<1>13. ASSUME NEW w \in Workers,
              \/ ClaimLost(w) \/ RereadGone(w) \/ StartGone(w) \/ CompleteGone(w)
              \/ EmitReturns(w) \/ DatabaseError(w) \/ Crash(w)
       PROVE  AttemptNumbers'
  BY <1>3, <1>13 DEF ClaimLost, RereadGone, StartGone, CompleteGone, EmitReturns, DatabaseError, Crash
<1>14. ASSUME NEW w \in Workers, Restart(w) PROVE AttemptNumbers'
  <2>1. Quiet /\ UNCHANGED <<attempt, started>>
    BY <1>14 DEF Restart, PreStart, TypeOK
  <2> QED
    BY <1>1, <2>1
<1>15. ASSUME Tick \/ UNCHANGED vars PROVE AttemptNumbers'
  <2>1. UNCHANGED <<pc, job, claimNo, attempt, started>>
    BY <1>15 DEF Tick
  <2> QED
    BY <1>1, <2>1 DEF PreStart
<1> QED
  BY <1>2, <1>5, <1>6, <1>7, <1>8, <1>9, <1>10, <1>11, <1>12, <1>13, <1>14, <1>15
     DEF Next, Progress

-----------------------------------------------------------------------------
(* The theorems.                                                           *)

LEMMA InitInv == Init => IInv
<1> SUFFICES ASSUME Init PROVE IInv
  OBVIOUS
<1> USE RunQueueAssumption
<1>1. TypeOK
  BY DEF Init, TypeOK
<1>2. RunningHasLease /\ HeldLeaseIsRowLease /\ LeaseMutex
  BY DEF Init, RunningHasLease, HeldLeaseIsRowLease, LeaseMutex
<1>3. AttemptNumbers
  BY DEF Init, AttemptNumbers, PreStart
<1> QED
  BY <1>1, <1>2, <1>3 DEF IInv

\* Every variable of the queue stays in its domain.
THEOREM TypeCorrect == Spec => []TypeOK
<1>1. Init => TypeOK
  BY InitInv DEF IInv
<1> QED
  BY <1>1, TypeStep, PTL DEF Spec

\* The invariant is inductive: rows and workers agree on leases and attempts.
THEOREM Inductive == Spec => []IInv
<1>1. IInv /\ [Next]_vars => IInv'
  BY TypeStep, LeaseStep, AttemptsStep DEF IInv, LeaseInv
<1> QED
  BY <1>1, InitInv, PTL DEF Spec

\* Two workers never work on one run under leases that both have not run out
\* (claim_run and heartbeat of queue.py).
THEOREM LeaseMutexHolds == Spec => []LeaseMutex
<1>1. IInv => LeaseMutex
  BY DEF IInv
<1> QED
  BY <1>1, Inductive, PTL

\* A RUNNING row always has the lease by which it can be taken over, and no
\* other row has one.
THEOREM RunningHasLeaseHolds == Spec => []RunningHasLease
<1>1. IInv => RunningHasLease
  BY DEF IInv
<1> QED
  BY <1>1, Inductive, PTL

\* No run's handler is started more often than RUN_MAX_ATTEMPTS allows: each
\* start uses up another of the numbers 1..MaxAttempts.
THEOREM AttemptBudgetHolds == Spec => []AttemptBudget
<1>1. IInv => AttemptBudget
  BY DEF IInv, AttemptNumbers, AttemptBudget, PreStart
<1> QED
  BY <1>1, Inductive, PTL

-----------------------------------------------------------------------------
(* Who writes a row's status.                                              *)

\* A step that changes a status is a request of a user, a claim of a claimable
\* row, or a yield or a completion by a worker that has the row in hand.
LEMMA StatusWriters ==
  ASSUME TypeOK, [Next]_vars, NEW r \in Runs, status'[r] # status[r]
  PROVE  \/ status[r] = "ABSENT" /\ status'[r] = "QUEUED"
         \/ status[r] \in {"QUEUED", "RUNNING"} /\ status'[r] \in {"RUNNING", "CANCELED"}
         \/ status'[r] = "DELETED"
         \/ /\ \E w \in Workers : pc[w] \in Working /\ job[w] = r
            /\ status'[r] \in Final \cup {"WAITING_CHILD"}
<1> DEFINE Goal == \/ status[r] = "ABSENT" /\ status'[r] = "QUEUED"
                   \/ status[r] \in {"QUEUED", "RUNNING"} /\ status'[r] \in {"RUNNING", "CANCELED"}
                   \/ status'[r] = "DELETED"
                   \/ /\ \E w \in Workers : pc[w] \in Working /\ job[w] = r
                      /\ status'[r] \in Final \cup {"WAITING_CHILD"}
<1>1. ASSUME NEW q \in Runs, Api(q) PROVE Goal
  BY <1>1 DEF Api, CreateRun, CancelRun, DeleteRun, TypeOK
<1>2. ASSUME NEW w \in Workers, ClaimWon(w) PROVE Goal
  BY <1>2 DEF ClaimWon, Claimable, Expired, TypeOK
<1>3. ASSUME NEW w \in Workers, YieldWaitingChild(w) PROVE Goal
  BY <1>3 DEF YieldWaitingChild, TypeOK
<1>4. ASSUME NEW w \in Workers, Complete(w) PROVE Goal
  BY <1>4 DEF Complete, OutcomeStatus, TypeOK
<1>5. CASE UNCHANGED status
  BY <1>5
<1>6. ASSUME NEW w \in Workers, Progress(w) PROVE Goal
  BY <1>2, <1>3, <1>4, <1>5, <1>6
     DEF Progress, HandlerStops, FetchCandidate, ClaimLost, RereadGone, RereadClaimed, StartGone,
         StartHandler, BeatRenew, BeatRefused, HandlerEnds, FindWaiting, FindOverdueWait,
         CompleteGone, EmitReturns
<1> QED
  BY <1>1, <1>5, <1>6
     DEF Next, WaitGetsStale, BeatCheck, DatabaseError, Crash, Restart, Tick

\* No step queues or runs a final row again (the statuses that claim_run accepts),
\* with any number of stale workers.
THEOREM SettledNeverRunsHolds == Spec => SettledNeverRuns
<1>1. TypeOK /\ [Next]_vars =>
        [\A r \in Runs :
           status[r] \in Final => status'[r] \notin {"QUEUED", "RUNNING"}]_vars
  <2> SUFFICES ASSUME TypeOK, [Next]_vars, NEW r \in Runs, status[r] \in Final
               PROVE  status'[r] \notin {"QUEUED", "RUNNING"}
    OBVIOUS
  <2>1. CASE status'[r] = status[r]
    BY <2>1
  <2>2. CASE status'[r] # status[r]
    BY <2>2, StatusWriters
  <2> QED
    BY <2>1, <2>2
<1> QED
  BY <1>1, TypeCorrect, PTL DEF Spec, SettledNeverRuns

\* A final row that no worker has in hand only ever changes by being deleted.
THEOREM QuietFinalIsFrozenHolds == Spec => QuietFinalIsFrozen
<1>1. TypeOK /\ [Next]_vars =>
        [\A r \in Runs :
           (/\ status[r] \in Final
            /\ \A w \in Workers : pc[w] \in Working => job[w] # r)
           => status'[r] \in {status[r], "DELETED"}]_vars
  <2> SUFFICES ASSUME TypeOK, [Next]_vars, NEW r \in Runs, status[r] \in Final,
                      \A w \in Workers : pc[w] \in Working => job[w] # r
               PROVE  status'[r] \in {status[r], "DELETED"}
    OBVIOUS
  <2>1. CASE status'[r] = status[r]
    BY <2>1
  <2>2. CASE status'[r] # status[r]
    BY <2>2, StatusWriters
  <2> QED
    BY <2>1, <2>2
<1> QED
  BY <1>1, TypeCorrect, PTL DEF Spec, QuietFinalIsFrozen


-----------------------------------------------------------------------------
(* The queue implements the exclusive lease.                               *)

\* A worker comes to hold a run under a fresh lease by a claim or a renewal.
LEMMA HoldersGain ==
  ASSUME TypeOK, [Next]_vars, NEW v \in Workers, NEW r \in Runs,
         v \in Holders'[r], v \notin Holders[r]
  PROVE  ClaimWon(v) \/ BeatRenew(v)
<1> USE RunQueueAssumption
<1> DEFINE Kept == pc'[v] \in Working /\ hold'[v] > 0 =>
                     pc[v] \in Working /\ job'[v] = job[v] /\ hold[v] > 0
<1>1. pc'[v] \in Working /\ job'[v] = r /\ hold'[v] > 0
  BY DEF Holders
<1>2. ~(pc[v] \in Working /\ job[v] = r /\ hold[v] > 0)
  BY DEF Holders
<1>3. ASSUME NEW w \in Workers, Progress(w), ~ClaimWon(v), ~BeatRenew(v) PROVE Kept
  <2>1. CASE w # v
    <3>1. pc'[v] = pc[v] /\ job'[v] = job[v] /\ hold'[v] = hold[v]
      BY <1>3, <2>1
         DEF Progress, HandlerStops, FetchCandidate, ClaimWon, ClaimLost, RereadGone, RereadClaimed,
             StartGone, StartHandler, BeatRenew, BeatRefused, HandlerEnds, YieldWaitingChild,
             FindWaiting, FindOverdueWait, Complete, CompleteGone, EmitReturns, Leave, Conclude, TypeOK
    <3> QED
      BY <3>1
  <2>2. CASE w = v
    BY <1>3, <2>2
       DEF Progress, HandlerStops, FetchCandidate, ClaimLost, RereadGone, RereadClaimed,
           StartGone, StartHandler, BeatRefused, HandlerEnds, YieldWaitingChild,
           FindWaiting, FindOverdueWait, Complete, CompleteGone, EmitReturns, Leave, Conclude, TypeOK
  <2> QED
    BY <2>1, <2>2
<1>4. ASSUME NEW w \in Workers, BeatCheck(w) \/ DatabaseError(w) \/ Crash(w) \/ Restart(w)
      PROVE  Kept
  BY <1>4 DEF BeatCheck, DatabaseError, Crash, Restart, Leave, Conclude, TypeOK
<1>5. ASSUME Tick PROVE Kept
  <2>1. hold[v] \in Nat /\ hold'[v] = Down1(hold[v])
    BY <1>5 DEF Tick, TypeOK
  <2> QED
    BY <1>5, <2>1 DEF Tick, Down1
<1>6. ASSUME NEW q \in Runs, Api(q) \/ WaitGetsStale(q) PROVE Kept
  BY <1>6 DEF Api, CreateRun, CancelRun, DeleteRun, WaitGetsStale
<1>7. ASSUME UNCHANGED vars PROVE Kept
  BY <1>7
<1> HIDE DEF Kept
<1>8. ~Kept
  BY <1>1, <1>2 DEF Kept
<1> QED
  BY <1>3, <1>4, <1>5, <1>6, <1>7, <1>8 DEF Next

\* Where a worker holds a lease, or renews the one its row still has, nobody
\* else holds one on the same run; a claimable row is held by nobody.
LEMMA HoldersOfClaimable ==
  ASSUME TypeOK, HeldLeaseIsRowLease, NEW r \in Runs, Claimable(r)
  PROVE  Holders[r] = {}
<1>1. ASSUME NEW v \in Workers, pc[v] \in Working, job[v] = r, hold[v] > 0 PROVE FALSE
  BY <1>1 DEF Claimable, Expired, TypeOK, HeldLeaseIsRowLease
<1> QED
  BY <1>1 DEF Holders

LEMMA HoldersOfRenewable ==
  ASSUME TypeOK, HeldLeaseIsRowLease, NEW w \in Workers, job[w] \in Runs, Renewable(w)
  PROVE  Holders[job[w]] \subseteq {w}
<1>1. ASSUME NEW v \in Workers, pc[v] \in Working, job[v] = job[w], hold[v] > 0 PROVE v = w
  BY <1>1 DEF Renewable, TypeOK, HeldLeaseIsRowLease
<1> QED
  BY <1>1 DEF Holders

\* What a claim or a renewal does to the holders
LEMMA HoldersGrow ==
  ASSUME TypeOK, NEW w \in Workers, ClaimWon(w) \/ BeatRenew(w)
  PROVE  /\ job[w] \in Runs
         /\ \A r \in Runs : Holders'[r] = IF r = job[w] THEN Holders[r] \cup {w} ELSE Holders[r]
<1> USE RunQueueAssumption
<1>1. /\ job[w] \in Runs /\ job' = job
      /\ pc'[w] \in Working /\ hold'[w] = LeaseTicks /\ LeaseTicks > 0
      /\ \A v \in Workers : v # w => pc'[v] = pc[v] /\ hold'[v] = hold[v]
      /\ pc[w] \in {"fetched", "beating"}
  BY DEF ClaimWon, BeatRenew, TypeOK
<1>2. ASSUME NEW r \in Runs PROVE Holders'[r] = IF r = job[w] THEN Holders[r] \cup {w} ELSE Holders[r]
  BY <1>1, <1>2 DEF Holders
<1> QED
  BY <1>1, <1>2

LEMMA LeaseImplStep ==
  ASSUME TypeOK, HeldLeaseIsRowLease, [Next]_vars
  PROVE  [Lease!Next]_Holders
<1>1. Holders \in [Runs -> SUBSET Workers] /\ Holders' \in [Runs -> SUBSET Workers]
  BY DEF Holders
<1>2. ASSUME NEW w \in Workers, ClaimWon(w) \/ BeatRenew(w) PROVE Lease!Next \/ UNCHANGED Holders
  <2>1. job[w] \in Runs /\ Holders[job[w]] \subseteq {w}
    BY <1>2, HoldersGrow, HoldersOfClaimable, HoldersOfRenewable DEF ClaimWon, BeatRenew
  <2>2. Holders' = [Holders EXCEPT ![job[w]] = {w}]
    <3>1. \A r \in Runs : Holders'[r] = IF r = job[w] THEN {w} ELSE Holders[r]
      BY <1>2, <2>1, HoldersGrow
    <3> QED
      BY <1>1, <2>1, <3>1
  <2>3. CASE Holders[job[w]] = {}
    <3>1. Lease!Acquire(job[w], w)
      BY <2>2, <2>3 DEF Lease!Acquire
    <3> QED
      BY <2>1, <3>1 DEF Lease!Next
  <2>4. CASE Holders[job[w]] = {w}
    BY <1>1, <2>1, <2>2, <2>4
  <2> QED
    BY <2>1, <2>3, <2>4
<1>3. CASE \A w \in Workers : ~ClaimWon(w) /\ ~BeatRenew(w)
  <2>1. ASSUME NEW r \in Runs PROVE Holders'[r] \subseteq Holders[r]
    <3>1. Holders'[r] \subseteq Workers
      BY <1>1, <2>1
    <3> QED
      BY <1>3, <2>1, <3>1, HoldersGain
  <2> QED
    BY <1>1, <2>1 DEF Lease!Next, Lease!Lose
<1> QED
  BY <1>2, <1>3

\* Seen as an exclusive lease on runs, the queue is correct: whoever comes to
\* hold a run does so when nobody holds it (claim_run, heartbeat).
THEOREM ImplementsLease == Spec => ImplementsExclusiveLease
<1>1. Init => Lease!Init
  BY DEF Init, Lease!Init, Holders
<1>2. IInv /\ [Next]_vars => [Lease!Next]_Holders
  BY LeaseImplStep DEF IInv
<1> QED
  BY <1>1, <1>2, Inductive, PTL DEF Spec, ImplementsExclusiveLease, Lease!Spec

=============================================================================
