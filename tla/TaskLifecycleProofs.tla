------------------------ MODULE TaskLifecycleProofs ------------------------
(***************************************************************************)
(* Proofs that the properties of TaskLifecycle hold for every DAG, every   *)
(* set of workers and every attempt budget.                                *)
(***************************************************************************)
EXTENDS TaskLifecycle, TLAPS

\* A step that names no prover is tried by Zenon first, then by the SMT solver.
USE ZenonT(4), SMTT(60)

Exits == {"open", "SUCCEEDED", "RETRY_WAIT", "DEAD", "CANCELLED"}

\* Updating the exit of one row of task_attempts keeps the table well formed:
\* its length, its other rows and the other columns of the row stay.
LEMMA ExitUpdate ==
    ASSUME NEW s \in Seq(AttemptRow), NEW i, NEW e \in Exits
    PROVE  LET r == [s EXCEPT ![i].exit = e]
           IN  /\ r \in Seq(AttemptRow)
               /\ Len(r) = Len(s)
               /\ \A j \in 1 .. Len(s) : j # i => r[j] = s[j]
               /\ i \in 1 .. Len(s) =>
                    /\ r[i].exit = e
                    /\ r[i].worker = s[i].worker
                    /\ r[i].executing = s[i].executing
<1> DEFINE r == [s EXCEPT ![i].exit = e]
<1>1. s \in [1 .. Len(s) -> AttemptRow] /\ Len(s) \in Nat
  OBVIOUS
<1>2. \A j \in 1 .. Len(s) : [s[j] EXCEPT !.exit = e] \in AttemptRow
  BY <1>1 DEF AttemptRow, Exits
<1>3. r \in [1 .. Len(s) -> AttemptRow]
  BY <1>1, <1>2, Zenon
<1>4. r \in Seq(AttemptRow) /\ Len(r) = Len(s)
  BY <1>1, <1>3
<1>5. \A j \in 1 .. Len(s) : j # i => r[j] = s[j]
  BY <1>1
<1>6. ASSUME i \in 1 .. Len(s)
      PROVE  r[i].exit = e /\ r[i].worker = s[i].worker
                /\ r[i].executing = s[i].executing
  BY <1>1, <1>6 DEF AttemptRow
<1> QED
  BY <1>4, <1>5, <1>6

\* The same for the executing_at column.
LEMMA ExecutingUpdate ==
    ASSUME NEW s \in Seq(AttemptRow), NEW i
    PROVE  LET r == [s EXCEPT ![i].executing = TRUE]
           IN  /\ r \in Seq(AttemptRow)
               /\ Len(r) = Len(s)
               /\ \A j \in 1 .. Len(s) : j # i => r[j] = s[j]
               /\ i \in 1 .. Len(s) =>
                    /\ r[i].exit = s[i].exit
                    /\ r[i].worker = s[i].worker
                    /\ r[i].executing = TRUE
<1> DEFINE r == [s EXCEPT ![i].executing = TRUE]
<1>1. s \in [1 .. Len(s) -> AttemptRow] /\ Len(s) \in Nat
  OBVIOUS
<1>2. \A j \in 1 .. Len(s) : [s[j] EXCEPT !.executing = TRUE] \in AttemptRow
  BY <1>1, Zenon DEF AttemptRow
<1>3. r \in [1 .. Len(s) -> AttemptRow]
  BY <1>1, <1>2, Zenon
<1>4. r \in Seq(AttemptRow) /\ Len(r) = Len(s)
  BY <1>1, <1>3
<1>5. \A j \in 1 .. Len(s) : j # i => r[j] = s[j]
  BY <1>1
<1>6. ASSUME i \in 1 .. Len(s)
      PROVE  r[i].exit = s[i].exit /\ r[i].worker = s[i].worker
                /\ r[i].executing = TRUE
  BY <1>1, <1>6 DEF AttemptRow
<1> QED
  BY <1>4, <1>5, <1>6

\* A failed attempt leaves its task waiting, dead or cancelled.
LEMMA FailedStatusType ==
    ASSUME NEW x, NEW t
    PROVE  FailedStatus(x, t) \in {"RETRY_WAIT", "DEAD", "CANCELLED"}
BY DEF FailedStatus

\* EndAttempts keeps task_attempts well formed.
LEMMA EndAttemptsType ==
    ASSUME TypeOK, NEW exit, \A t \in DOMAIN exit : exit[t] \in Exits
    PROVE  EndAttempts(exit) \in [Tasks -> Seq(AttemptRow)]
<1>1. ASSUME NEW t \in Tasks, t \in DOMAIN exit
      PROVE  [attempts[t] EXCEPT ![attemptCount[t]].exit = exit[t]]
                \in Seq(AttemptRow)
  BY <1>1, ExitUpdate, Zenon DEF TypeOK
<1> QED
  BY <1>1 DEF EndAttempts, TypeOK

\* What EndLeases writes is well typed.
LEMMA EndLeasesType ==
    ASSUME TypeOK, NEW x \in open, EndLeases(x)
    PROVE  /\ runStatus' \in RunStatuses
           /\ leaseOwner' \in [Tasks -> Workers \cup {NoWorker}]
           /\ lease' \in [Tasks -> Leases]
           /\ due' \in [Tasks -> BOOLEAN]
           /\ attemptCount' \in [Tasks -> Nat]
           /\ maximumAttempts' \in [Tasks -> Nat]
           /\ attempts' \in [Tasks -> Seq(AttemptRow)]
           /\ lastEvent' \in [Tasks -> EventTypes]
           /\ open' \subseteq Transaction
<1>1. attempts' \in [Tasks -> Seq(AttemptRow)]
  <2> DEFINE exit == [t \in x.tasks |-> FailedStatus(x, t)]
  <2>1. \A t \in DOMAIN exit : exit[t] \in Exits
    BY FailedStatusType DEF Exits
  <2> QED
    BY <2>1, EndAttemptsType DEF EndLeases
<1>2. lastEvent' \in [Tasks -> EventTypes]
  <2>1. \A t \in Tasks : FailureEvent(FailedStatus(x, t)) \in EventTypes
    BY FailedStatusType DEF FailureEvent, EventTypes
  <2> QED
    BY <2>1 DEF EndLeases, TypeOK
<1>3. runStatus' \in RunStatuses
  BY DEF EndLeases, TypeOK, RunStatuses
<1>4. due' \in [Tasks -> BOOLEAN]
  BY Zenon DEF EndLeases, TypeOK
<1> QED
  BY <1>1, <1>2, <1>3, <1>4 DEF EndLeases, TypeOK, Leases

\* Every step of the program keeps every column in its type.
LEMMA TypeStep ==
    ASSUME TypeOK, [Next]_vars
    PROVE  TypeOK'
<1> USE DEF TypeOK
<1>1. CASE PromoteRetries
  BY <1>1 DEF PromoteRetries, TaskStatuses, Unstarted
<1>2. ASSUME NEW batch \in SUBSET Tasks, Dispatch(batch)
      PROVE  TypeOK'
  BY <1>2 DEF Dispatch, TaskStatuses, Unstarted, EventTypes
<1>3. ASSUME NEW batch \in SUBSET Tasks, RecoverRead(batch)
      PROVE  TypeOK'
  <2>1. [op |-> "recover", tasks |-> batch, seen |-> runStatus,
         retryable |-> TRUE] \in Transaction
    BY DEF Transaction
  <2> QED
    BY <1>3, <2>1, Zenon DEF RecoverRead
<1>4. ASSUME NEW t \in Tasks, NEW w \in Workers, LeaseTask(t, w)
      PROVE  TypeOK'
  <2>1. attempts' \in [Tasks -> Seq(AttemptRow)]
    <3>1. [worker |-> w, executing |-> FALSE, exit |-> "open"] \in AttemptRow
      BY DEF AttemptRow
    <3> QED
      BY <1>4, <3>1 DEF LeaseTask
  <2> QED
    BY <1>4, <2>1 DEF LeaseTask, TaskStatuses, Active, Leases, LiveLease, EventTypes
<1>5. ASSUME NEW t \in Tasks, NEW w \in Workers, StartTask(t, w)
      PROVE  TypeOK'
  <2>1. attempts' \in [Tasks -> Seq(AttemptRow)]
    <3>1. [attempts[t] EXCEPT ![attemptCount[t]].executing = TRUE]
             \in Seq(AttemptRow)
      BY ExecutingUpdate, Zenon
    <3> QED
      BY <1>5, <3>1 DEF StartTask
  <2> QED
    BY <1>5, <2>1 DEF StartTask, TaskStatuses, Active
<1>6. ASSUME NEW t \in Tasks, NEW w \in Workers, HeartbeatTask(t, w)
      PROVE  TypeOK'
  BY <1>6 DEF HeartbeatTask, Leases, LiveLease
<1>7. ASSUME NEW t \in Tasks, NEW w \in Workers, CompleteTask(t, w)
      PROVE  TypeOK'
  <2>1. attempts' \in [Tasks -> Seq(AttemptRow)]
    <3> DEFINE exit == [u \in {t} |-> "SUCCEEDED"]
    <3>1. \A u \in DOMAIN exit : exit[u] \in Exits
      BY DEF Exits
    <3> QED
      BY <1>7, <3>1, EndAttemptsType, Zenon DEF CompleteTask
  <2>2. status' \in [Tasks -> TaskStatuses] /\ lastEvent' \in [Tasks -> EventTypes]
    BY <1>7 DEF CompleteTask, TaskStatuses, Unstarted, EventTypes
  <2>3. runStatus' \in RunStatuses /\ lease' \in [Tasks -> Leases]
    BY <1>7 DEF CompleteTask, RunStatuses, Leases
  <2>4. due' \in [Tasks -> BOOLEAN]
    BY <1>7 DEF CompleteTask
  <2> QED
    BY <1>7, <2>1, <2>2, <2>3, <2>4, Zenon DEF CompleteTask
<1>8. ASSUME NEW t \in Tasks, NEW w \in Workers, NEW retryable \in BOOLEAN,
             FailTaskRead(t, w, retryable)
      PROVE  TypeOK'
  BY <1>8 DEF FailTaskRead, Transaction
<1>9. ASSUME NEW x \in open, FailTaskWrite(x)
      PROVE  TypeOK'
  <2>1. status' \in [Tasks -> TaskStatuses]
    BY <1>9, FailedStatusType DEF FailTaskWrite, TaskStatuses, Unstarted
  <2> QED
    BY <1>9, <2>1, EndLeasesType DEF FailTaskWrite
<1>10. ASSUME NEW x \in open, RecoverWrite(x)
       PROVE  TypeOK'
  <2>1. status' \in [Tasks -> TaskStatuses]
    BY <1>10, FailedStatusType DEF RecoverWrite, TaskStatuses, Unstarted
  <2> QED
    BY <1>10, <2>1, EndLeasesType DEF RecoverWrite
<1>11. ASSUME NEW x \in open, Rollback(x)
       PROVE  TypeOK'
  BY <1>11 DEF Rollback
<1>12. CASE CancelRun
  BY <1>12 DEF CancelRun, TaskStatuses, RunStatuses
<1>13. CASE RetryRun
  <2>1. due' \in [Tasks -> BOOLEAN]
    BY <1>13 DEF RetryRun
  <2> QED
    BY <1>13, <2>1 DEF RetryRun, RaiseBudget, TaskStatuses, Unstarted, RunStatuses, Leases
<1>14. ASSUME NEW t \in Tasks, ReplayDead(t)
       PROVE  TypeOK'
  BY <1>14 DEF ReplayDead, Rebuilt, RaiseBudget, TaskStatuses, Unstarted,
               RunStatuses, EventTypes
<1>15. ASSUME NEW t \in Tasks, LeaseAges(t)
       PROVE  TypeOK'
  BY <1>15 DEF LeaseAges, Leases, LiveLease
<1>16. ASSUME NEW t \in Tasks, RetryDelayElapses(t)
       PROVE  TypeOK'
  BY <1>16 DEF RetryDelayElapses
<1>17. CASE UNCHANGED vars
  BY <1>17 DEF vars
<1> QED
  BY <1>1, <1>2, <1>3, <1>4, <1>5, <1>6, <1>7, <1>8, <1>9, <1>10, <1>11, Zenon,
     <1>12, <1>13, <1>14, <1>15, <1>16, <1>17 DEF Next

LEMMA TypeInit ==
    Init => TypeOK
BY DependsOnAssumption, MaximumAttemptsAssumption
   DEF Init, TypeOK, RunStatuses, TaskStatuses, Unstarted, Leases, EventTypes

\* Every reachable state is well typed, for every DAG and attempt budget.
THEOREM Typing == Spec => []TypeOK
BY TypeInit, TypeStep, PTL DEF Spec

-----------------------------------------------------------------------------
(* One verdict per attempt                                                 *)

\* Row locks are exclusive and only active tasks are locked: a step that
\* leaves the open transactions alone keeps locked tasks active, a read locks
\* only unlocked active tasks, and a write releases all it locked.
LEMMA VerdictStep ==
    ASSUME TypeOK, OneVerdictPerAttempt, [Next]_vars
    PROVE  OneVerdictPerAttempt'
<1> USE DEF TypeOK, OneVerdictPerAttempt, Locked, Active
<1> DEFINE Kept == open' = open /\ \A t \in Locked : status'[t] \in Active
<1>0. ASSUME Kept
      PROVE  OneVerdictPerAttempt'
  BY <1>0
<1>a. Locked \subseteq Tasks
  BY DEF Transaction
<1>b. ASSUME NEW x, open' = open \cup {x}, status' = status,
             x.tasks \cap Locked = {}, \A t \in x.tasks : status[t] \in Active
      PROVE  OneVerdictPerAttempt'
  BY <1>b
<1>1. CASE PromoteRetries
  <2>1. Kept
    BY <1>1, <1>a DEF PromoteRetries
  <2> QED
    BY <2>1, <1>0
<1>2. ASSUME NEW batch \in SUBSET Tasks, Dispatch(batch)
      PROVE  OneVerdictPerAttempt'
  <2>1. Kept
    BY <1>2, <1>a DEF Dispatch
  <2> QED
    BY <2>1, <1>0
<1>3. ASSUME NEW batch \in SUBSET Tasks, RecoverRead(batch)
      PROVE  OneVerdictPerAttempt'
  <2> DEFINE x == [op |-> "recover", tasks |-> batch, seen |-> runStatus,
                   retryable |-> TRUE]
  <2>1. x.tasks = batch
    OBVIOUS
  <2>2. open' = open \cup {x} /\ status' = status
    BY <1>3 DEF RecoverRead
  <2>3. x.tasks \cap Locked = {} /\ \A t \in x.tasks : status[t] \in Active
    BY <1>3, <2>1 DEF RecoverRead, Expired
  <2> HIDE DEF x
  <2> QED
    BY <1>b, <2>2, <2>3
<1>4. ASSUME NEW t \in Tasks, NEW w \in Workers, LeaseTask(t, w)
      PROVE  OneVerdictPerAttempt'
  <2>1. Kept
    BY <1>4, <1>a DEF LeaseTask
  <2> QED
    BY <2>1, <1>0
<1>5. ASSUME NEW t \in Tasks, NEW w \in Workers, StartTask(t, w)
      PROVE  OneVerdictPerAttempt'
  <2>1. Kept
    BY <1>5, <1>a DEF StartTask
  <2> QED
    BY <2>1, <1>0
<1>6. ASSUME NEW t \in Tasks, NEW w \in Workers, HeartbeatTask(t, w)
      PROVE  OneVerdictPerAttempt'
  BY <1>6 DEF HeartbeatTask
<1>7. ASSUME NEW t \in Tasks, NEW w \in Workers, CompleteTask(t, w)
      PROVE  OneVerdictPerAttempt'
  <2>1. Kept
    BY <1>7, <1>a DEF CompleteTask, HoldsLease, Unblocked
  <2> QED
    BY <2>1, <1>0
<1>8. ASSUME NEW t \in Tasks, NEW w \in Workers, NEW retryable \in BOOLEAN,
             FailTaskRead(t, w, retryable)
      PROVE  OneVerdictPerAttempt'
  <2> DEFINE x == [op |-> "fail", tasks |-> {t}, seen |-> runStatus,
                   retryable |-> retryable]
  <2>1. x.tasks = {t}
    OBVIOUS
  <2>2. open' = open \cup {x} /\ status' = status
    BY <1>8 DEF FailTaskRead
  <2>3. x.tasks \cap Locked = {} /\ \A u \in x.tasks : status[u] \in Active
    BY <1>8, <2>1 DEF FailTaskRead, HoldsLease
  <2> HIDE DEF x
  <2> QED
    BY <1>b, <2>2, <2>3
<1>9. ASSUME NEW x \in open, FailTaskWrite(x)
      PROVE  OneVerdictPerAttempt'
  BY <1>9, <1>a DEF FailTaskWrite, EndLeases, Unstarted
<1>10. ASSUME NEW x \in open, RecoverWrite(x)
       PROVE  OneVerdictPerAttempt'
  BY <1>10, <1>a DEF RecoverWrite, EndLeases
<1>11. ASSUME NEW x \in open, Rollback(x)
       PROVE  OneVerdictPerAttempt'
  BY <1>11 DEF Rollback
<1>12. CASE CancelRun
  <2>1. Kept
    BY <1>12, <1>a DEF CancelRun, Unstarted
  <2> QED
    BY <2>1, <1>0
<1>13. CASE RetryRun
  <2>1. Kept
    BY <1>13, <1>a DEF RetryRun, DeadTasks
  <2> QED
    BY <2>1, <1>0
<1>14. ASSUME NEW t \in Tasks, ReplayDead(t)
       PROVE  OneVerdictPerAttempt'
  <2>1. Kept
    BY <1>14, <1>a DEF ReplayDead
  <2> QED
    BY <2>1, <1>0
<1>15. ASSUME NEW t \in Tasks, LeaseAges(t) \/ RetryDelayElapses(t)
       PROVE  OneVerdictPerAttempt'
  BY <1>15 DEF LeaseAges, RetryDelayElapses
<1>16. CASE UNCHANGED vars
  BY <1>16 DEF vars
<1> QED
  BY <1>1, <1>2, <1>3, <1>4, <1>5, <1>6, <1>7, <1>8, <1>9, <1>10, <1>11, Zenon,
     <1>12, <1>13, <1>14, <1>15, <1>16 DEF Next

\* FailTask and recoverExpired never both decide the fate of one attempt, and
\* neither decides on a task that has meanwhile completed.
THEOREM OneVerdict == Spec => []OneVerdictPerAttempt
<1>1. Init => OneVerdictPerAttempt
  BY DEF Init, OneVerdictPerAttempt, Locked
<1> QED
  BY <1>1, VerdictStep, Typing, PTL DEF Spec

-----------------------------------------------------------------------------
(* The DAG                                                                 *)

DagInv == DependencyOrder /\ NoLostWakeup /\ RunSucceedsWithTasks

\* A locked task is one of the run's tasks and a worker holds it.
LEMMA LockedActive ==
    ASSUME TypeOK, OneVerdictPerAttempt, NEW x \in open
    PROVE  \A t \in x.tasks : t \in Tasks /\ status[t] \in Active
BY DEF TypeOK, OneVerdictPerAttempt, Locked, Transaction

\* A succeeded task stays succeeded: no step assigns a status to it.
LEMMA SuccessIsFinal ==
    ASSUME TypeOK, OneVerdictPerAttempt, [Next]_vars
    PROVE  \A t \in Tasks : status[t] = "SUCCEEDED" => status'[t] = "SUCCEEDED"
<1> DEFINE Final == \A t \in Tasks : status[t] = "SUCCEEDED" => status'[t] = "SUCCEEDED"
<1> USE DEF TypeOK
<1>1. CASE PromoteRetries \/ CancelRun \/ RetryRun
  BY <1>1, Zenon DEF PromoteRetries, CancelRun, RetryRun, DeadTasks, Unstarted
<1>2. ASSUME NEW batch \in SUBSET Tasks, Dispatch(batch) \/ RecoverRead(batch)
      PROVE  Final
  BY <1>2 DEF Dispatch, RecoverRead
<1>3. ASSUME NEW t \in Tasks, NEW w \in Workers,
             \/ LeaseTask(t, w)
             \/ StartTask(t, w)
             \/ HeartbeatTask(t, w)
             \/ CompleteTask(t, w)
             \/ \E retryable \in BOOLEAN : FailTaskRead(t, w, retryable)
      PROVE  Final
  BY <1>3 DEF LeaseTask, StartTask, HeartbeatTask, CompleteTask, FailTaskRead, Unblocked
<1>4. ASSUME NEW x \in open, FailTaskWrite(x) \/ RecoverWrite(x)
      PROVE  Final
  BY <1>4, LockedActive, Zenon DEF FailTaskWrite, RecoverWrite, Active, Unstarted
<1>5. ASSUME NEW x \in open, Rollback(x)
      PROVE  Final
  BY <1>5 DEF Rollback
<1>6. ASSUME NEW t \in Tasks, ReplayDead(t) \/ LeaseAges(t) \/ RetryDelayElapses(t)
      PROVE  Final
  BY <1>6, Zenon DEF ReplayDead, LeaseAges, RetryDelayElapses
<1>7. CASE UNCHANGED vars
  BY <1>7 DEF vars
<1> QED
  BY <1>1, <1>2, <1>3, <1>4, <1>5, <1>6, <1>7, Zenon DEF Next

\* Only CompleteTask adds to the succeeded tasks, nothing removes from them,
\* and the statuses every other step assigns fit the dependencies.
LEMMA DagStep ==
    ASSUME TypeOK, OneVerdictPerAttempt, DagInv, [Next]_vars
    PROVE  DagInv'
<1> USE DEF TypeOK, DagInv, DependencyOrder, NoLostWakeup, RunSucceedsWithTasks
<1>a. \A x \in open : \A t \in x.tasks :
         /\ t \in Tasks
         /\ status[t] \notin {"BLOCKED", "CANCELLED", "SUCCEEDED"}
  BY LockedActive, Zenon DEF Active
<1>b. ASSUME status' = status, runStatus' = runStatus
      PROVE  DagInv'
  BY <1>b, Zenon DEF Succeeded
<1>1. CASE PromoteRetries
  <2>1. Succeeded' = Succeeded
    BY <1>1 DEF PromoteRetries, Succeeded
  <2> QED
    BY <1>1, <2>1 DEF PromoteRetries
<1>2. ASSUME NEW batch \in SUBSET Tasks, Dispatch(batch)
      PROVE  DagInv'
  <2>1. Succeeded' = Succeeded
    BY <1>2 DEF Dispatch, Succeeded
  <2> QED
    BY <1>2, <2>1 DEF Dispatch
<1>3. ASSUME NEW t \in Tasks, NEW w \in Workers, LeaseTask(t, w)
      PROVE  DagInv'
  <2>1. Succeeded' = Succeeded
    BY <1>3 DEF LeaseTask, Succeeded
  <2> QED
    BY <1>3, <2>1 DEF LeaseTask
<1>4. ASSUME NEW t \in Tasks, NEW w \in Workers, StartTask(t, w)
      PROVE  DagInv'
  <2>1. Succeeded' = Succeeded
    BY <1>4 DEF StartTask, Succeeded
  <2> QED
    BY <1>4, <2>1 DEF StartTask
<1>5. ASSUME NEW t \in Tasks, NEW w \in Workers, CompleteTask(t, w)
      PROVE  DagInv'
  <2>1. Succeeded' = Succeeded \cup {t}
    BY <1>5 DEF CompleteTask, Succeeded, Unblocked
  <2>2. t \notin Succeeded
    BY <1>5 DEF CompleteTask, Succeeded
  <2>3. DependencyOrder'
    BY <1>5, <2>1 DEF CompleteTask, Unblocked
  <2>4. NoLostWakeup'
    BY <1>5, <2>1, DependsOnAssumption DEF CompleteTask, Unblocked
  <2>5. RunSucceedsWithTasks'
    BY <1>5, <2>1, Zenon DEF CompleteTask, NoneRemainsBut, Succeeded
  <2> QED
    BY <2>3, <2>4, <2>5
<1>6. ASSUME NEW x \in open, FailTaskWrite(x)
      PROVE  DagInv'
  <2>1. Succeeded' = Succeeded
    BY <1>6, <1>a, FailedStatusType, Zenon DEF FailTaskWrite, Succeeded, Unstarted
  <2> QED
    BY <1>6, <1>a, FailedStatusType, <2>1, Zenon DEF FailTaskWrite, EndLeases, Unstarted
<1>7. ASSUME NEW x \in open, RecoverWrite(x)
      PROVE  DagInv'
  <2>1. Succeeded' = Succeeded
    BY <1>7, <1>a, FailedStatusType, Zenon DEF RecoverWrite, Succeeded
  <2> QED
    BY <1>7, <1>a, FailedStatusType, <2>1, Zenon DEF RecoverWrite, EndLeases
<1>8. CASE CancelRun
  <2>1. Succeeded' = Succeeded
    BY <1>8 DEF CancelRun, Succeeded, Unstarted
  <2> QED
    BY <1>8, <2>1 DEF CancelRun, Unstarted
<1>9. CASE RetryRun
  <2>1. Succeeded' = Succeeded
    BY <1>9 DEF RetryRun, DeadTasks, Succeeded
  <2> QED
    BY <1>9, <2>1, Zenon DEF RetryRun, DeadTasks, Succeeded
<1>10. ASSUME NEW t \in Tasks, ReplayDead(t)
       PROVE  DagInv'
  <2>1. Succeeded' = Succeeded
    BY <1>10 DEF ReplayDead, Rebuilt, Succeeded
  <2> QED
    BY <1>10, <2>1, Zenon DEF ReplayDead, Rebuilt, Succeeded
<1>11. ASSUME NEW batch \in SUBSET Tasks, RecoverRead(batch)
       PROVE  DagInv'
  BY <1>11, <1>b DEF RecoverRead
<1>12. ASSUME NEW t \in Tasks, NEW w \in Workers,
              \/ HeartbeatTask(t, w)
              \/ \E retryable \in BOOLEAN : FailTaskRead(t, w, retryable)
       PROVE  DagInv'
  BY <1>12, <1>b DEF HeartbeatTask, FailTaskRead
<1>13. ASSUME NEW x \in open, Rollback(x)
       PROVE  DagInv'
  BY <1>13, <1>b DEF Rollback
<1>14. ASSUME NEW t \in Tasks, LeaseAges(t) \/ RetryDelayElapses(t)
       PROVE  DagInv'
  BY <1>14, <1>b DEF LeaseAges, RetryDelayElapses
<1>15. CASE UNCHANGED vars
  BY <1>15, <1>b DEF vars
<1> QED
  BY <1>1, <1>2, <1>3, <1>4, <1>5, <1>6, <1>7, <1>8, <1>9, <1>10, <1>11, Zenon,
     <1>12, <1>13, <1>14, <1>15 DEF Next

LEMMA DagInit ==
    ASSUME Init
    PROVE  DagInv
<1>1. Succeeded = {}
  BY Zenon DEF Init, Succeeded
<1>2. DependencyOrder
  BY DEF Init, DependencyOrder
<1>3. NoLostWakeup
  BY <1>1, DependsOnAssumption DEF Init, NoLostWakeup
<1>4. RunSucceedsWithTasks
  BY <1>1, TasksAssumption DEF Init, RunSucceedsWithTasks
<1> QED
  BY <1>2, <1>3, <1>4 DEF DagInv

LEMMA Dag == Spec => []DagInv
BY DagInit, DagStep, Typing, OneVerdict, PTL DEF Spec

\* For every DAG, no task is queued, run or finished before all of its
\* upstream tasks have succeeded.
THEOREM UpstreamFirst == Spec => []DependencyOrder
BY Dag, PTL DEF DagInv

\* For every DAG, no completion leaves a task BLOCKED that nothing blocks.
THEOREM WakeupIsNeverLost == Spec => []NoLostWakeup
BY Dag, PTL DEF DagInv

\* For every DAG, the run has succeeded exactly when all of its tasks have.
THEOREM RunSuccess == Spec => []RunSucceedsWithTasks
BY Dag, PTL DEF DagInv

-----------------------------------------------------------------------------
(* Retries and events                                                      *)

RetryInv == RetryWithinBudget /\ RetryDelayKept /\ EventsTellStatus

\* The budget, the pending delay and the last event of a task are assigned
\* together by EndLeases, kept together by a cancellation, and read together
\* by the rebuild of ReplayDead.
LEMMA RetryStep ==
    ASSUME TypeOK, OneVerdictPerAttempt, DagInv, RetryInv, [Next]_vars
    PROVE  RetryInv'
<1> USE DEF TypeOK, RetryInv, RetryWithinBudget, RetryDelayKept, EventsTellStatus
<1>a. \A x \in open : \A t \in x.tasks : t \in Tasks /\ status[t] \in Active
  BY LockedActive
<1>b. ASSUME NEW x \in open, EndLeases(x), NEW t \in x.tasks,
             status'[t] = FailedStatus(x, t)
      PROVE  /\ status'[t] \in {"RETRY_WAIT", "DEAD", "CANCELLED"}
             /\ status'[t] = "RETRY_WAIT" =>
                   attemptCount[t] < maximumAttempts[t] /\ lastEvent'[t] = "task.retry_wait"
             /\ status'[t] = "DEAD" => lastEvent'[t] = "task.dead"
             /\ lastEvent'[t] # "task.succeeded"
             /\ due'[t] <=> status'[t] # "RETRY_WAIT"
             /\ DependsOn[t] \subseteq Succeeded
  BY <1>a, <1>b, Zenon DEF EndLeases, FailedStatus, FailureEvent, DagInv, DependencyOrder, Active
<1>s. Succeeded \subseteq Succeeded'
  BY SuccessIsFinal DEF Succeeded
<1>1. CASE PromoteRetries
  BY <1>1, <1>s DEF PromoteRetries, Active
<1>2. ASSUME NEW batch \in SUBSET Tasks, Dispatch(batch)
      PROVE  RetryInv'
  BY <1>2, <1>s DEF Dispatch, Active
<1>3. ASSUME NEW t \in Tasks, NEW w \in Workers, LeaseTask(t, w)
      PROVE  RetryInv'
  BY <1>3, <1>s DEF LeaseTask, Active
<1>4. ASSUME NEW t \in Tasks, NEW w \in Workers, StartTask(t, w)
      PROVE  RetryInv'
  BY <1>4, <1>s DEF StartTask, Active
<1>5. ASSUME NEW t \in Tasks, NEW w \in Workers, CompleteTask(t, w)
      PROVE  RetryInv'
  BY <1>5, <1>s DEF CompleteTask, Unblocked, Active
<1>w. ASSUME NEW x \in open, EndLeases(x),
             \A t \in x.tasks : status'[t] = FailedStatus(x, t),
             \A t \in Tasks \ x.tasks :
                /\ status'[t] \in {status[t], "CANCELLED"}
                /\ status[t] \notin Unstarted => status'[t] = status[t]
      PROVE  RetryInv'
  <2>1. ASSUME NEW t \in Tasks, t \notin x.tasks
        PROVE  /\ status'[t] \in {status[t], "CANCELLED"}
               /\ status[t] \notin Unstarted => status'[t] = status[t]
               /\ due'[t] = due[t]
               /\ lastEvent'[t] = lastEvent[t]
    BY <1>w, <2>1 DEF EndLeases
  <2>2. UNCHANGED <<attemptCount, maximumAttempts>>
    BY <1>w DEF EndLeases
  <2>3. ASSUME NEW t \in x.tasks
        PROVE  /\ status'[t] \in {"RETRY_WAIT", "DEAD", "CANCELLED"}
               /\ status'[t] = "RETRY_WAIT" =>
                     attemptCount[t] < maximumAttempts[t] /\ lastEvent'[t] = "task.retry_wait"
               /\ status'[t] = "DEAD" => lastEvent'[t] = "task.dead"
               /\ lastEvent'[t] # "task.succeeded"
               /\ due'[t] <=> status'[t] # "RETRY_WAIT"
               /\ DependsOn[t] \subseteq Succeeded
    BY <1>b, <1>w
  <2>4. RetryWithinBudget'
    BY <2>1, <2>2, <2>3, Zenon
  <2>5. RetryDelayKept'
    <3> SUFFICES ASSUME NEW t \in Tasks, ~due'[t]
                 PROVE  /\ status'[t] \in {"RETRY_WAIT", "CANCELLED"}
                        /\ attemptCount'[t] < maximumAttempts'[t]
                        /\ lastEvent'[t] = "task.retry_wait"
                        /\ DependsOn[t] \subseteq Succeeded'
      BY DEF RetryDelayKept
    <3>1. CASE t \in x.tasks
      BY <1>s, <2>2, <2>3, <3>1
    <3>2. CASE t \notin x.tasks
      BY <1>s, <2>1, <2>2, <3>2
    <3> QED
      BY <3>1, <3>2
  <2>6. EventsTellStatus'
    <3>2. ASSUME NEW t \in Tasks, t \notin x.tasks, status'[t] # status[t]
          PROVE  status'[t] = "CANCELLED" /\ lastEvent'[t] # "task.succeeded"
      BY <3>2, <2>1, Zenon DEF Unstarted
    <3> SUFFICES ASSUME NEW t \in Tasks
                 PROVE  /\ status'[t] = "DISPATCHING" => lastEvent'[t] = "task.dispatch"
                        /\ status'[t] \in Active => lastEvent'[t] = "task.leased"
                        /\ status'[t] = "SUCCEEDED" <=> lastEvent'[t] = "task.succeeded"
                        /\ status'[t] = "RETRY_WAIT" => lastEvent'[t] = "task.retry_wait"
                        /\ status'[t] = "DEAD" => lastEvent'[t] = "task.dead"
      BY DEF EventsTellStatus, Active
    <3>3. CASE t \in x.tasks
      BY <2>3, <3>3 DEF Active
    <3>4. CASE t \notin x.tasks /\ status'[t] # status[t]
      BY <3>2, <3>4 DEF Active
    <3>5. CASE t \notin x.tasks /\ status'[t] = status[t]
      BY <2>1, <3>5, Zenon
    <3> QED
      BY <3>3, <3>4, <3>5
  <2> QED
    BY <2>4, <2>5, <2>6 DEF RetryInv
<1>6. ASSUME NEW x \in open, FailTaskWrite(x)
      PROVE  RetryInv'
  BY <1>6, <1>a, <1>w, Zenon DEF FailTaskWrite
<1>7. ASSUME NEW x \in open, RecoverWrite(x)
      PROVE  RetryInv'
  BY <1>7, <1>a, <1>w, Zenon DEF RecoverWrite
<1>8. CASE CancelRun
  BY <1>8, <1>s DEF CancelRun, Unstarted, Active
<1>9. CASE RetryRun
  BY <1>9, <1>s DEF RetryRun, DeadTasks, RaiseBudget, Active
<1>10. ASSUME NEW t \in Tasks, ReplayDead(t)
       PROVE  RetryInv'
  BY <1>10, <1>s DEF ReplayDead, Rebuilt, RaiseBudget, Active
<1>11. ASSUME NEW batch \in SUBSET Tasks, RecoverRead(batch)
       PROVE  RetryInv'
  BY <1>11, <1>s, Zenon DEF RecoverRead
<1>12. ASSUME NEW t \in Tasks, NEW w \in Workers,
              \/ HeartbeatTask(t, w)
              \/ \E retryable \in BOOLEAN : FailTaskRead(t, w, retryable)
       PROVE  RetryInv'
  BY <1>12, <1>s DEF HeartbeatTask, FailTaskRead
<1>13. ASSUME NEW x \in open, Rollback(x)
       PROVE  RetryInv'
  BY <1>13, <1>s DEF Rollback
<1>14. ASSUME NEW t \in Tasks, LeaseAges(t) \/ RetryDelayElapses(t)
       PROVE  RetryInv'
  BY <1>14, <1>s, ZenonT(60) DEF LeaseAges, RetryDelayElapses
<1>15. CASE UNCHANGED vars
  BY <1>15, <1>s DEF vars
<1> HIDE DEF TypeOK, RetryInv, RetryWithinBudget, RetryDelayKept, EventsTellStatus
<1> QED
  BY <1>1, <1>2, <1>3, <1>4, <1>5, <1>6, <1>7, <1>8, <1>9, <1>10, <1>11,
     <1>12, <1>13, <1>14, <1>15 DEF Next

LEMMA RetryInit ==
    ASSUME Init
    PROVE  RetryInv
BY DEF Init, RetryInv, RetryWithinBudget, RetryDelayKept, EventsTellStatus, Active

LEMMA Retry == Spec => []RetryInv
BY RetryInit, RetryStep, Typing, OneVerdict, Dag, PTL DEF Spec

\* No history of failures, cancellations and replays schedules an automatic
\* retry beyond the attempt budget.
THEOREM BudgetRespected == Spec => []RetryWithinBudget
BY Retry, PTL DEF RetryInv

\* No cancellation followed by a replay lets a task run before its retry delay.
THEOREM DelayRespected == Spec => []RetryDelayKept
BY Retry, PTL DEF RetryInv

\* The last event queued for a task names the state it is in.
THEOREM EventsTruthful == Spec => []EventsTellStatus
BY Retry, PTL DEF RetryInv

-----------------------------------------------------------------------------
(* The attempt ledger                                                      *)

\* A step that leaves the attempts of t alone, and either its lease too or
\* keeps it without one, keeps its ledger.
LEMMA LedgerFrame ==
    ASSUME TypeOK, NEW t \in Tasks, AttemptsAgree(t),
           attemptCount'[t] = attemptCount[t], attempts'[t] = attempts[t],
           \/ /\ status'[t] = status[t]
              /\ leaseOwner'[t] = leaseOwner[t]
              /\ lease'[t] = "none" <=> lease[t] = "none"
           \/ status[t] \notin Active /\ status'[t] \notin Active /\ lease'[t] = "none"
    PROVE  AttemptsAgree(t)'
<1>1. CASE /\ status'[t] = status[t]
           /\ leaseOwner'[t] = leaseOwner[t]
           /\ lease'[t] = "none" <=> lease[t] = "none"
  <2>1. /\ Len(attempts'[t]) = attemptCount'[t]
        /\ \A i \in 1 .. attemptCount'[t] - 1 : attempts'[t][i].exit # "open"
    BY DEF AttemptsAgree
  <2>2. status'[t] \in Active =>
           /\ attemptCount'[t] > 0
           /\ attempts'[t][attemptCount'[t]].exit = "open"
           /\ attempts'[t][attemptCount'[t]].worker = leaseOwner'[t]
           /\ (attempts'[t][attemptCount'[t]].executing <=> status'[t] = "RUNNING")
           /\ lease'[t] # "none"
    BY <1>1, ZenonT(30) DEF AttemptsAgree
  <2>3. status'[t] \notin Active =>
           /\ attemptCount'[t] > 0 => attempts'[t][attemptCount'[t]].exit # "open"
           /\ lease'[t] = "none"
    BY <1>1 DEF AttemptsAgree
  <2> QED
    BY <2>1, <2>2, <2>3, ZenonT(30) DEF AttemptsAgree
<1>2. CASE status[t] \notin Active /\ status'[t] \notin Active /\ lease'[t] = "none"
  BY <1>2 DEF AttemptsAgree
<1> QED
  BY <1>1, <1>2

\* Ending the open attempt of t and its lease keeps its ledger.
LEMMA LedgerEnds ==
    ASSUME TypeOK, NEW t \in Tasks, AttemptsAgree(t), status[t] \in Active,
           NEW e \in Exits \ {"open"},
           attempts'[t] = [attempts[t] EXCEPT ![attemptCount[t]].exit = e],
           attemptCount'[t] = attemptCount[t],
           status'[t] \notin Active, lease'[t] = "none"
    PROVE  AttemptsAgree(t)'
<1> DEFINE n == attemptCount[t]
<1>1. n \in Nat /\ n > 0 /\ Len(attempts[t]) = n /\ attempts[t] \in Seq(AttemptRow)
  BY DEF TypeOK, AttemptsAgree
<1>2. /\ Len(attempts'[t]) = n
      /\ attempts'[t][n].exit = e
      /\ \A j \in 1 .. n : j # n => attempts'[t][j] = attempts[t][j]
  BY <1>1, ExitUpdate
<1> QED
  BY <1>1, <1>2 DEF AttemptsAgree

\* A step either leaves the attempts of a task alone, opens a new one with
\* its lease, marks the open one executing, or ends it with its lease.
LEMMA LedgerStep ==
    ASSUME TypeOK, OneVerdictPerAttempt, AttemptLedger, [Next]_vars
    PROVE  AttemptLedger' /\ \A t \in Tasks : KeepsHistory(t)
<1> DEFINE Goal(t) == AttemptsAgree(t)' /\ KeepsHistory(t)
<1> SUFFICES ASSUME NEW t \in Tasks
             PROVE  Goal(t)
  BY DEF AttemptLedger
<1>t. /\ attempts[t] \in Seq(AttemptRow)
      /\ attemptCount[t] \in Nat
      /\ AttemptsAgree(t)
  BY DEF TypeOK, AttemptLedger
<1>f. status[t] = "SUCCEEDED" => status'[t] = "SUCCEEDED"
  BY SuccessIsFinal
<1>k. ASSUME attemptCount'[t] = attemptCount[t], attempts'[t] = attempts[t],
             \/ /\ status'[t] = status[t]
                /\ leaseOwner'[t] = leaseOwner[t]
                /\ lease'[t] = "none" <=> lease[t] = "none"
             \/ status[t] \notin Active /\ status'[t] \notin Active /\ lease'[t] = "none"
      PROVE  Goal(t)
  <2>1. AttemptsAgree(t)'
    BY <1>k, <1>t, LedgerFrame
  <2>2. KeepsHistory(t)
    BY <1>k, <1>t, <1>f DEF KeepsHistory
  <2> QED
    BY <2>1, <2>2
<1>e. ASSUME status[t] \in Active, NEW e \in Exits \ {"open"},
             attempts'[t] = [attempts[t] EXCEPT ![attemptCount[t]].exit = e],
             attemptCount'[t] = attemptCount[t],
             status'[t] \notin Active, lease'[t] = "none"
      PROVE  Goal(t)
  <2>1. AttemptsAgree(t)'
    BY <1>e, <1>t, LedgerEnds
  <2>2. /\ Len(attempts'[t]) = Len(attempts[t])
        /\ \A j \in 1 .. Len(attempts[t]) :
              j # attemptCount[t] => attempts'[t][j] = attempts[t][j]
    BY <1>e, <1>t, ExitUpdate
  <2>3. attempts[t][attemptCount[t]].exit = "open" /\ status[t] # "SUCCEEDED"
    BY <1>e, <1>t DEF AttemptsAgree, Active
  <2> QED
    BY <2>1, <2>2, <2>3, <1>t DEF KeepsHistory
<1> HIDE DEF Goal
<1>n. status[t] \notin Active => lease[t] = "none"
  BY <1>t DEF AttemptsAgree
<1>1. CASE PromoteRetries
  BY <1>1, <1>k, <1>n DEF PromoteRetries, TypeOK, Active
<1>2. ASSUME NEW batch \in SUBSET Tasks, Dispatch(batch)
      PROVE  Goal(t)
  BY <1>2, <1>k, <1>n DEF Dispatch, TypeOK, Active
<1>3. ASSUME NEW u \in Tasks, NEW w \in Workers, LeaseTask(u, w)
      PROVE  Goal(t)
  <2>1. CASE u # t
    BY <1>3, <2>1, <1>k DEF LeaseTask, TypeOK
  <2>2. CASE u = t
    <3> DEFINE row == [worker |-> w, executing |-> FALSE, exit |-> "open"]
    <3>1. row \in AttemptRow
      BY DEF AttemptRow
    <3>2. /\ attempts'[t] = Append(attempts[t], row)
          /\ attemptCount'[t] = attemptCount[t] + 1
          /\ status'[t] = "LEASED" /\ status[t] = "DISPATCHING"
          /\ leaseOwner'[t] = w /\ lease'[t] = "fresh"
      BY <1>3, <2>2 DEF LeaseTask, TypeOK
    <3>3. /\ Len(attempts'[t]) = attemptCount[t] + 1
          /\ \A i \in 1 .. attemptCount[t] : attempts'[t][i] = attempts[t][i]
          /\ attempts'[t][attemptCount[t] + 1] = row
      BY <3>1, <3>2, <1>t DEF AttemptsAgree
    <3>4. /\ \A i \in 1 .. attemptCount[t] : attempts[t][i].exit # "open"
          /\ Len(attempts[t]) = attemptCount[t]
      BY <3>2, <1>t DEF AttemptsAgree, Active
    <3>5. AttemptsAgree(t)'
      <4>1. attemptCount[t] \in Nat
        BY DEF TypeOK
      <4>2. /\ Len(attempts'[t]) = attemptCount'[t] /\ attemptCount'[t] > 0
            /\ \A i \in 1 .. attemptCount'[t] - 1 : attempts'[t][i].exit # "open"
        BY <3>2, <3>3, <3>4, <4>1
      <4>3. /\ attempts'[t][attemptCount'[t]] = row /\ status'[t] = "LEASED"
            /\ leaseOwner'[t] = w /\ lease'[t] = "fresh"
        BY <3>2, <3>3
      <4>4. /\ attempts'[t][attemptCount'[t]].exit = "open"
            /\ attempts'[t][attemptCount'[t]].worker = leaseOwner'[t]
            /\ (attempts'[t][attemptCount'[t]].executing <=> status'[t] = "RUNNING")
            /\ lease'[t] # "none"
        BY <4>3
      <4>5. status'[t] \in Active
        BY <4>3 DEF Active
      <4> QED
        BY <4>2, <4>4, <4>5 DEF AttemptsAgree
    <3>6. /\ \A i \in 1 .. Len(attempts[t]) :
                 i <= Len(attempts'[t]) /\ attempts'[t][i] = attempts[t][i]
          /\ status[t] # "SUCCEEDED"
      BY <3>2, <3>3, <3>4, <1>t
    <3>7. KeepsHistory(t)
      BY <3>6 DEF KeepsHistory
    <3> QED
      BY <3>5, <3>7 DEF Goal
  <2> QED
    BY <2>1, <2>2
<1>4. ASSUME NEW u \in Tasks, NEW w \in Workers, StartTask(u, w)
      PROVE  Goal(t)
  <2>1. CASE u # t
    BY <1>4, <2>1, <1>k DEF StartTask, TypeOK
  <2>2. CASE u = t
    <3>1. /\ attempts'[t] = [attempts[t] EXCEPT ![attemptCount[t]].executing = TRUE]
          /\ attemptCount'[t] = attemptCount[t]
          /\ status'[t] = "RUNNING" /\ status[t] = "LEASED"
          /\ leaseOwner'[t] = leaseOwner[t] /\ lease'[t] = lease[t]
      BY <1>4, <2>2 DEF StartTask, TypeOK
    <3>2. /\ Len(attempts[t]) = attemptCount[t] /\ attemptCount[t] > 0
          /\ attempts[t][attemptCount[t]].exit = "open"
      BY <3>1, <1>t DEF AttemptsAgree, Active
    <3>3. /\ Len(attempts'[t]) = attemptCount[t]
          /\ \A j \in 1 .. attemptCount[t] :
                j # attemptCount[t] => attempts'[t][j] = attempts[t][j]
          /\ attempts'[t][attemptCount[t]].exit = "open"
          /\ attempts'[t][attemptCount[t]].worker = attempts[t][attemptCount[t]].worker
          /\ attempts'[t][attemptCount[t]].executing = TRUE
      BY <3>1, <3>2, <1>t, ExecutingUpdate
    <3>4. AttemptsAgree(t)'
      BY <3>1, <3>2, <3>3, <1>t DEF AttemptsAgree, Active
    <3> QED
      BY <3>1, <3>2, <3>3, <3>4, <1>t DEF Goal, KeepsHistory
  <2> QED
    BY <2>1, <2>2
<1>5. ASSUME NEW u \in Tasks, NEW w \in Workers, HeartbeatTask(u, w)
      PROVE  Goal(t)
  BY <1>5, <1>k, <1>t DEF HeartbeatTask, HoldsLease, LiveLease, TypeOK
<1>6. ASSUME NEW u \in Tasks, NEW w \in Workers, CompleteTask(u, w)
      PROVE  Goal(t)
  <2>1. CASE u # t
    <3>1. /\ attempts'[t] = attempts[t] /\ attemptCount'[t] = attemptCount[t]
          /\ leaseOwner'[t] = leaseOwner[t] /\ lease'[t] = lease[t]
      BY <1>6, <2>1 DEF CompleteTask, EndAttempts, TypeOK
    <3>2. \/ status'[t] = status[t]
          \/ status[t] = "BLOCKED" /\ status'[t] = "READY"
      BY <1>6, <2>1, Zenon DEF CompleteTask, Unblocked
    <3> QED
      BY <3>1, <3>2, <1>k, <1>n, Zenon DEF Active
  <2>2. CASE u = t
    <3>1. attempts'[t] = [attempts[t] EXCEPT ![attemptCount[t]].exit = "SUCCEEDED"]
      BY <1>6, <2>2 DEF CompleteTask, EndAttempts
    <3>2. /\ attemptCount'[t] = attemptCount[t]
          /\ status[t] = "RUNNING" /\ status'[t] = "SUCCEEDED" /\ lease'[t] = "none"
      BY <1>6, <2>2 DEF CompleteTask, TypeOK
    <3> QED
      BY <3>1, <3>2, <1>e DEF Active, Exits
  <2> QED
    BY <2>1, <2>2
<1>7. ASSUME NEW x \in open, FailTaskWrite(x) \/ RecoverWrite(x)
      PROVE  Goal(t)
  <2>1. CASE t \in x.tasks
    <3>1. status[t] \in Active
      BY <2>1, LockedActive
    <3>2. FailedStatus(x, t) \in Exits \ {"open"} /\ FailedStatus(x, t) \notin Active
      BY FailedStatusType DEF Exits, Active
    <3>3. attempts'[t] = [attempts[t] EXCEPT ![attemptCount[t]].exit = FailedStatus(x, t)]
      BY <1>7, <2>1, Zenon DEF FailTaskWrite, RecoverWrite, EndLeases, EndAttempts
    <3>4. /\ attemptCount'[t] = attemptCount[t]
          /\ status'[t] = FailedStatus(x, t) /\ lease'[t] = "none"
      BY <1>7, <2>1, Zenon DEF FailTaskWrite, RecoverWrite, EndLeases
    <3> QED
      BY <3>1, <3>2, <3>3, <3>4, <1>e
  <2>2. CASE t \notin x.tasks
    <3>1. /\ attempts'[t] = attempts[t] /\ attemptCount'[t] = attemptCount[t]
          /\ leaseOwner'[t] = leaseOwner[t] /\ lease'[t] = lease[t]
      BY <1>7, <2>2, Zenon DEF FailTaskWrite, RecoverWrite, EndLeases, EndAttempts
    <3>2. \/ status'[t] = status[t]
          \/ status[t] \notin Active /\ status'[t] \notin Active
      BY <1>7, <2>2 DEF FailTaskWrite, RecoverWrite, Unstarted, Active
    <3> QED
      BY <3>1, <3>2, <1>k, <1>n
  <2> QED
    BY <2>1, <2>2
<1>8. CASE CancelRun
  BY <1>8, <1>k, <1>n DEF CancelRun, Unstarted, Active
<1>9. CASE RetryRun
  BY <1>9, <1>k, <1>n DEF RetryRun, DeadTasks, Active
<1>10. ASSUME NEW u \in Tasks, ReplayDead(u)
       PROVE  Goal(t)
  BY <1>10, <1>k, <1>n DEF ReplayDead, Rebuilt, Active
<1>11. ASSUME NEW u \in Tasks, LeaseAges(u) \/ RetryDelayElapses(u)
       PROVE  Goal(t)
  BY <1>11, <1>k DEF LeaseAges, RetryDelayElapses, LiveLease, TypeOK
<1>12. ASSUME NEW batch \in SUBSET Tasks, RecoverRead(batch)
       PROVE  Goal(t)
  BY <1>12, <1>k DEF RecoverRead
<1>13. ASSUME NEW u \in Tasks, NEW w \in Workers, NEW retryable \in BOOLEAN,
              FailTaskRead(u, w, retryable)
       PROVE  Goal(t)
  BY <1>13, <1>k DEF FailTaskRead
<1>14. ASSUME NEW x \in open, Rollback(x)
       PROVE  Goal(t)
  BY <1>14, <1>k DEF Rollback
<1>15. CASE UNCHANGED vars
  BY <1>15, <1>k DEF vars
<1> QED
  BY <1>1, <1>2, <1>3, <1>4, <1>5, <1>6, <1>7, <1>8, <1>9, <1>10, <1>11,
     <1>12, <1>13, <1>14, <1>15 DEF Next

\* For every DAG and budget, task_runs and task_attempts always agree.
THEOREM LedgerAgrees == Spec => []AttemptLedger
<1>1. ASSUME Init
      PROVE  AttemptLedger
  <2>1. \A t \in Tasks : /\ attempts[t] = << >> /\ attemptCount[t] = 0
                         /\ status[t] \notin Active /\ lease[t] = "none"
    BY <1>1, Zenon DEF Init, Active
  <2>2. Len(<< >>) = 0 /\ 1 .. 0 - 1 = {} /\ ~(0 > 0)
    OBVIOUS
  <2>3. ASSUME NEW t \in Tasks
        PROVE  AttemptsAgree(t)
    BY <2>1, <2>2 DEF AttemptsAgree
  <2> QED
    BY <2>3, Zenon DEF AttemptLedger
<1>2. TypeOK /\ OneVerdictPerAttempt /\ AttemptLedger /\ [Next]_vars => AttemptLedger'
  BY LedgerStep
<1> QED
  BY <1>1, <1>2, Typing, OneVerdict, PTL DEF Spec

\* No step rewrites or drops an ended attempt, or reruns a succeeded task.
THEOREM HistoryKept == Spec => HistoryIsKept
<1>1. TypeOK /\ OneVerdictPerAttempt /\ AttemptLedger /\ [Next]_vars
         => [\A t \in Tasks : KeepsHistory(t)]_vars
  BY LedgerStep
<1> QED
  BY <1>1, Typing, OneVerdict, LedgerAgrees, PTL DEF Spec, HistoryIsKept

-----------------------------------------------------------------------------
(* Runs nobody reopens                                                     *)

\* Operators cancel runs, and neither retry nor replay them.
NobodyReopens == OperatorCalls \subseteq {"cancel"}

\* The table of transitions, row by row.
LEMMA Transitions ==
    /\ CanTransition["BLOCKED"] = {"READY", "CANCELLED"}
    /\ CanTransition["READY"] = {"DISPATCHING", "CANCELLED"}
    /\ CanTransition["DISPATCHING"] = {"LEASED", "READY", "CANCELLED"}
    /\ CanTransition["LEASED"] = {"RUNNING", "RETRY_WAIT", "DEAD", "CANCELLED"}
    /\ CanTransition["RUNNING"] = {"SUCCEEDED", "RETRY_WAIT", "DEAD", "CANCELLED"}
    /\ CanTransition["RETRY_WAIT"] = {"READY", "CANCELLED"}
BY DEF CanTransition, TaskStatuses

\* Each action changes statuses as the table allows.
LEMMA TransitionStep ==
    ASSUME NobodyReopens, TypeOK, OneVerdictPerAttempt, [Next]_vars, NEW t \in Tasks, status'[t] # status[t]
    PROVE  status'[t] \in CanTransition[status[t]]
<1> USE DEF TypeOK
<1>1. CASE PromoteRetries
  BY <1>1, Transitions DEF PromoteRetries
<1>2. ASSUME NEW batch \in SUBSET Tasks, Dispatch(batch)
      PROVE  status'[t] \in CanTransition[status[t]]
  BY <1>2, Transitions DEF Dispatch
<1>3. ASSUME NEW u \in Tasks, NEW w \in Workers, LeaseTask(u, w) \/ StartTask(u, w)
      PROVE  status'[t] \in CanTransition[status[t]]
  BY <1>3, Transitions DEF LeaseTask, StartTask
<1>4. ASSUME NEW u \in Tasks, NEW w \in Workers, CompleteTask(u, w)
      PROVE  status'[t] \in CanTransition[status[t]]
  BY <1>4, Transitions DEF CompleteTask, Unblocked
<1>5. ASSUME NEW x \in open, FailTaskWrite(x) \/ RecoverWrite(x)
      PROVE  status'[t] \in CanTransition[status[t]]
  <2>1. CASE t \in x.tasks
    <3>1. status[t] \in {"LEASED", "RUNNING"}
      BY <2>1, LockedActive DEF Active
    <3>2. status'[t] \in {"RETRY_WAIT", "DEAD", "CANCELLED"}
      BY <1>5, <2>1, FailedStatusType DEF FailTaskWrite, RecoverWrite
    <3> QED
      BY <3>1, <3>2, Transitions
  <2>2. CASE t \notin x.tasks
    <3>1. status[t] \in Unstarted /\ status'[t] = "CANCELLED"
      BY <1>5, <2>2 DEF FailTaskWrite, RecoverWrite
    <3> QED
      BY <3>1, Transitions DEF Unstarted
  <2> QED
    BY <2>1, <2>2
<1>6. CASE CancelRun
  BY <1>6, Transitions DEF CancelRun, Unstarted
<1>7. ASSUME status' = status
      PROVE  FALSE
  BY <1>7
<1>8. ASSUME NEW batch \in SUBSET Tasks, RecoverRead(batch)
      PROVE  FALSE
  BY <1>7, <1>8 DEF RecoverRead
<1>9. ASSUME NEW u \in Tasks, NEW w \in Workers,
             HeartbeatTask(u, w) \/ \E retryable \in BOOLEAN : FailTaskRead(u, w, retryable)
      PROVE  FALSE
  BY <1>7, <1>9 DEF HeartbeatTask, FailTaskRead
<1>10. ASSUME NEW x \in open, Rollback(x)
       PROVE  FALSE
  BY <1>7, <1>10 DEF Rollback
<1>11. ASSUME NEW u \in Tasks, LeaseAges(u) \/ RetryDelayElapses(u)
       PROVE  FALSE
  BY <1>7, <1>11 DEF LeaseAges, RetryDelayElapses
<1>12. ~RetryRun /\ \A u \in Tasks : ~ReplayDead(u)
  BY DEF NobodyReopens, RetryRun, ReplayDead
<1>13. ~UNCHANGED vars
  BY <1>7 DEF vars
<1> QED
  BY <1>1, <1>2, <1>3, <1>4, <1>5, <1>6, <1>8, <1>9, <1>10, <1>11, <1>12, <1>13, Zenon DEF Next

\* For every DAG and any racing transactions, the SQL changes the status of a task only as the
\* table of state.go allows, unless a run is reopened.
THEOREM LifecycleConstrained ==
    ASSUME NobodyReopens
    PROVE  Spec => ConstrainedLifecycle
<1>1. TypeOK /\ OneVerdictPerAttempt /\ [Next]_vars
         => [\A t \in Tasks : status'[t] # status[t] => status'[t] \in CanTransition[status[t]]]_vars
  BY TransitionStep
<1> QED
  BY <1>1, Typing, OneVerdict, PTL DEF Spec, ConstrainedLifecycle

\* While the run is RUNNING nothing has failed for good or been cancelled, and no open transaction
\* has seen it in another status.
Intact ==
    runStatus = "RUNNING" =>
        /\ \A t \in Tasks : status[t] \notin {"DEAD", "CANCELLED"}
        /\ \A x \in open : x.seen = "RUNNING"

\* A run is never reopened, and what fails a task for good, or cancels it, ends the run in the same
\* transaction.
LEMMA IntactStep ==
    ASSUME NobodyReopens, TypeOK, OneVerdictPerAttempt, Intact, [Next]_vars
    PROVE  Intact'
<1> USE DEF TypeOK, Intact
<1>1. CASE PromoteRetries
  BY <1>1 DEF PromoteRetries
<1>2. ASSUME NEW batch \in SUBSET Tasks, Dispatch(batch)
      PROVE  Intact'
  BY <1>2 DEF Dispatch
<1>3. ASSUME NEW batch \in SUBSET Tasks, RecoverRead(batch)
      PROVE  Intact'
  BY <1>3 DEF RecoverRead
<1>4. ASSUME NEW t \in Tasks, NEW w \in Workers, LeaseTask(t, w) \/ StartTask(t, w) \/ HeartbeatTask(t, w)
      PROVE  Intact'
  BY <1>4 DEF LeaseTask, StartTask, HeartbeatTask
<1>5. ASSUME NEW t \in Tasks, NEW w \in Workers, CompleteTask(t, w)
      PROVE  Intact'
  BY <1>5 DEF CompleteTask
<1>6. ASSUME NEW t \in Tasks, NEW w \in Workers, NEW retryable \in BOOLEAN, FailTaskRead(t, w, retryable)
      PROVE  Intact'
  BY <1>6 DEF FailTaskRead
<1>7. ASSUME NEW x \in open, FailTaskWrite(x) \/ RecoverWrite(x)
      PROVE  Intact'
  <2>1. SUFFICES ASSUME runStatus' = "RUNNING"
                 PROVE  /\ \A t \in Tasks : status'[t] \notin {"DEAD", "CANCELLED"}
                        /\ \A y \in open' : y.seen = "RUNNING"
    OBVIOUS
  <2>2. EndLeases(x)
    BY <1>7 DEF FailTaskWrite, RecoverWrite
  <2>3. runStatus = "RUNNING" /\ ~\E t \in x.tasks : FailedStatus(x, t) = "DEAD"
    BY <2>1, <2>2 DEF EndLeases
  <2>4. x.seen = "RUNNING" /\ \A y \in open' : y.seen = "RUNNING"
    BY <2>2, <2>3 DEF EndLeases
  <2>5. \A t \in x.tasks : FailedStatus(x, t) = "RETRY_WAIT"
    BY <2>3, <2>4 DEF FailedStatus
  <2>6. \A t \in Tasks : status'[t] \in {"RETRY_WAIT", status[t]}
    BY <1>7, <2>3, <2>5 DEF FailTaskWrite, RecoverWrite
  <2> QED
    BY <2>3, <2>4, <2>6
<1>8. ASSUME NEW x \in open, Rollback(x)
      PROVE  Intact'
  BY <1>8 DEF Rollback
<1>9. CASE CancelRun
  BY <1>9 DEF CancelRun
<1>10. ASSUME NEW t \in Tasks, LeaseAges(t) \/ RetryDelayElapses(t)
       PROVE  Intact'
  BY <1>10 DEF LeaseAges, RetryDelayElapses
<1>11. ~RetryRun /\ \A t \in Tasks : ~ReplayDead(t)
  BY DEF NobodyReopens, RetryRun, ReplayDead
<1>12. CASE UNCHANGED vars
  BY <1>12 DEF vars
<1> QED
  BY <1>1, <1>2, <1>3, <1>4, <1>5, <1>6, <1>7, <1>8, <1>9, <1>10, <1>11, <1>12 DEF Next

\* What ValidateDAG's search for a cycle establishes: among any tasks there is one that depends on
\* none of them.
Acyclic == \A S \in SUBSET Tasks \ {{}} : \E t \in S : DependsOn[t] \cap S = {}

\* For every acyclic DAG, a RUNNING run that nobody reopened has a task that can move on: of the
\* tasks still to succeed, the first one is not BLOCKED.
THEOREM RunningHasWork ==
    ASSUME NobodyReopens, Acyclic
    PROVE  Spec => []RunningRunHasWork
<1>1. Init => Intact
  BY DEF Init, Intact
<1>2. ASSUME TypeOK, DagInv, Intact
      PROVE  RunningRunHasWork
  <2>1. SUFFICES ASSUME runStatus = "RUNNING"
                 PROVE  \E t \in Tasks : status[t] \in (Unstarted \cup Active) \ {"BLOCKED"}
    BY DEF RunningRunHasWork
  <2>2. Tasks \ Succeeded # {}
    BY <1>2, <2>1 DEF DagInv, RunSucceedsWithTasks, Succeeded
  <2>3. PICK t \in Tasks \ Succeeded : DependsOn[t] \cap (Tasks \ Succeeded) = {}
    BY <2>2, Zenon DEF Acyclic
  <2>4. DependsOn[t] \subseteq Succeeded
    BY <2>3, DependsOnAssumption
  <2>5. status[t] # "BLOCKED"
    BY <1>2, <2>3, <2>4 DEF DagInv, NoLostWakeup
  <2>6. status[t] \in TaskStatuses \ {"DEAD", "CANCELLED", "SUCCEEDED"}
    BY <1>2, <2>1, <2>3 DEF Intact, TypeOK, Succeeded
  <2> QED
    BY <2>3, <2>5, <2>6 DEF TaskStatuses, Unstarted, Active
<1> QED
  BY <1>1, <1>2, IntactStep, Typing, OneVerdict, Dag, PTL DEF Spec

=============================================================================
