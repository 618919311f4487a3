--------------------------- MODULE TaskLifecycle ---------------------------
(***************************************************************************)
(* The durable state of one workflow run: its row in workflow_runs, its    *)
(* task_runs, task_dependencies and task_attempts rows and the last event  *)
(* each task put in the outbox, with every operation of the control plane  *)
(* (internal/storage) and of the scheduler (internal/scheduler) on them.   *)
(*                                                                         *)
(* A transaction that locks every row its decisions depend on is one       *)
(* action.  FailTask and recoverExpired lock the task rows only and read   *)
(* the run's status from an unlocked row, so each is two actions: a read   *)
(* that takes the locks and a write that may act on a stale run status.    *)
(*                                                                         *)
(* Time is abstracted to what the SQL compares with now(): whether a lease *)
(* is still live, and whether a retry delay has elapsed.                   *)
(***************************************************************************)
EXTENDS Integers, Sequences

CONSTANTS
    Tasks,            \* the task keys of the definition's DAG
    DependsOn,        \* task -> the tasks it depends on
    Workers,          \* worker IDs
    NoWorker,         \* lease_owner NULL
    MaximumAttempts,  \* task -> maximum_attempts of its specification
    AttemptLimit,     \* bound: attempts recorded per task
    OperatorCalls     \* the operator calls made: "cancel", "retry", "replay"

ASSUME DependsOnAssumption == DependsOn \in [Tasks -> SUBSET Tasks]
ASSUME NoWorkerAssumption == NoWorker \notin Workers
ASSUME MaximumAttemptsAssumption == MaximumAttempts \in [Tasks -> Nat \ {0}]
ASSUME AttemptLimitAssumption == AttemptLimit \in Nat
ASSUME TasksAssumption == Tasks # {}

VARIABLES
    runStatus,        \* workflow_runs.status
    status,           \* task_runs.status
    leaseOwner,       \* task_runs.lease_owner
    lease,            \* task_runs.lease_expires_at, compared with now()
    due,              \* task_runs.available_at <= now()
    attemptCount,     \* task_runs.attempt_count
    maximumAttempts,  \* task_runs.maximum_attempts
    attempts,         \* task_attempts, by attempt_number
    lastEvent,        \* the last outbox event of each task
    open              \* transactions of FailTask and recoverExpired under way

vars == <<runStatus, status, leaseOwner, lease, due, attemptCount,
          maximumAttempts, attempts, lastEvent, open>>

RunStatuses == {"RUNNING", "SUCCEEDED", "FAILED", "CANCELLED"}

\* Mutant: a cancellation that forgets BLOCKED tasks.
UnstartedWithoutBlocked == {"READY", "DISPATCHING", "RETRY_WAIT"}

\* Work that has not been leased: what a cancellation takes back.
Unstarted == {"BLOCKED", "READY", "DISPATCHING", "RETRY_WAIT"}

\* A worker holds the task.
Active == {"LEASED", "RUNNING"}

TaskStatuses ==
    {"BLOCKED", "READY", "DISPATCHING", "LEASED", "RUNNING", "RETRY_WAIT",
     "SUCCEEDED", "DEAD", "CANCELLED"}

\* A lease is fresh when granted or renewed and ages until it expires.
LiveLease == {"fresh", "ageing"}

Leases == LiveLease \cup {"none", "expired"}

EventTypes ==
    {"none", "task.ready", "task.dispatch", "task.leased", "task.succeeded",
     "task.retry_wait", "task.cancelled", "task.dead", "task.replayed"}

\* exit is "open" while ended_at is NULL.
AttemptRow ==
    [worker : Workers, executing : BOOLEAN,
     exit : {"open", "SUCCEEDED", "RETRY_WAIT", "DEAD", "CANCELLED"}]

\* An open transaction: the task rows it locked, the run status it read, and
\* whether the failure it records may be retried.
Transaction ==
    [op : {"fail", "recover"}, tasks : SUBSET Tasks, seen : RunStatuses,
     retryable : BOOLEAN]

Locked == UNION {x.tasks : x \in open}

Succeeded == {t \in Tasks : status[t] = "SUCCEEDED"}

-----------------------------------------------------------------------------
(* Creation                                                                *)

\* What CreateRun commits: a RUNNING run whose roots are READY.
Init ==
    /\ runStatus = "RUNNING"
    /\ status = [t \in Tasks |->
                    IF DependsOn[t] = {} THEN "READY" ELSE "BLOCKED"]
    /\ leaseOwner = [t \in Tasks |-> NoWorker]
    /\ lease = [t \in Tasks |-> "none"]
    /\ due = [t \in Tasks |-> TRUE]
    /\ attemptCount = [t \in Tasks |-> 0]
    /\ maximumAttempts = MaximumAttempts
    /\ attempts = [t \in Tasks |-> << >>]
    /\ lastEvent = [t \in Tasks |-> "none"]
    /\ open = {}

-----------------------------------------------------------------------------
(* The scheduler's tick                                                    *)

\* One UPDATE returns every retry whose delay has elapsed to the queue.
PromoteRetries ==
    LET elapsed == {t \in Tasks : status[t] = "RETRY_WAIT" /\ due[t]}
    IN  /\ elapsed # {}
        /\ status' = [t \in Tasks |->
                         IF t \in elapsed THEN "READY" ELSE status[t]]
        /\ UNCHANGED <<runStatus, leaseOwner, lease, due, attemptCount,
                       maximumAttempts, attempts, lastEvent, open>>

\* READY tasks are claimed with SKIP LOCKED and a LIMIT, so any batch of them
\* may be dispatched; the status of their run is not consulted.
Dispatch(batch) ==
    /\ batch # {}
    /\ \A t \in batch : status[t] = "READY" /\ due[t]
    /\ status' = [t \in Tasks |->
                     IF t \in batch THEN "DISPATCHING" ELSE status[t]]
    /\ lastEvent' = [t \in Tasks |->
                        IF t \in batch THEN "task.dispatch" ELSE lastEvent[t]]
    /\ UNCHANGED <<runStatus, leaseOwner, lease, due, attemptCount,
                   maximumAttempts, attempts, open>>

-----------------------------------------------------------------------------
(* The worker protocol                                                     *)

\* A delivered (possibly duplicated or stale) dispatch message is turned into
\* a lease by compare-and-swap on DISPATCHING.
LeaseTask(t, w) ==
    /\ status[t] = "DISPATCHING"
    /\ attemptCount[t] < AttemptLimit
    /\ status' = [status EXCEPT ![t] = "LEASED"]
    /\ leaseOwner' = [leaseOwner EXCEPT ![t] = w]
    /\ lease' = [lease EXCEPT ![t] = "fresh"]
    /\ attemptCount' = [attemptCount EXCEPT ![t] = @ + 1]
    /\ attempts' = [attempts EXCEPT ![t] = Append(@,
                       [worker |-> w, executing |-> FALSE, exit |-> "open"])]
    /\ lastEvent' = [lastEvent EXCEPT ![t] = "task.leased"]
    /\ UNCHANGED <<runStatus, due, maximumAttempts, open>>

\* Mutant: whoever holds it, a live lease will do.
HoldsAnyLease(t, w) == lease[t] \in LiveLease /\ t \notin Locked

\* Mutant: the row is read without FOR UPDATE.
HoldsLeaseUnlocked(t, w) ==
    /\ leaseOwner[t] = w
    /\ lease[t] \in LiveLease

\* The fence of every worker mutation: owner and unexpired lease, on a row no
\* other transaction has locked.
HoldsLease(t, w) ==
    /\ leaseOwner[t] = w
    /\ lease[t] \in LiveLease
    /\ t \notin Locked

StartTask(t, w) ==
    /\ status[t] = "LEASED"
    /\ HoldsLease(t, w)
    /\ runStatus = "RUNNING"
    /\ status' = [status EXCEPT ![t] = "RUNNING"]
    /\ attempts' = [attempts EXCEPT
                       ![t] = [@ EXCEPT ![attemptCount[t]].executing = TRUE]]
    /\ UNCHANGED <<runStatus, leaseOwner, lease, due, attemptCount,
                   maximumAttempts, lastEvent, open>>

HeartbeatTask(t, w) ==
    /\ status[t] \in Active
    /\ HoldsLease(t, w)
    /\ lease' = [lease EXCEPT ![t] = "fresh"]
    /\ UNCHANGED <<runStatus, status, leaseOwner, due, attemptCount,
                   maximumAttempts, attempts, lastEvent, open>>

\* Mutant: the attempt rows are left as they are.
LeaveAttempts(exit) == attempts

\* Mutant: the update is not restricted to the current attempt_number.
EndAllAttempts(exit) ==
    [t \in Tasks |->
        IF t \in DOMAIN exit
        THEN [i \in DOMAIN attempts[t] |-> [attempts[t][i] EXCEPT !.exit = exit[t]]]
        ELSE attempts[t]]

\* Ends the current attempt of every task exit is defined on.
EndAttempts(exit) ==
    [t \in Tasks |->
        IF t \in DOMAIN exit
        THEN [attempts[t] EXCEPT ![attemptCount[t]].exit = exit[t]]
        ELSE attempts[t]]

\* Mutant: any child is released, the NOT EXISTS clause is missing.
UnblockedByAny(t) ==
    {c \in Tasks : status[c] = "BLOCKED" /\ t \in DependsOn[c]}

\* Mutant: the dependencies are read before t is recorded as succeeded.
UnblockedTooEarly(t) ==
    {c \in Tasks : /\ status[c] = "BLOCKED"
                   /\ t \in DependsOn[c]
                   /\ DependsOn[c] \subseteq Succeeded}

\* The BLOCKED tasks that wait for t alone.
Unblocked(t) ==
    {c \in Tasks : /\ status[c] = "BLOCKED"
                   /\ t \in DependsOn[c]
                   /\ DependsOn[c] \subseteq Succeeded \cup {t}}

\* Mutant: only tasks that can still run are counted as remaining.
NoneActiveBut(t) ==
    \A u \in Tasks \ {t} : status[u] \notin Unstarted \cup Active

\* No task but t remains to succeed.
NoneRemainsBut(t) == Tasks \ {t} \subseteq Succeeded

\* SELECT ... FOR UPDATE OF r,t serialises the completions of a run, so each
\* sees the tasks the earlier ones completed.
CompleteTask(t, w) ==
    /\ status[t] = "RUNNING"
    /\ HoldsLease(t, w)
    /\ runStatus = "RUNNING"
    /\ status' = [u \in Tasks |->
                     IF u = t THEN "SUCCEEDED"
                     ELSE IF u \in Unblocked(t) THEN "READY" ELSE status[u]]
    /\ due' = [u \in Tasks |-> due[u] \/ u \in Unblocked(t)]
    /\ lease' = [lease EXCEPT ![t] = "none"]
    /\ attempts' = EndAttempts([u \in {t} |-> "SUCCEEDED"])
    /\ lastEvent' = [u \in Tasks |->
                        IF u = t THEN "task.succeeded"
                        ELSE IF u \in Unblocked(t) THEN "task.ready"
                        ELSE lastEvent[u]]
    /\ runStatus' = IF NoneRemainsBut(t) THEN "SUCCEEDED" ELSE runStatus
    /\ UNCHANGED <<leaseOwner, attemptCount, maximumAttempts, open>>

-----------------------------------------------------------------------------
(* Failures: FailTask by the worker, recoverExpired by the scheduler       *)

\* SELECT ... FOR UPDATE OF t: the task is locked, its run is only read.
FailTaskRead(t, w, retryable) ==
    /\ status[t] \in Active
    /\ HoldsLease(t, w)
    /\ open' = open \cup {[op |-> "fail", tasks |-> {t}, seen |-> runStatus,
                           retryable |-> retryable]}
    /\ UNCHANGED <<runStatus, status, leaseOwner, lease, due, attemptCount,
                   maximumAttempts, attempts, lastEvent>>

\* Mutant: a task whose worker vanished before starting it is overlooked.
ExpiredRunning ==
    {t \in Tasks : status[t] = "RUNNING" /\ lease[t] = "expired" /\ t \notin Locked}

\* The leases recoverExpired finds, with SKIP LOCKED.
Expired ==
    {t \in Tasks : status[t] \in Active /\ lease[t] = "expired" /\ t \notin Locked}

\* The same read over a batch of expired leases.
RecoverRead(batch) ==
    /\ batch # {}
    /\ batch \subseteq Expired
    /\ open' = open \cup {[op |-> "recover", tasks |-> batch,
                           seen |-> runStatus, retryable |-> TRUE]}
    /\ UNCHANGED <<runStatus, status, leaseOwner, lease, due, attemptCount,
                   maximumAttempts, attempts, lastEvent>>

\* Mutant: the run's status is copied to the task.
FailedStatusOfRun(x, t) ==
    IF x.seen # "RUNNING" THEN x.seen
    ELSE IF x.retryable /\ attemptCount[t] < maximumAttempts[t]
    THEN "RETRY_WAIT" ELSE "DEAD"

\* Mutant: an off-by-one in the attempt budget.
FailedStatusOffByOne(x, t) ==
    IF x.seen = "CANCELLED" THEN "CANCELLED"
    ELSE IF x.retryable /\ attemptCount[t] <= maximumAttempts[t]
    THEN "RETRY_WAIT" ELSE "DEAD"

\* Mutant: a retry skips the delay and is queued at once.
FailedStatusNoDelay(x, t) ==
    IF x.seen = "CANCELLED" THEN "CANCELLED"
    ELSE IF x.retryable /\ attemptCount[t] < maximumAttempts[t]
    THEN "READY" ELSE "DEAD"

\* The status a failed attempt leaves its task in.
FailedStatus(x, t) ==
    IF x.seen = "CANCELLED" THEN "CANCELLED"
    ELSE IF x.retryable /\ attemptCount[t] < maximumAttempts[t]
    THEN "RETRY_WAIT" ELSE "DEAD"

\* Mutant: the default event is not replaced for a dead task.
FailureEventDefault(failed) ==
    IF failed = "CANCELLED" THEN "task.cancelled" ELSE "task.retry_wait"

\* The outbox event a failed attempt queues.
FailureEvent(failed) ==
    CASE failed = "CANCELLED" -> "task.cancelled"
      [] failed = "DEAD" -> "task.dead"
      [] OTHER -> "task.retry_wait"

\* The writes FailTask and recoverExpired share: the lease is cleared, the
\* attempt ended, the event queued and, for a dead task, a RUNNING run failed.
EndLeases(x) ==
    LET dead == \E t \in x.tasks : FailedStatus(x, t) = "DEAD"
    IN  /\ leaseOwner' = [t \in Tasks |->
                             IF t \in x.tasks THEN NoWorker ELSE leaseOwner[t]]
        /\ lease' = [t \in Tasks |->
                        IF t \in x.tasks THEN "none" ELSE lease[t]]
        /\ due' = [t \in Tasks |->
                      IF t \in x.tasks
                      THEN FailedStatus(x, t) # "RETRY_WAIT" ELSE due[t]]
        /\ attempts' = EndAttempts([t \in x.tasks |-> FailedStatus(x, t)])
        /\ lastEvent' = [t \in Tasks |->
                            IF t \in x.tasks
                            THEN FailureEvent(FailedStatus(x, t))
                            ELSE lastEvent[t]]
        /\ runStatus' = IF dead /\ runStatus = "RUNNING"
                        THEN "FAILED" ELSE runStatus
        /\ open' = open \ {x}
        /\ UNCHANGED <<attemptCount, maximumAttempts>>

\* A worker-reported exhaustion also cancels the run's unstarted work.
FailTaskWrite(x) ==
    /\ x.op = "fail"
    /\ LET dead == \E t \in x.tasks : FailedStatus(x, t) = "DEAD"
       IN  status' = [t \in Tasks |->
                         IF t \in x.tasks THEN FailedStatus(x, t)
                         ELSE IF dead /\ status[t] \in Unstarted
                         THEN "CANCELLED" ELSE status[t]]
    /\ EndLeases(x)

\* A recovered lease changes no other task.
RecoverWrite(x) ==
    /\ x.op = "recover"
    /\ status' = [t \in Tasks |->
                     IF t \in x.tasks THEN FailedStatus(x, t) ELSE status[t]]
    /\ EndLeases(x)

\* The transaction is rolled back: an error, a deadlock abort or a crash.
Rollback(x) ==
    /\ open' = open \ {x}
    /\ UNCHANGED <<runStatus, status, leaseOwner, lease, due, attemptCount,
                   maximumAttempts, attempts, lastEvent>>

-----------------------------------------------------------------------------
(* Operator calls                                                          *)

\* Leased and running tasks keep their lease until they fail or expire.
CancelRun ==
    /\ "cancel" \in OperatorCalls
    /\ runStatus \notin {"SUCCEEDED", "FAILED", "CANCELLED"}
    /\ runStatus' = "CANCELLED"
    /\ status' = [t \in Tasks |->
                     IF status[t] \in Unstarted THEN "CANCELLED" ELSE status[t]]
    /\ UNCHANGED <<leaseOwner, lease, due, attemptCount, maximumAttempts,
                   attempts, lastEvent, open>>

DeadTasks == {t \in Tasks : status[t] = "DEAD"}

\* GREATEST(maximum_attempts, attempt_count + 1) for the tasks of a set.
RaiseBudget(ts) ==
    [t \in Tasks |->
        IF t \in ts /\ maximumAttempts[t] <= attemptCount[t]
        THEN attemptCount[t] + 1 ELSE maximumAttempts[t]]

\* Every DEAD task is queued again and the run is reopened, whatever its
\* status was; CANCELLED tasks are left as they are.
RetryRun ==
    LET dead == DeadTasks
    IN  /\ "retry" \in OperatorCalls
        /\ dead # {}
        /\ runStatus' = "RUNNING"
        /\ status' = [t \in Tasks |->
                         IF t \in dead THEN "READY" ELSE status[t]]
        /\ due' = [t \in Tasks |-> due[t] \/ t \in dead]
        /\ maximumAttempts' = RaiseBudget(dead)
        /\ leaseOwner' = [t \in Tasks |->
                             IF t \in dead THEN NoWorker ELSE leaseOwner[t]]
        /\ lease' = [t \in Tasks |->
                        IF t \in dead THEN "none" ELSE lease[t]]
        /\ UNCHANGED <<attemptCount, attempts, lastEvent, open>>

\* Mutant: a pending retry delay is not looked at.
RebuiltAtOnce(u) ==
    IF DependsOn[u] \subseteq Succeeded THEN "READY" ELSE "BLOCKED"

\* Where a CANCELLED task resumes when its run is replayed.
Rebuilt(u) ==
    IF ~(DependsOn[u] \subseteq Succeeded) THEN "BLOCKED"
    ELSE IF ~due[u] THEN "RETRY_WAIT" ELSE "READY"

\* One DEAD task is queued again, a FAILED run is reopened, and the CANCELLED
\* tasks of the run are rebuilt.
ReplayDead(t) ==
    /\ "replay" \in OperatorCalls
    /\ status[t] = "DEAD"
    /\ runStatus' = IF runStatus = "FAILED" THEN "RUNNING" ELSE runStatus
    /\ status' = [u \in Tasks |->
                     IF u = t THEN "READY"
                     ELSE IF status[u] = "CANCELLED" THEN Rebuilt(u)
                     ELSE status[u]]
    /\ due' = [due EXCEPT ![t] = TRUE]
    /\ maximumAttempts' = RaiseBudget({t})
    /\ lastEvent' = [lastEvent EXCEPT ![t] = "task.replayed"]
    /\ UNCHANGED <<leaseOwner, lease, attemptCount, attempts, open>>

-----------------------------------------------------------------------------
(* Time                                                                    *)

LeaseAges(t) ==
    /\ lease[t] \in LiveLease
    /\ lease' = [lease EXCEPT
                    ![t] = IF @ = "fresh" THEN "ageing" ELSE "expired"]
    /\ UNCHANGED <<runStatus, status, leaseOwner, due, attemptCount,
                   maximumAttempts, attempts, lastEvent, open>>

RetryDelayElapses(t) ==
    /\ ~due[t]
    /\ due' = [due EXCEPT ![t] = TRUE]
    /\ UNCHANGED <<runStatus, status, leaseOwner, lease, attemptCount,
                   maximumAttempts, attempts, lastEvent, open>>

-----------------------------------------------------------------------------
Next ==
    \/ PromoteRetries
    \/ \E batch \in SUBSET Tasks : Dispatch(batch) \/ RecoverRead(batch)
    \/ \E t \in Tasks, w \in Workers :
          \/ LeaseTask(t, w)
          \/ StartTask(t, w)
          \/ HeartbeatTask(t, w)
          \/ CompleteTask(t, w)
          \/ \E retryable \in BOOLEAN : FailTaskRead(t, w, retryable)
    \/ \E x \in open : FailTaskWrite(x) \/ RecoverWrite(x) \/ Rollback(x)
    \/ CancelRun
    \/ RetryRun
    \/ \E t \in Tasks : ReplayDead(t) \/ LeaseAges(t) \/ RetryDelayElapses(t)

Spec == Init /\ [][Next]_vars

(***************************************************************************)
(* Fairness.  The scheduler ticks for ever, dispatches are delivered, an   *)
(* attempt is bounded by its timeout (it completes, fails, or stops        *)
(* heartbeating), and a transaction that keeps being retried commits.      *)
(***************************************************************************)
AttemptEnds(t) ==
    \/ lease[t] = "ageing" /\ LeaseAges(t)
    \/ \E w \in Workers :
          \/ CompleteTask(t, w)
          \/ \E retryable \in BOOLEAN : FailTaskRead(t, w, retryable)

FailureCommits(t) ==
    \E x \in open : t \in x.tasks /\ (FailTaskWrite(x) \/ RecoverWrite(x))

Fairness ==
    /\ WF_vars(PromoteRetries)
    /\ \A t \in Tasks :
          /\ WF_vars(\E batch \in SUBSET Tasks : t \in batch /\ Dispatch(batch))
          /\ WF_vars(\E w \in Workers : LeaseTask(t, w))
          /\ WF_vars(LeaseAges(t))
          /\ WF_vars(RetryDelayElapses(t))
          /\ SF_vars(AttemptEnds(t))
          /\ SF_vars(\E batch \in SUBSET Tasks :
                        t \in batch /\ RecoverRead(batch))
          /\ SF_vars(FailureCommits(t))

FairSpec == Spec /\ Fairness

-----------------------------------------------------------------------------
(* Safety                                                                  *)

\* Every column, and every open transaction, holds a value of its type.
TypeOK ==
    /\ runStatus \in RunStatuses
    /\ status \in [Tasks -> TaskStatuses]
    /\ leaseOwner \in [Tasks -> Workers \cup {NoWorker}]
    /\ lease \in [Tasks -> Leases]
    /\ due \in [Tasks -> BOOLEAN]
    /\ attemptCount \in [Tasks -> Nat]
    /\ maximumAttempts \in [Tasks -> Nat]
    /\ attempts \in [Tasks -> Seq(AttemptRow)]
    /\ lastEvent \in [Tasks -> EventTypes]
    /\ open \subseteq Transaction

\* A task that was queued, held, finished or failed for good had every
\* upstream task SUCCEEDED, whatever completions, replays and cancellations
\* came before (worker.go:130, "A blocked task is ready only when every
\* upstream task has succeeded").
DependencyOrder ==
    \A t \in Tasks :
        status[t] \notin {"BLOCKED", "CANCELLED"} => DependsOn[t] \subseteq Succeeded

\* The converse: no task stays BLOCKED once its last upstream task has
\* succeeded; CompleteTask, or the rebuild of ReplayDead, has released it.
NoLostWakeup ==
    \A t \in Tasks : status[t] = "BLOCKED" => ~(DependsOn[t] \subseteq Succeeded)

\* The run is SUCCEEDED exactly when all of its tasks are: the last
\* completion never misses that it is the last, and no failure, cancellation
\* or replay touches a finished run.
RunSucceedsWithTasks ==
    runStatus = "SUCCEEDED" <=> Succeeded = Tasks

\* The rows of task_attempts agree with the row of task_runs for t.
AttemptsAgree(t) ==
    LET n == attemptCount[t]
    IN  /\ Len(attempts[t]) = n
        /\ \A i \in 1 .. n - 1 : attempts[t][i].exit # "open"
        /\ status[t] \in Active =>
              /\ n > 0
              /\ attempts[t][n].exit = "open"
              /\ attempts[t][n].worker = leaseOwner[t]
              /\ (attempts[t][n].executing <=> status[t] = "RUNNING")
              /\ lease[t] # "none"
        /\ status[t] \notin Active =>
              /\ n > 0 => attempts[t][n].exit # "open"
              /\ lease[t] = "none"

\* task_runs and task_attempts agree: attempt_count rows were recorded, all
\* but the last are ended, the last is open exactly while a worker holds the
\* task and then names the lease owner, and it is executing exactly when the
\* task was started.
AttemptLedger == \A t \in Tasks : AttemptsAgree(t)

\* At most one transaction decides the fate of an attempt: FailTask and
\* recoverExpired never both hold the same task, and what they hold is still
\* the active task they read.
OneVerdictPerAttempt ==
    /\ \A x, y \in open : x # y => x.tasks \cap y.tasks = {}
    /\ \A t \in Locked : status[t] \in Active

\* An automatic retry is only ever scheduled inside the attempt budget, also
\* when the task was cancelled and rebuilt in between.
RetryWithinBudget ==
    \A t \in Tasks :
        status[t] = "RETRY_WAIT" => attemptCount[t] < maximumAttempts[t]

\* A retry delay that has not elapsed belongs to a task that failed inside its
\* budget and is waiting, or was cancelled while it waited: no cancellation
\* and replay lets the task run before the delay RetryDelay assigned
\* (worker.go:323-325).
RetryDelayKept ==
    \A t \in Tasks : ~due[t] =>
        /\ status[t] \in {"RETRY_WAIT", "CANCELLED"}
        /\ attemptCount[t] < maximumAttempts[t]
        /\ lastEvent[t] = "task.retry_wait"
        /\ DependsOn[t] \subseteq Succeeded

\* Event consumers can trust the last event of a task: it names the state the
\* task is in whenever that state is one a transition announces.
EventsTellStatus ==
    \A t \in Tasks :
        /\ status[t] = "DISPATCHING" => lastEvent[t] = "task.dispatch"
        /\ status[t] \in Active => lastEvent[t] = "task.leased"
        /\ status[t] = "SUCCEEDED" <=> lastEvent[t] = "task.succeeded"
        /\ status[t] = "RETRY_WAIT" => lastEvent[t] = "task.retry_wait"
        /\ status[t] = "DEAD" => lastEvent[t] = "task.dead"

-----------------------------------------------------------------------------
(* Steps                                                                   *)

\* A step keeps the recorded attempts of t, the ended ones as they are.
KeepsHistory(t) ==
    /\ \A i \in 1 .. Len(attempts[t]) :
          /\ i <= Len(attempts'[t])
          /\ attempts[t][i].exit # "open" => attempts'[t][i] = attempts[t][i]
    /\ status[t] = "SUCCEEDED" =>
          status'[t] = "SUCCEEDED" /\ attempts'[t] = attempts[t]

\* An ended attempt is never rewritten or dropped, and a finished task never
\* runs again: retries, recoveries and replays only add attempts ("Timed-out
\* leases return work to the scheduler without discarding attempt history",
\* README.md:178).
HistoryIsKept == [][\A t \in Tasks : KeepsHistory(t)]_vars

\* The table of legal transitions, workflow.transitions in state.go.
CanTransition ==
    [s \in TaskStatuses |->
        CASE s = "BLOCKED" -> {"READY", "CANCELLED"}
          [] s = "READY" -> {"DISPATCHING", "CANCELLED"}
          [] s = "DISPATCHING" -> {"LEASED", "READY", "CANCELLED"}
          [] s = "LEASED" -> {"RUNNING", "RETRY_WAIT", "DEAD", "CANCELLED"}
          [] s = "RUNNING" -> {"SUCCEEDED", "RETRY_WAIT", "DEAD", "CANCELLED"}
          [] s = "RETRY_WAIT" -> {"READY", "CANCELLED"}
          [] OTHER -> {}]

\* Every status change is one the table allows.  The SQL never consults the
\* table; it holds for runs nobody reopens.
ConstrainedLifecycle ==
    [][\A t \in Tasks :
          status'[t] # status[t] => status'[t] \in CanTransition[status[t]]]_vars

-----------------------------------------------------------------------------
(* What the repository says of cancelling a run, and the code does not do. *)

\* "Their eventual failure callback is converted to CANCELLED rather than a
\* retry" (postgres.go:318).
CancellationConvertsFailures ==
    [][\A t \in Tasks :
          runStatus = "CANCELLED" /\ status[t] \in Active /\ status'[t] \notin Active
             => status'[t] = "CANCELLED"]_vars

-----------------------------------------------------------------------------
(* Runs nobody reopens                                                     *)

\* A RUNNING run always has a task that can move on: it is never left with
\* only finished and BLOCKED tasks.
RunningRunHasWork ==
    runStatus = "RUNNING" =>
        \E t \in Tasks : status[t] \in (Unstarted \cup Active) \ {"BLOCKED"}

\* Without operator calls a run ends: retries are finite, crashed workers are
\* recovered, and no task is forgotten.
RunTerminates == <>(runStatus # "RUNNING")

\* A cancelled run comes to rest: also the attempts that were active, and the
\* retry a racing FailTask left behind, end up in a terminal status.
CancelledRunSettles ==
    runStatus = "CANCELLED" ~>
        [](\A t \in Tasks : status[t] \in {"SUCCEEDED", "DEAD", "CANCELLED"})
=============================================================================
