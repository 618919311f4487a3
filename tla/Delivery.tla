------------------------------ MODULE Delivery ------------------------------
(***************************************************************************)
(* The way of a dispatch to its execution: the consumer group that reads   *)
(* the partition of one workflow run, and the loops of the Go worker       *)
(* (cmd/worker-go) and of the Python worker (sdk/python), composed with    *)
(* the rows of the run (TaskLifecycle).                                    *)
(*                                                                         *)
(* A slot is one sequential consumer: a Go process has one, a Python       *)
(* process has several that share its worker ID.  Of the messages of the   *)
(* partition only the dispatches matter; workers skip the others.  The     *)
(* outbox is abstracted to what Outbox shows of it: a dispatch reaches the *)
(* partition, possibly more than once.                                     *)
(***************************************************************************)
EXTENDS TaskLifecycle

CONSTANTS
    Slots,
    GoSlots,         \* the slots that run the Go worker, the others Python
    WorkerId,        \* slot -> the worker ID of its process
    Handled,         \* the tasks whose handler the group knows
    NoSlot,
    NoTask,
    MessageLimit,    \* bound: messages in the partition
    Faults           \* of "call", "crash", "duplicate", "rebalance"

ASSUME SlotAssumption ==
    /\ GoSlots \subseteq Slots
    /\ WorkerId \in [Slots -> Workers]
    /\ Handled \subseteq Tasks
    /\ NoSlot \notin Slots
    /\ NoTask \notin Tasks
    /\ MessageLimit \in Nat

VARIABLES
    messages,        \* the dispatches of the partition
    committed,       \* the group's committed offset
    owner,           \* the slot the partition is assigned to
    position,        \* the offset up to which the owner has fetched
    slot             \* slot -> what it is doing

group == <<messages, committed, owner, position>>
deliveryVars == <<vars, group, slot>>

SlotState ==
    [pc : {"idle", "fetched", "starting", "executing", "reporting", "failing",
           "stopped"},
     task : Tasks \cup {NoTask},
     attempt : Nat,        \* the attempt its lease was granted for
     offset : Nat,         \* the message it works on
     beating : BOOLEAN,    \* its heartbeat coroutine is alive
     cancelled : BOOLEAN,  \* a heartbeat told it that the run is cancelled
     raising : BOOLEAN]    \* it leaves the loop when the failure is reported

At(pc) ==
    [pc |-> pc, task |-> NoTask, attempt |-> 0, offset |-> 0, beating |-> TRUE,
     cancelled |-> FALSE, raising |-> FALSE]

DeliveryInit ==
    /\ Init
    /\ messages = << >>
    /\ committed = 0
    /\ owner = NoSlot
    /\ position = 0
    /\ slot = [s \in Slots |-> At("idle")]

CallFails == "call" \in Faults

-----------------------------------------------------------------------------
(* The partition and the group                                             *)

DispatchTask(t) ==
    /\ Len(messages) < MessageLimit
    /\ Dispatch({t})
    /\ messages' = Append(messages, t)
    /\ UNCHANGED <<committed, owner, position, slot>>

\* A publisher that did not see its acknowledgement publishes once more.
Duplicate(t) ==
    /\ "duplicate" \in Faults
    /\ Len(messages) < MessageLimit
    /\ \E i \in 1 .. Len(messages) : messages[i] = t
    /\ messages' = Append(messages, t)
    /\ UNCHANGED <<vars, committed, owner, position, slot>>

\* The partition is assigned to s, which resumes at the committed offset; a
\* previous owner goes on with the message it has.
Rebalance(s) ==
    /\ owner = NoSlot \/ "rebalance" \in Faults
    /\ owner # s
    /\ slot[s].pc # "stopped"
    /\ owner' = s
    /\ position' = committed
    /\ UNCHANGED <<vars, messages, committed, slot>>

\* The offset a commit by s leaves.  The Go client commits the offset of its
\* message, which the broker may accept from a slot that has lost the
\* partition, and goes on when that fails; the Python client commits the
\* positions of what it is assigned.
Commits(s) ==
    IF s \in GoSlots
    THEN {slot[s].offset} \cup (IF owner = s /\ ~CallFails THEN {} ELSE {committed})
    ELSE {IF owner = s THEN position ELSE committed}

-----------------------------------------------------------------------------
(* How a slot leaves a message                                             *)

\* An exception leaves the loop: the consumer is stopped, nothing is committed
\* and nobody restarts it.
Stopped(s) ==
    /\ slot' = [slot EXCEPT ![s] = At("stopped")]
    /\ owner' = IF owner = s THEN NoSlot ELSE owner
    /\ position' = IF owner = s THEN 0 ELSE position
    /\ UNCHANGED <<messages, committed>>

\* The offset is committed and the loop goes on; in Python a commit that fails
\* is one more exception.
Finished(s) ==
    \/ /\ committed' \in Commits(s)
       /\ slot' = [slot EXCEPT ![s] = At("idle")]
       /\ UNCHANGED <<messages, owner, position>>
    \/ CallFails /\ s \notin GoSlots /\ Stopped(s)

\* Mutant: the Python loop also commits whatever went wrong.
FailsCommitted(s) == Finished(s)

\* A call failed.  The Go loop logs the error and commits; the Python loop does
\* not catch it.
Fails(s) == IF s \in GoSlots THEN Finished(s) ELSE Stopped(s)

\* Execution and its report are over.  Python awaits the heartbeat coroutine,
\* whose failure then surfaces, and re-raises a cancellation.
Done(s) ==
    IF s \in GoSlots \/ (slot[s].beating /\ ~slot[s].raising)
    THEN Finished(s) ELSE Stopped(s)

-----------------------------------------------------------------------------
(* The loop of a slot                                                      *)

\* Mutant: offsets are committed as messages are fetched.
PollAutoCommit(s) ==
    /\ owner = s
    /\ slot[s].pc = "idle"
    /\ position < Len(messages)
    /\ position' = position + 1
    /\ committed' = position + 1
    /\ slot' = [slot EXCEPT
                   ![s] = [At("fetched") EXCEPT !.task = messages[position + 1],
                                                !.offset = position + 1]]
    /\ UNCHANGED <<vars, messages, owner>>

Poll(s) ==
    /\ owner = s
    /\ slot[s].pc = "idle"
    /\ position < Len(messages)
    /\ position' = position + 1
    /\ slot' = [slot EXCEPT
                   ![s] = [At("fetched") EXCEPT !.task = messages[position + 1],
                                                !.offset = position + 1]]
    /\ UNCHANGED <<vars, messages, committed, owner>>

\* A dispatch for another group's handlers is committed at once.
Skip(s) ==
    /\ slot[s].pc = "fetched"
    /\ slot[s].task \notin Handled
    /\ Finished(s)
    /\ UNCHANGED vars

\* The slot's call finds that it does not hold its task in one of the states.
Refused(s, states) ==
    /\ slot[s].task \notin Locked
    /\ ~(status[slot[s].task] \in states /\ HoldsLease(slot[s].task, WorkerId[s]))

\* The run is not RUNNING, or the lease is lost.
Inactive(s, states) ==
    Refused(s, states) \/ (slot[s].task \notin Locked /\ runStatus # "RUNNING")

Lease(s) ==
    LET t == slot[s].task
    IN  /\ slot[s].pc = "fetched"
        /\ t \in Handled
        /\ \/ /\ LeaseTask(t, WorkerId[s])
              /\ slot' = [slot EXCEPT ![s].pc = "starting",
                                      ![s].attempt = attemptCount[t] + 1]
              /\ UNCHANGED group
           \/ status[t] # "DISPATCHING" /\ Finished(s) /\ UNCHANGED vars
           \/ CallFails /\ LeaseTask(t, WorkerId[s]) /\ Fails(s)
           \/ CallFails /\ Fails(s) /\ UNCHANGED vars

Start(s) ==
    LET t == slot[s].task
    IN  /\ slot[s].pc = "starting"
        /\ \/ /\ StartTask(t, WorkerId[s])
              /\ slot' = [slot EXCEPT ![s].pc = "executing"]
              /\ UNCHANGED group
           \/ Inactive(s, {"LEASED"}) /\ Fails(s) /\ UNCHANGED vars
           \/ CallFails /\ StartTask(t, WorkerId[s]) /\ Fails(s)
           \/ CallFails /\ Fails(s) /\ UNCHANGED vars

\* A failed heartbeat ends Python's heartbeat coroutine and is ignored by Go.
Beat(s) ==
    /\ slot[s].pc = "executing"
    /\ slot[s].beating
    /\ UNCHANGED group
    /\ \/ /\ HeartbeatTask(slot[s].task, WorkerId[s])
          /\ slot' = [slot EXCEPT ![s].cancelled = @ \/ runStatus = "CANCELLED"]
       \/ /\ CallFails \/ Refused(s, Active)
          /\ s \notin GoSlots
          /\ slot' = [slot EXCEPT ![s].beating = FALSE]
          /\ UNCHANGED vars

\* The slot turns to reporting a failure.
Reports(s, raising) ==
    /\ slot' = [slot EXCEPT ![s].pc = "reporting", ![s].raising = raising]
    /\ UNCHANGED group

\* The handler returned and its completion is sent, perhaps just before a
\* heartbeat brings the cancellation.  A refused or failed call ends the attempt
\* in Go and is reported as a failure in Python.
Complete(s) ==
    LET NotCompleted == IF s \in GoSlots THEN Finished(s) ELSE Reports(s, FALSE)
    IN  /\ slot[s].pc = "executing"
        /\ \/ CompleteTask(slot[s].task, WorkerId[s]) /\ Done(s)
           \/ Inactive(s, {"RUNNING"}) /\ NotCompleted /\ UNCHANGED vars
           \/ CallFails /\ CompleteTask(slot[s].task, WorkerId[s]) /\ NotCompleted
           \/ CallFails /\ NotCompleted /\ UNCHANGED vars

\* The handler failed or timed out.  In Python it may also be cancelled, with
\* its run or because the process shuts down.
HandlerFails(s) ==
    /\ slot[s].pc = "executing"
    /\ \/ Reports(s, FALSE)
       \/ /\ s \notin GoSlots
          /\ slot[s].cancelled \/ "crash" \in Faults
          /\ Reports(s, TRUE)
    /\ UNCHANGED vars

\* A Go attempt whose context is done ends without a report.
GiveUp(s) ==
    /\ s \in GoSlots
    /\ slot[s].pc = "executing"
    /\ Finished(s)
    /\ UNCHANGED vars

Report(s) ==
    LET Sends == \E retryable \in BOOLEAN :
                    FailTaskRead(slot[s].task, WorkerId[s], retryable)
    IN  /\ slot[s].pc = "reporting"
        /\ \/ Sends /\ slot' = [slot EXCEPT ![s].pc = "failing"] /\ UNCHANGED group
           \/ Refused(s, Active) /\ Done(s) /\ UNCHANGED vars
           \/ CallFails /\ Sends /\ Fails(s)
           \/ CallFails /\ Fails(s) /\ UNCHANGED vars

\* The answer to the report.
ReportAnswered(s) ==
    /\ slot[s].pc = "failing"
    /\ \E x \in open :
          /\ x.op = "fail" /\ x.tasks = {slot[s].task}
          /\ \/ FailTaskWrite(x) /\ Done(s)
             \/ CallFails /\ FailTaskWrite(x) /\ Fails(s)
             \/ Rollback(x) /\ Fails(s)

\* A process dies and is started again, with all of its slots.
Restart(w) ==
    LET mine == {s \in Slots : WorkerId[s] = w}
    IN  /\ "crash" \in Faults
        /\ \E s \in mine : slot[s].pc # "idle"
        /\ slot' = [s \in Slots |-> IF s \in mine THEN At("idle") ELSE slot[s]]
        /\ owner' = IF owner \in mine THEN NoSlot ELSE owner
        /\ position' = IF owner \in mine THEN 0 ELSE position
        /\ UNCHANGED <<vars, messages, committed>>

-----------------------------------------------------------------------------
\* No slot waits for the answer of transaction x.
Unattended(x) ==
    ~\E s \in Slots : slot[s].pc = "failing" /\ x.op = "fail" /\ x.tasks = {slot[s].task}

UnattendedCommits ==
    \E x \in open : Unattended(x) /\ (FailTaskWrite(x) \/ RecoverWrite(x))

\* The scheduler, the operator, and the transactions nobody waits for.
Database ==
    /\ \/ PromoteRetries
       \/ \E batch \in SUBSET Tasks : RecoverRead(batch)
       \/ UnattendedCommits
       \/ \E x \in open : Unattended(x) /\ Rollback(x)
       \/ CancelRun
       \/ RetryRun
       \/ \E t \in Tasks : ReplayDead(t) \/ LeaseAges(t) \/ RetryDelayElapses(t)
    /\ UNCHANGED <<group, slot>>

DeliveryNext ==
    \/ Database
    \/ \E t \in Tasks : DispatchTask(t) \/ Duplicate(t)
    \/ \E w \in Workers : Restart(w)
    \/ \E s \in Slots :
          \/ Rebalance(s) \/ Poll(s) \/ Skip(s) \/ Lease(s) \/ Start(s)
          \/ Beat(s) \/ Complete(s) \/ HandlerFails(s) \/ GiveUp(s) \/ Report(s)
          \/ ReportAnswered(s)

DeliverySpec == DeliveryInit /\ [][DeliveryNext]_deliveryVars

(***************************************************************************)
(* Fairness.  The scheduler ticks for ever and its transactions commit,    *)
(* time passes, the group assigns its partition, a worker that keeps being *)
(* started gets on with its message, and attempts end.  That a dispatch is *)
(* leased is not assumed: it has to follow.                                *)
(***************************************************************************)
Quiet(A) == A /\ UNCHANGED <<group, slot>>

Works(s) ==
    \/ Start(s) \/ Complete(s) \/ HandlerFails(s) \/ GiveUp(s)
    \/ Report(s) \/ ReportAnswered(s)

DeliveryFairness ==
    /\ WF_deliveryVars(Quiet(PromoteRetries))
    /\ \A t \in Tasks :
          /\ WF_deliveryVars(DispatchTask(t))
          /\ WF_deliveryVars(Quiet(LeaseAges(t)))
          /\ WF_deliveryVars(Quiet(RetryDelayElapses(t)))
          /\ WF_deliveryVars(Quiet(RecoverRead({t})))
    /\ SF_deliveryVars(Quiet(UnattendedCommits))
    /\ WF_deliveryVars(\E s \in Slots : Rebalance(s))
    /\ \A s \in Slots :
          /\ SF_deliveryVars(Poll(s))
          /\ SF_deliveryVars(Skip(s) \/ Lease(s))
          /\ SF_deliveryVars(Works(s))

FairDelivery == DeliverySpec /\ DeliveryFairness

-----------------------------------------------------------------------------
\* "Commit consumer offsets only after a lease conflict or completed
\* processing path" (adr/0003:11): a task of the group that waits for a lease
\* has a dispatch that is not committed, so some consumer will still read it.
DispatchPending ==
    \A t \in Handled : status[t] = "DISPATCHING" =>
        \E i \in committed + 1 .. Len(messages) : messages[i] = t

\* "A stale worker cannot complete a task after its lease has been reassigned"
\* (delivery-semantics.md:11): the slot whose call completes a task is the one
\* that was granted the task's current attempt.
CompletedByItsAttempt ==
    [][\A t \in Tasks :
          status[t] # "SUCCEEDED" /\ status'[t] = "SUCCEEDED" =>
             \E s \in Slots : /\ slot[s].pc = "executing" /\ slot'[s] # slot[s]
                              /\ slot[s].task = t /\ slot[s].attempt = attemptCount[t]
      ]_deliveryVars

\* A dispatched task of the group does not stay DISPATCHING, which nothing but a
\* lease or a cancellation ends: the fairness TaskLifecycle assumes of LeaseTask.
DispatchIsLeased ==
    \A t \in Handled : status[t] = "DISPATCHING" ~> status[t] # "DISPATCHING"

\* "If a worker runs user code and dies before completion is recorded, its
\* lease expires and the task is delivered again" (delivery-semantics.md:9): a
\* task whose last attempt was started and which waits for its retry is leased
\* once more, or given up by somebody.
DeliveredAgain ==
    \A t \in Tasks :
        (status[t] = "RETRY_WAIT" /\ attempts[t][Len(attempts[t])].executing)
            ~> status[t] \in Active \cup {"DEAD", "CANCELLED"}
=============================================================================
