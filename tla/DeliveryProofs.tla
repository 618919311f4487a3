--------------------------- MODULE DeliveryProofs ---------------------------
(***************************************************************************)
(* Proofs about the way of a dispatch to its execution, for any workers,   *)
(* slots, DAG, crashes, duplicates and rebalances: the composition         *)
(* implements TaskLifecycle, no dispatch is committed before it was dealt  *)
(* with, and an attempt is completed by the slot it was granted to.        *)
(***************************************************************************)
EXTENDS Delivery, TaskLifecycleProofs

\* A step that names no prover is tried by Zenon first, then by the SMT solver.
USE ZenonT(4), SMTT(60)

Busy == {"starting", "executing", "reporting", "failing"}

\* The group, and what its slots are doing, have their types.
GroupOK ==
    /\ messages \in Seq(Tasks)
    /\ committed \in 0 .. Len(messages)
    /\ owner \in Slots \cup {NoSlot}
    /\ position \in 0 .. Len(messages)
    /\ slot \in [Slots -> SlotState]
    /\ \A s \in Slots :
          /\ slot[s].pc = "fetched" => slot[s].offset \in 1 .. Len(messages) /\ slot[s].task = messages[slot[s].offset]
          /\ slot[s].pc \in Busy => slot[s].offset \in 1 .. Len(messages) /\ slot[s].task \in Tasks

\* Up to offset k the group has dealt with every dispatch: a task that waits for a lease has
\* another one.
DealtWith(k) ==
    \A t \in Handled : status[t] = "DISPATCHING" => \E i \in k + 1 .. Len(messages) : messages[i] = t

\* What slot s would commit has been dealt with, but for the message it has just fetched.
SlotPending(s) ==
    /\ slot[s].pc = "fetched" => DealtWith(slot[s].offset - 1)
    /\ slot[s].pc \in Busy => DealtWith(slot[s].offset)
    /\ owner = s => \/ DealtWith(position)
                    \/ slot[s].pc = "fetched" /\ slot[s].offset = position

PendingInv == DealtWith(committed) /\ \A s \in Slots : SlotPending(s)

\* The attempt slot s works on was granted to its worker, and no later one was.
SlotAttempt(s) ==
    slot[s].pc \in Busy =>
        LET t == slot[s].task
        IN  /\ slot[s].attempt \in 1 .. attemptCount[t]
            /\ \A i \in slot[s].attempt + 1 .. attemptCount[t] : attempts[t][i].worker # WorkerId[s]

AttemptInv == \A s \in Slots : SlotAttempt(s)

-----------------------------------------------------------------------------
(* What a step of a slot does to it                                        *)

\* The slot has done with its message: it failed, or it had not just fetched the dispatch of a
\* task that still waits for a lease, or it is a Go slot that commits although its call failed.
Leaves(s) ==
    /\ slot[s].pc \in Busy \cup {"fetched"}
    /\ \/ Stopped(s)
       \/ /\ Finished(s)
          /\ slot[s].pc = "fetched" =>
                \/ slot[s].task \notin Handled \/ status[slot[s].task] # "DISPATCHING"
                \/ CallFails /\ s \in GoSlots

\* The slot goes on with its message.
Goes(s) ==
    /\ UNCHANGED group
    /\ slot' \in [Slots -> SlotState]
    /\ \A d \in Slots \ {s} : slot'[d] = slot[d]
    /\ slot[s].pc \in Busy \cup {"fetched"} /\ slot'[s].pc \in Busy
    /\ slot'[s].task = slot[s].task /\ slot'[s].offset = slot[s].offset
    /\ slot[s].pc \in Busy => slot'[s].attempt = slot[s].attempt
    /\ slot[s].pc = "fetched" =>
          LeaseTask(slot[s].task, WorkerId[s]) /\ slot'[s].attempt = attemptCount[slot[s].task] + 1

LEMMA AtType ==
    ASSUME NEW pc \in {"idle", "fetched", "stopped"}
    PROVE  At(pc) \in SlotState /\ At(pc).pc = pc
BY DEF At, SlotState

\* A slot that moves on inside its message.
LEMMA GoesOn ==
    ASSUME GroupOK, UNCHANGED group, NEW s \in Slots, slot[s].pc \in Busy,
           NEW r \in SlotState, slot' = [slot EXCEPT ![s] = r],
           r.pc \in Busy, r.task = slot[s].task, r.offset = slot[s].offset, r.attempt = slot[s].attempt
    PROVE  Goes(s)
<1>1. slot \in [Slots -> SlotState] /\ slot[s].pc # "fetched"
  BY DEF GroupOK, Busy
<1> QED
  BY <1>1 DEF Goes

LEMMA FailsLeaves ==
    ASSUME GroupOK, NEW s \in Slots, Fails(s), slot[s].pc \in Busy
    PROVE  Leaves(s)
BY DEF Fails, Leaves, Busy

LEMMA DoneLeaves ==
    ASSUME GroupOK, NEW s \in Slots, Done(s), slot[s].pc \in Busy
    PROVE  Leaves(s)
BY DEF Done, Leaves, Busy

LEMMA ReportsGoes ==
    ASSUME GroupOK, NEW s \in Slots, NEW raising \in BOOLEAN, Reports(s, raising), slot[s].pc = "executing"
    PROVE  Goes(s)
<1> DEFINE a == [slot[s] EXCEPT !.pc = "reporting"]
           r == [a EXCEPT !.raising = raising]
<1>1. slot \in [Slots -> SlotState] /\ slot[s] \in SlotState
  BY DEF GroupOK
<1>2. a \in SlotState /\ a.pc = "reporting" /\ a.task = slot[s].task /\ a.offset = slot[s].offset
      /\ a.attempt = slot[s].attempt
  BY <1>1 DEF SlotState
<1>3. r \in SlotState /\ r.pc = "reporting" /\ r.task = slot[s].task /\ r.offset = slot[s].offset
      /\ r.attempt = slot[s].attempt
  BY <1>2, Zenon DEF SlotState
<1>4. slot' = [slot EXCEPT ![s] = r] /\ UNCHANGED group
  BY <1>1, Zenon DEF Reports
<1> HIDE DEF r
<1> QED
  BY <1>3, <1>4, GoesOn, Zenon DEF Busy

LEMMA LeaseMoves ==
    ASSUME TypeOK, GroupOK, NEW s \in Slots, Lease(s)
    PROVE  Leaves(s) \/ Goes(s)
<1> DEFINE t == slot[s].task
<1>1. slot \in [Slots -> SlotState] /\ slot[s] \in SlotState /\ slot[s].pc = "fetched" /\ t \in Handled
  BY DEF GroupOK, Lease
<1>2. CASE /\ LeaseTask(t, WorkerId[s])
           /\ slot' = [slot EXCEPT ![s].pc = "starting", ![s].attempt = attemptCount[t] + 1]
           /\ UNCHANGED group
  <2>1. PICK n \in Nat : n = attemptCount[t] + 1
    BY <1>1, SlotAssumption DEF TypeOK
  <2> DEFINE a == [slot[s] EXCEPT !.pc = "starting"]
             r == [a EXCEPT !.attempt = n]
  <2>2. a \in SlotState /\ a.pc = "starting" /\ a.task = t /\ a.offset = slot[s].offset
    BY <1>1 DEF SlotState
  <2>3. r \in SlotState /\ r.pc = "starting" /\ r.task = t /\ r.offset = slot[s].offset /\ r.attempt = n
    BY <2>2, Zenon DEF SlotState
  <2>4. slot' = [slot EXCEPT ![s] = r]
    BY <1>1, <1>2, <2>1, Zenon
  <2> HIDE DEF r
  <2>5. slot' \in [Slots -> SlotState] /\ slot'[s] = r /\ \A d \in Slots \ {s} : slot'[d] = slot[d]
    BY <1>1, <2>3, <2>4
  <2> QED
    BY <1>1, <1>2, <2>1, <2>3, <2>5 DEF Goes, Busy
<1>3. CASE status[t] # "DISPATCHING" /\ Finished(s)
  BY <1>1, <1>3 DEF Leaves
<1>4. CASE CallFails /\ Fails(s)
  BY <1>1, <1>4 DEF Leaves, Fails
<1> QED
  BY <1>2, <1>3, <1>4 DEF Lease

\* Every step of a slot's loop but Poll.
LEMMA SlotMoves ==
    ASSUME TypeOK, GroupOK, NEW s \in Slots,
           \/ Skip(s) \/ Lease(s) \/ Start(s) \/ Beat(s) \/ Complete(s) \/ HandlerFails(s) \/ GiveUp(s)
           \/ Report(s) \/ ReportAnswered(s)
    PROVE  Leaves(s) \/ Goes(s)
<1>1. slot \in [Slots -> SlotState] /\ slot[s] \in SlotState
  BY DEF GroupOK
<1>2. ASSUME NEW pc \in {"executing", "failing"}, slot[s].pc \in Busy, slot' = [slot EXCEPT ![s].pc = pc],
             UNCHANGED group
      PROVE  Goes(s)
  <2>1. PICK r : r = [slot[s] EXCEPT !.pc = pc]
    BY Zenon
  <2>2. r \in SlotState /\ r.pc = pc /\ r.task = slot[s].task /\ r.offset = slot[s].offset
        /\ r.attempt = slot[s].attempt
    BY <1>1, <2>1 DEF SlotState
  <2>3. slot' = [slot EXCEPT ![s] = r]
    BY <1>2, <2>1
  <2> QED
    BY <1>2, <2>2, <2>3, GoesOn, Zenon DEF Busy
<1>3. CASE Skip(s)
  BY <1>3 DEF Skip, Leaves
<1>4. CASE Lease(s)
  BY <1>4, LeaseMoves
<1>5. CASE Start(s)
  BY <1>2, <1>5, FailsLeaves DEF Start, Busy
<1>6. CASE Beat(s)
  <2>1. slot[s].pc = "executing" /\ UNCHANGED group
    BY <1>6 DEF Beat
  <2>2. CASE slot' = [slot EXCEPT ![s].cancelled = @ \/ runStatus = "CANCELLED"]
    <3>1. PICK told \in BOOLEAN : slot' = [slot EXCEPT ![s].cancelled = told]
      BY <1>1, <2>2, Zenon DEF SlotState
    <3>2. PICK r : r = [slot[s] EXCEPT !.cancelled = told]
      BY Zenon
    <3>3. r \in SlotState /\ r.pc = "executing" /\ r.task = slot[s].task /\ r.offset = slot[s].offset
          /\ r.attempt = slot[s].attempt
      BY <1>1, <2>1, <3>2 DEF SlotState
    <3>4. slot' = [slot EXCEPT ![s] = r]
      BY <3>1, <3>2
    <3> QED
      BY <2>1, <3>3, <3>4, GoesOn, Zenon DEF Busy
  <2>3. CASE slot' = [slot EXCEPT ![s].beating = FALSE]
    <3>1. PICK r : r = [slot[s] EXCEPT !.beating = FALSE]
      BY Zenon
    <3>2. r \in SlotState /\ r.pc = "executing" /\ r.task = slot[s].task /\ r.offset = slot[s].offset
          /\ r.attempt = slot[s].attempt
      BY <1>1, <2>1, <3>1, Zenon DEF SlotState
    <3>3. slot' = [slot EXCEPT ![s] = r]
      BY <2>3, <3>1
    <3> QED
      BY <2>1, <3>2, <3>3, GoesOn, Zenon DEF Busy
  <2> QED
    BY <1>6, <2>2, <2>3 DEF Beat
<1>7. CASE Complete(s)
  <2>1. slot[s].pc = "executing" /\ (Done(s) \/ Finished(s) \/ Reports(s, FALSE))
    BY <1>7, Zenon DEF Complete
  <2> QED
    BY <2>1, DoneLeaves, ReportsGoes, Zenon DEF Leaves, Busy
<1>8. CASE HandlerFails(s)
  BY <1>8, ReportsGoes, Zenon DEF HandlerFails
<1>9. CASE GiveUp(s)
  BY <1>9 DEF GiveUp, Leaves, Busy
<1>10. CASE Report(s)
  BY <1>2, <1>10, DoneLeaves, FailsLeaves DEF Report, Busy
<1>11. CASE ReportAnswered(s)
  BY <1>11, DoneLeaves, FailsLeaves DEF ReportAnswered, Busy
<1> QED
  BY <1>3, <1>4, <1>5, <1>6, <1>7, <1>8, <1>9, <1>10, <1>11

-----------------------------------------------------------------------------
(* The group                                                               *)

\* What a slot that has done with its message leaves behind.
LEMMA LeavesEffect ==
    ASSUME GroupOK, NEW s \in Slots, Leaves(s)
    PROVE  /\ messages' = messages
           /\ slot' \in [Slots -> SlotState] /\ slot'[s].pc \in {"idle", "stopped"}
           /\ \A d \in Slots \ {s} : slot'[d] = slot[d]
           /\ \/ owner' = owner /\ position' = position
              \/ owner = s /\ owner' = NoSlot /\ position' = 0
           /\ committed' \in {committed, slot[s].offset} \/ (owner = s /\ committed' = position)
<1>1. slot \in [Slots -> SlotState]
  BY DEF GroupOK
<1>2. CASE Stopped(s)
  <2>1. slot' \in [Slots -> SlotState] /\ slot'[s].pc = "stopped" /\ \A d \in Slots \ {s} : slot'[d] = slot[d]
    BY <1>1, <1>2, AtType DEF Stopped
  <2> QED
    BY <1>2, <2>1 DEF Stopped
<1>3. CASE committed' \in Commits(s) /\ slot' = [slot EXCEPT ![s] = At("idle")] /\ UNCHANGED <<messages, owner, position>>
  <2>1. slot' \in [Slots -> SlotState] /\ slot'[s].pc = "idle" /\ \A d \in Slots \ {s} : slot'[d] = slot[d]
    BY <1>1, <1>3, AtType
  <2> QED
    BY <1>3, <2>1 DEF Commits
<1> QED
  BY <1>2, <1>3 DEF Leaves, Finished

LEMMA PollEffect ==
    ASSUME GroupOK, NEW s \in Slots, Poll(s)
    PROVE  /\ owner = s /\ slot[s].pc = "idle" /\ UNCHANGED <<vars, messages, committed, owner>>
           /\ position' = position + 1 /\ position' \in 1 .. Len(messages)
           /\ slot' \in [Slots -> SlotState] /\ \A d \in Slots \ {s} : slot'[d] = slot[d]
           /\ slot'[s].pc = "fetched" /\ slot'[s].offset = position' /\ slot'[s].task = messages[position']
<1>1. /\ slot \in [Slots -> SlotState] /\ messages \in Seq(Tasks) /\ Len(messages) \in Nat
      /\ position \in 0 .. Len(messages)
  BY DEF GroupOK
<1>2. PICK n \in 1 .. Len(messages) : n = position + 1
  BY <1>1 DEF Poll
<1>3. messages[n] \in Tasks /\ n \in Nat
  BY <1>1, <1>2
<1> DEFINE a == [At("fetched") EXCEPT !.task = messages[n]]
           r == [a EXCEPT !.offset = n]
<1>4. a \in SlotState /\ a.pc = "fetched" /\ a.task = messages[n]
  BY <1>3, AtType DEF SlotState
<1>5. r \in SlotState /\ r.pc = "fetched" /\ r.task = messages[n] /\ r.offset = n
  BY <1>3, <1>4, Zenon DEF SlotState
<1>6. slot' = [slot EXCEPT ![s] = r] /\ position' = n
  BY <1>2 DEF Poll
<1> HIDE DEF r
<1>7. slot' \in [Slots -> SlotState] /\ slot'[s] = r /\ \A d \in Slots \ {s} : slot'[d] = slot[d]
  BY <1>1, <1>5, <1>6
<1>8. owner = s /\ slot[s].pc = "idle" /\ UNCHANGED <<vars, messages, committed, owner>>
  BY DEF Poll
<1> QED
  BY <1>2, <1>5, <1>6, <1>7, <1>8

\* A dispatch is published, once more or for the first time.
LEMMA Publishes ==
    ASSUME GroupOK, NEW t \in Tasks, messages' = Append(messages, t)
    PROVE  /\ messages' \in Seq(Tasks) /\ Len(messages') = Len(messages) + 1 /\ Len(messages) \in Nat
           /\ messages'[Len(messages) + 1] = t /\ \A i \in 1 .. Len(messages) : messages'[i] = messages[i]
BY DEF GroupOK

\* The restarted slots are idle, the others are where they were.
LEMMA RestartEffect ==
    ASSUME GroupOK, NEW w \in Workers, Restart(w)
    PROVE  /\ UNCHANGED <<vars, messages, committed>>
           /\ slot' \in [Slots -> SlotState] /\ \A s \in Slots : slot'[s] = slot[s] \/ slot'[s].pc = "idle"
           /\ \/ owner' = owner /\ position' = position /\ (owner \in Slots => slot'[owner] = slot[owner])
              \/ owner' = NoSlot /\ position' = 0
<1> DEFINE mine == {s \in Slots : WorkerId[s] = w}
<1>1. slot \in [Slots -> SlotState] /\ At("idle") \in SlotState /\ At("idle").pc = "idle"
  BY AtType DEF GroupOK
<1>2. slot' = [s \in Slots |-> IF s \in mine THEN At("idle") ELSE slot[s]]
  BY DEF Restart
<1>3. slot' \in [Slots -> SlotState] /\ \A s \in Slots : slot'[s] = slot[s] \/ slot'[s].pc = "idle"
  BY <1>1, <1>2
<1>4. \/ owner' = owner /\ position' = position /\ owner \notin mine
      \/ owner' = NoSlot /\ position' = 0
  BY DEF Restart
<1>5. owner \in Slots /\ owner \notin mine => slot'[owner] = slot[owner]
  BY <1>2
<1> QED
  BY <1>3, <1>4, <1>5 DEF Restart

LEMMA GroupStep ==
    ASSUME TypeOK, GroupOK, [DeliveryNext]_deliveryVars
    PROVE  GroupOK'
<1>0. /\ slot \in [Slots -> SlotState] /\ messages \in Seq(Tasks) /\ Len(messages) \in Nat
      /\ committed \in 0 .. Len(messages) /\ position \in 0 .. Len(messages)
  BY DEF GroupOK
<1>1. ASSUME UNCHANGED <<group, slot>> PROVE GroupOK'
  BY <1>1 DEF GroupOK, group
<1>2. ASSUME NEW t \in Tasks, messages' = Append(messages, t), UNCHANGED <<committed, owner, position, slot>>
      PROVE  GroupOK'
  BY <1>2, Publishes DEF GroupOK
<1>3. ASSUME NEW w \in Workers, Restart(w) PROVE GroupOK'
  BY <1>0, <1>3, RestartEffect DEF GroupOK, Busy
<1>4. ASSUME NEW s \in Slots, Rebalance(s) PROVE GroupOK'
  BY <1>4 DEF GroupOK, Rebalance
<1>5. ASSUME NEW s \in Slots, Poll(s) PROVE GroupOK'
  <2>1. \A d \in Slots : slot'[d] = slot[d] \/ d = s
    BY <1>5, PollEffect
  <2> QED
    BY <1>0, <1>5, <2>1, PollEffect DEF GroupOK, Busy
<1>6. ASSUME NEW s \in Slots, Leaves(s) PROVE GroupOK'
  <2>1. slot[s].offset \in 0 .. Len(messages)
    BY <1>0, <1>6 DEF GroupOK, Leaves
  <2>2. messages' = messages /\ committed' \in 0 .. Len(messages) /\ position' \in 0 .. Len(messages)
    BY <1>0, <1>6, <2>1, LeavesEffect
  <2>3. owner' \in Slots \cup {NoSlot} /\ slot' \in [Slots -> SlotState]
    BY <1>6, LeavesEffect DEF GroupOK
  <2>4. \A d \in Slots : slot'[d] = slot[d] \/ slot'[d].pc \in {"idle", "stopped"}
    BY <1>6, LeavesEffect
  <2> QED
    BY <1>0, <2>2, <2>3, <2>4 DEF GroupOK, Busy
<1>7. ASSUME NEW s \in Slots, Goes(s) PROVE GroupOK'
  <2>1. slot[s].offset \in 1 .. Len(messages) /\ slot[s].task \in Tasks
    BY <1>0, <1>7 DEF GroupOK, Goes
  <2>2. UNCHANGED group /\ slot' \in [Slots -> SlotState]
    BY <1>7 DEF Goes
  <2>3. ASSUME NEW d \in Slots
        PROVE  /\ slot'[d].pc = "fetched" => slot'[d].offset \in 1 .. Len(messages) /\ slot'[d].task = messages[slot'[d].offset]
               /\ slot'[d].pc \in Busy => slot'[d].offset \in 1 .. Len(messages) /\ slot'[d].task \in Tasks
    <3>1. CASE d = s
      BY <1>7, <2>1, <3>1 DEF Goes, Busy
    <3>2. CASE d # s
      BY <1>7, <3>2 DEF Goes, GroupOK
    <3> QED
      BY <3>1, <3>2
  <2> QED
    BY <2>2, <2>3 DEF GroupOK, group
<1>8. CASE Database \/ UNCHANGED deliveryVars
  BY <1>1, <1>8 DEF Database, deliveryVars, group
<1>9. ASSUME NEW t \in Tasks, DispatchTask(t) \/ Duplicate(t) PROVE GroupOK'
  BY <1>2, <1>9 DEF DispatchTask, Duplicate
<1> QED
  BY <1>3, <1>4, <1>5, <1>6, <1>7, <1>8, <1>9, SlotMoves DEF DeliveryNext

-----------------------------------------------------------------------------
(* The composition implements TaskLifecycle                                *)

\* What the steps but a dispatch, a lease and a completion do to the rows of the run.
Operation ==
    \/ PromoteRetries
    \/ \E batch \in SUBSET Tasks : RecoverRead(batch)
    \/ \E t \in Tasks, w \in Workers :
          \/ StartTask(t, w) \/ HeartbeatTask(t, w)
          \/ \E retryable \in BOOLEAN : FailTaskRead(t, w, retryable)
    \/ \E x \in open : FailTaskWrite(x) \/ RecoverWrite(x) \/ Rollback(x)
    \/ CancelRun
    \/ RetryRun
    \/ \E t \in Tasks : ReplayDead(t) \/ LeaseAges(t) \/ RetryDelayElapses(t)

\* Every step does to the rows of the run what one operation of the control plane or of the
\* scheduler does, or nothing.
LEMMA RowsKinds ==
    ASSUME GroupOK, [DeliveryNext]_deliveryVars
    PROVE  \/ \E t \in Tasks : DispatchTask(t)
           \/ \E s \in Slots : Lease(s) /\ LeaseTask(slot[s].task, WorkerId[s])
           \/ \E s \in Slots : Complete(s) /\ CompleteTask(slot[s].task, WorkerId[s])
           \/ Operation
           \/ UNCHANGED vars
<1>1. ASSUME NEW s \in Slots, slot[s].pc \in Busy
      PROVE  slot[s].task \in Tasks /\ WorkerId[s] \in Workers
  BY <1>1, SlotAssumption DEF GroupOK
<1>2. CASE Database
  BY <1>2 DEF Database, UnattendedCommits, Operation
<1>3. ASSUME NEW t \in Tasks, Duplicate(t) PROVE UNCHANGED vars
  BY <1>3 DEF Duplicate
<1>4. ASSUME NEW w \in Workers, Restart(w) PROVE UNCHANGED vars
  BY <1>4 DEF Restart
<1>5. ASSUME NEW s \in Slots, Rebalance(s) \/ Poll(s) \/ Skip(s) \/ HandlerFails(s) \/ GiveUp(s)
      PROVE  UNCHANGED vars
  BY <1>5, Zenon DEF Rebalance, Poll, Skip, HandlerFails, GiveUp
<1>6. ASSUME NEW s \in Slots, Lease(s) PROVE LeaseTask(slot[s].task, WorkerId[s]) \/ UNCHANGED vars
  BY <1>6 DEF Lease
<1>7. ASSUME NEW s \in Slots, Complete(s) PROVE CompleteTask(slot[s].task, WorkerId[s]) \/ UNCHANGED vars
  BY <1>7, Zenon DEF Complete
<1>8. ASSUME NEW s \in Slots, Start(s) PROVE Operation \/ UNCHANGED vars
  <2>1. StartTask(slot[s].task, WorkerId[s]) \/ UNCHANGED vars
    BY <1>8 DEF Start
  <2>2. slot[s].task \in Tasks /\ WorkerId[s] \in Workers
    BY <1>1, <1>8 DEF Start, Busy
  <2> QED
    BY <2>1, <2>2 DEF Operation
<1>9. ASSUME NEW s \in Slots, Beat(s) PROVE Operation \/ UNCHANGED vars
  <2>1. HeartbeatTask(slot[s].task, WorkerId[s]) \/ UNCHANGED vars
    BY <1>9 DEF Beat
  <2>2. slot[s].task \in Tasks /\ WorkerId[s] \in Workers
    BY <1>1, <1>9 DEF Beat, Busy
  <2> QED
    BY <2>1, <2>2 DEF Operation
<1>10. ASSUME NEW s \in Slots, Report(s) PROVE Operation \/ UNCHANGED vars
  <2>1. (\E retryable \in BOOLEAN : FailTaskRead(slot[s].task, WorkerId[s], retryable)) \/ UNCHANGED vars
    BY <1>10 DEF Report
  <2>2. slot[s].task \in Tasks /\ WorkerId[s] \in Workers
    BY <1>1, <1>10 DEF Report, Busy
  <2> QED
    BY <2>1, <2>2 DEF Operation
<1>11. ASSUME NEW s \in Slots, ReportAnswered(s) PROVE Operation
  BY <1>11 DEF ReportAnswered, Operation
<1>12. CASE UNCHANGED deliveryVars
  BY <1>12 DEF deliveryVars
<1> QED
  BY <1>2, <1>3, <1>4, <1>5, <1>6, <1>7, <1>8, <1>9, <1>10, <1>11, <1>12 DEF DeliveryNext

LEMMA RowsStep ==
    ASSUME GroupOK, [DeliveryNext]_deliveryVars
    PROVE  [Next]_vars
<1>1. ASSUME NEW s \in Slots, slot[s].pc \in Busy \cup {"fetched"}
      PROVE  slot[s].task \in Tasks /\ WorkerId[s] \in Workers
  BY <1>1, SlotAssumption DEF GroupOK
<1>2. ASSUME NEW t \in Tasks, DispatchTask(t) PROVE Next
  BY <1>2 DEF DispatchTask, Next
<1>3. ASSUME NEW s \in Slots, Lease(s), LeaseTask(slot[s].task, WorkerId[s]) PROVE Next
  BY <1>1, <1>3 DEF Lease, Next
<1>4. ASSUME NEW s \in Slots, Complete(s), CompleteTask(slot[s].task, WorkerId[s]) PROVE Next
  BY <1>1, <1>4 DEF Complete, Busy, Next
<1>5. CASE Operation
  BY <1>5 DEF Operation, Next
<1> QED
  BY <1>2, <1>3, <1>4, <1>5, RowsKinds

LEMMA GroupInit ==
    ASSUME DeliveryInit
    PROVE  GroupOK
<1>1. slot = [s \in Slots |-> At("idle")] /\ At("idle") \in SlotState /\ At("idle").pc = "idle"
  BY AtType DEF DeliveryInit
<1>2. messages = << >> /\ Len(messages) = 0 /\ messages \in Seq(Tasks)
  BY DEF DeliveryInit
<1>3. committed = 0 /\ position = 0 /\ owner = NoSlot
  BY DEF DeliveryInit
<1> QED
  BY <1>1, <1>2, <1>3 DEF GroupOK, Busy

\* The group and its slots keep their types in the composition.
THEOREM GroupTyping == DeliverySpec => [](TypeOK /\ GroupOK)
<1>1. DeliveryInit => TypeOK /\ GroupOK
  BY GroupInit, TypeInit DEF DeliveryInit
<1>2. TypeOK /\ GroupOK /\ [DeliveryNext]_deliveryVars => TypeOK' /\ GroupOK'
  BY GroupStep, RowsStep, TypeStep
<1> QED
  BY <1>1, <1>2, PTL DEF DeliverySpec

\* Workers, consumer group and broker, composed with the rows of a run, do nothing to the rows that
\* TaskLifecycle does not do: what is proved of the rows holds for the whole, with crashing workers,
\* failing calls and duplicated dispatches.
THEOREM DeliveryImplements == DeliverySpec => Spec
<1>1. DeliveryInit => Init
  BY DEF DeliveryInit
<1>2. TypeOK /\ GroupOK /\ [DeliveryNext]_deliveryVars => [Next]_vars
  BY RowsStep
<1> QED
  BY <1>1, <1>2, GroupTyping, PTL DEF DeliverySpec, Spec

-----------------------------------------------------------------------------
(* No dispatch is committed before it was dealt with                       *)

\* Only a dispatch makes a task DISPATCHING, and only a completion makes one SUCCEEDED.
LEMMA OperationStatus ==
    ASSUME TypeOK, Operation, NEW t \in Tasks
    PROVE  /\ status'[t] = "DISPATCHING" => status[t] = "DISPATCHING"
           /\ status'[t] = "SUCCEEDED" => status[t] = "SUCCEEDED"
<1> USE DEF TypeOK
<1>1. CASE PromoteRetries \/ CancelRun \/ RetryRun
  BY <1>1 DEF PromoteRetries, CancelRun, RetryRun
<1>2. ASSUME NEW u \in Tasks, NEW w \in Workers, StartTask(u, w)
      PROVE  status'[t] = status[t] \/ status'[t] = "RUNNING"
  BY <1>2 DEF StartTask
<1>3. ASSUME NEW x \in open, FailTaskWrite(x) \/ RecoverWrite(x)
      PROVE  status'[t] = status[t] \/ status'[t] \in {"RETRY_WAIT", "DEAD", "CANCELLED"}
  BY <1>3, FailedStatusType DEF FailTaskWrite, RecoverWrite
<1>4. ASSUME NEW u \in Tasks, ReplayDead(u)
      PROVE  status'[t] = status[t] \/ status'[t] \in {"READY", "RETRY_WAIT", "BLOCKED"}
  BY <1>4 DEF ReplayDead, Rebuilt
<1>5. ASSUME NEW batch \in SUBSET Tasks, RecoverRead(batch) PROVE status' = status
  BY <1>5 DEF RecoverRead
<1>6. ASSUME NEW u \in Tasks, NEW w \in Workers,
             HeartbeatTask(u, w) \/ \E retryable \in BOOLEAN : FailTaskRead(u, w, retryable)
      PROVE  status' = status
  BY <1>6 DEF HeartbeatTask, FailTaskRead
<1>7. ASSUME NEW x \in open, Rollback(x) PROVE status' = status
  BY <1>7 DEF Rollback
<1>8. ASSUME NEW u \in Tasks, LeaseAges(u) \/ RetryDelayElapses(u) PROVE status' = status
  BY <1>8 DEF LeaseAges, RetryDelayElapses
<1> QED
  BY <1>1, <1>2, <1>3, <1>4, <1>5, <1>6, <1>7, <1>8, Zenon DEF Operation

\* No task begins to wait for a lease but by DispatchTask.
LEMMA OnlyDispatched ==
    ASSUME TypeOK, GroupOK, [DeliveryNext]_deliveryVars, ~\E t \in Tasks : DispatchTask(t)
    PROVE  \A t \in Tasks : status'[t] = "DISPATCHING" => status[t] = "DISPATCHING"
<1>1. ASSUME NEW s \in Slots, LeaseTask(slot[s].task, WorkerId[s]), NEW t \in Tasks
      PROVE  status'[t] = status[t] \/ status'[t] = "LEASED"
  BY <1>1 DEF LeaseTask, TypeOK
<1>2. ASSUME NEW s \in Slots, CompleteTask(slot[s].task, WorkerId[s]), NEW t \in Tasks
      PROVE  status'[t] = status[t] \/ status'[t] \in {"SUCCEEDED", "READY"}
  BY <1>2 DEF CompleteTask, TypeOK
<1>3. UNCHANGED vars => status' = status
  BY DEF vars
<1> QED
  BY <1>1, <1>2, <1>3, RowsKinds, OperationStatus

\* What was dealt with stays so when no task begins to wait for a lease.
LEMMA StaysDealtWith ==
    ASSUME messages' = messages, \A t \in Tasks : status'[t] = "DISPATCHING" => status[t] = "DISPATCHING",
           NEW k, DealtWith(k)
    PROVE  DealtWith(k)'
BY SlotAssumption DEF DealtWith

\* The dispatch that is published is itself not dealt with yet.
LEMMA PublishedDealtWith ==
    ASSUME GroupOK, NEW t \in Tasks, messages' = Append(messages, t),
           \A u \in Tasks \ {t} : status'[u] = "DISPATCHING" => status[u] = "DISPATCHING",
           NEW k \in 0 .. Len(messages), DealtWith(k)
    PROVE  DealtWith(k)'
<1>1. /\ Len(messages') = Len(messages) + 1 /\ Len(messages) \in Nat
      /\ messages'[Len(messages) + 1] = t /\ \A i \in 1 .. Len(messages) : messages'[i] = messages[i]
  BY Publishes
<1>2. ASSUME NEW u \in Handled, status'[u] = "DISPATCHING"
      PROVE  \E i \in k + 1 .. Len(messages') : messages'[i] = u
  <2>1. CASE u = t
    <3>1. Len(messages) + 1 \in k + 1 .. Len(messages')
      BY <1>1
    <3> QED
      BY <1>1, <2>1, <3>1
  <2>2. CASE u # t
    <3>1. PICK i \in k + 1 .. Len(messages) : messages[i] = u
      BY <1>2, <2>2, SlotAssumption DEF DealtWith
    <3>2. i \in 1 .. Len(messages) /\ i \in k + 1 .. Len(messages')
      BY <1>1, <3>1
    <3> QED
      BY <1>1, <3>1, <3>2
  <2> QED
    BY <2>1, <2>2
<1> QED
  BY <1>2 DEF DealtWith

\* A message is dealt with once its task is another group's, or does not wait for a lease.
LEMMA MessageDealtWith ==
    ASSUME GroupOK, NEW k \in 1 .. Len(messages), DealtWith(k - 1),
           messages[k] \notin Handled \/ status[messages[k]] # "DISPATCHING"
    PROVE  DealtWith(k)
<1>1. ASSUME NEW t \in Handled, status[t] = "DISPATCHING"
      PROVE  \E i \in k + 1 .. Len(messages) : messages[i] = t
  <2>1. PICK i \in (k - 1) + 1 .. Len(messages) : messages[i] = t
    BY <1>1 DEF DealtWith
  <2>2. i # k /\ Len(messages) \in Nat
    BY <1>1, <2>1 DEF GroupOK
  <2>3. i \in k + 1 .. Len(messages)
    BY <2>1, <2>2
  <2> QED
    BY <2>1, <2>3
<1> QED
  BY <1>1 DEF DealtWith

\* A slot that does nothing, while nothing that was dealt with is lost.
LEMMA PendingFrame ==
    ASSUME GroupOK, NEW s \in Slots, SlotPending(s), slot'[s] = slot[s],
           owner' = s => owner = s /\ position' = position,
           \A k \in 0 .. Len(messages) : DealtWith(k) => DealtWith(k)'
    PROVE  SlotPending(s)'
<1>1. Len(messages) \in Nat /\ position \in 0 .. Len(messages)
  BY DEF GroupOK
<1>2. ASSUME slot'[s].pc = "fetched" PROVE DealtWith(slot[s].offset - 1)'
  <2>1. PICK k \in 0 .. Len(messages) : k = slot[s].offset - 1 /\ k = slot'[s].offset - 1 /\ DealtWith(k)
    BY <1>1, <1>2 DEF GroupOK, SlotPending
  <2>2. DealtWith(k)'
    BY <2>1
  <2> QED
    BY <2>1, <2>2
<1>3. ASSUME slot'[s].pc \in Busy PROVE DealtWith(slot[s].offset)'
  <2>1. PICK k \in 0 .. Len(messages) : k = slot[s].offset /\ k = slot'[s].offset /\ DealtWith(k)
    BY <1>1, <1>3 DEF GroupOK, SlotPending
  <2>2. DealtWith(k)'
    BY <2>1
  <2> QED
    BY <2>1, <2>2
<1>4. ASSUME owner' = s PROVE DealtWith(position)' \/ (slot'[s].pc = "fetched" /\ slot'[s].offset = position')
  <2>1. CASE DealtWith(position)
    <3>1. PICK k \in 0 .. Len(messages) : k = position /\ k = position' /\ DealtWith(k)
      BY <1>1, <1>4, <2>1
    <3>2. DealtWith(k)'
      BY <3>1
    <3> QED
      BY <3>1, <3>2
  <2> QED
    BY <1>4, <2>1 DEF SlotPending
<1> QED
  BY <1>2, <1>3, <1>4 DEF SlotPending

\* The offset of a message the slot has done with, and the position it stands at, are dealt with.
LEMMA LeavesDealtWith ==
    ASSUME GroupOK, NEW s \in Slots, SlotPending(s), Leaves(s), CallFails => GoSlots = {}, ~Stopped(s)
    PROVE  DealtWith(slot[s].offset) /\ (owner = s => DealtWith(position))
<1>1. DealtWith(slot[s].offset)
  <2>1. CASE slot[s].pc = "fetched"
    <3>1. PICK k \in 1 .. Len(messages) : k = slot[s].offset /\ slot[s].task = messages[k]
      BY <2>1 DEF GroupOK
    <3>2. slot[s].task \notin Handled \/ status[slot[s].task] # "DISPATCHING"
      BY <2>1 DEF Leaves
    <3>3. DealtWith(k - 1)
      BY <2>1, <3>1 DEF SlotPending
    <3>4. DealtWith(k)
      BY <3>1, <3>2, <3>3, MessageDealtWith
    <3> QED
      BY <3>1, <3>4
  <2>2. CASE slot[s].pc \in Busy
    BY <2>2 DEF SlotPending
  <2> QED
    BY <2>1, <2>2 DEF Leaves
<1>2. owner = s => DealtWith(position)
  BY <1>1 DEF SlotPending
<1> QED
  BY <1>1, <1>2

LEMMA LeavesPending ==
    ASSUME GroupOK, PendingInv, CallFails => GoSlots = {}, NEW s \in Slots, Leaves(s),
           \A k \in 0 .. Len(messages) : DealtWith(k) => DealtWith(k)'
    PROVE  PendingInv'
<1>1. /\ \A d \in Slots \ {s} : slot'[d] = slot[d]
      /\ slot'[s].pc \in {"idle", "stopped"}
      /\ \/ owner' = owner /\ position' = position
         \/ owner = s /\ owner' = NoSlot /\ position' = 0
  BY LeavesEffect
<1>2. ASSUME NEW d \in Slots \ {s} PROVE SlotPending(d)'
  <2>1. owner' = d => owner = d /\ position' = position
    BY <1>1, SlotAssumption
  <2> QED
    BY <1>1, <2>1, PendingFrame DEF PendingInv
<1>3. /\ slot[s].offset \in 0 .. Len(messages) /\ committed \in 0 .. Len(messages)
      /\ position \in 0 .. Len(messages) /\ Len(messages) \in Nat
  BY DEF GroupOK, Leaves
<1>4. CASE Stopped(s)
  <2>1. owner' # s /\ committed' = committed
    BY <1>4, SlotAssumption DEF Stopped
  <2>2. PICK k \in 0 .. Len(messages) : k = committed /\ k = committed' /\ DealtWith(k)
    BY <1>3, <2>1 DEF PendingInv
  <2>3. DealtWith(k)'
    BY <2>2
  <2>4. DealtWith(committed)'
    BY <2>2, <2>3
  <2>5. SlotPending(s)'
    BY <1>1, <2>1 DEF SlotPending, Busy
  <2> QED
    BY <1>2, <2>4, <2>5 DEF PendingInv
<1>5. CASE ~Stopped(s)
  <2>1. DealtWith(slot[s].offset) /\ (owner = s => DealtWith(position)) /\ DealtWith(committed)
    BY <1>5, LeavesDealtWith DEF PendingInv
  <2>2. PICK k \in 0 .. Len(messages) : k = committed' /\ DealtWith(k)
    BY <1>3, <2>1, LeavesEffect
  <2>3. DealtWith(k)'
    BY <2>2
  <2>4. DealtWith(committed)'
    BY <2>2, <2>3
  <2>5. ASSUME owner' = s PROVE DealtWith(position)'
    <3>1. PICK m \in 0 .. Len(messages) : m = position' /\ DealtWith(m)
      BY <1>1, <1>3, <2>1, <2>5, SlotAssumption
    <3>2. DealtWith(m)'
      BY <3>1
    <3> QED
      BY <3>1, <3>2
  <2>6. SlotPending(s)'
    BY <1>1, <2>5 DEF SlotPending, Busy
  <2> QED
    BY <1>2, <2>4, <2>6 DEF PendingInv
<1> QED
  BY <1>4, <1>5

\* The task whose lease is granted no longer waits for one.
LEMMA LeasedDealtWith ==
    ASSUME GroupOK, messages' = messages, NEW k \in 1 .. Len(messages), DealtWith(k - 1),
           \A t \in Tasks : status'[t] = "DISPATCHING" => status[t] = "DISPATCHING",
           status'[messages[k]] # "DISPATCHING"
    PROVE  DealtWith(k)'
<1>1. ASSUME NEW t \in Handled, status'[t] = "DISPATCHING"
      PROVE  \E i \in k + 1 .. Len(messages) : messages[i] = t
  <2>1. PICK i \in (k - 1) + 1 .. Len(messages) : messages[i] = t
    BY <1>1, SlotAssumption DEF DealtWith
  <2>2. i # k /\ Len(messages) \in Nat
    BY <1>1, <2>1 DEF GroupOK
  <2>3. i \in k + 1 .. Len(messages)
    BY <2>1, <2>2
  <2> QED
    BY <2>1, <2>3
<1> QED
  BY <1>1 DEF DealtWith

LEMMA GoesPending ==
    ASSUME TypeOK, GroupOK, PendingInv, NEW s \in Slots, Goes(s),
           \A t \in Tasks : status'[t] = "DISPATCHING" => status[t] = "DISPATCHING",
           \A k \in 0 .. Len(messages) : DealtWith(k) => DealtWith(k)'
    PROVE  PendingInv'
<1>1. /\ messages' = messages /\ committed' = committed /\ owner' = owner /\ position' = position
      /\ Len(messages) \in Nat /\ committed \in 0 .. Len(messages) /\ position \in 0 .. Len(messages)
  BY DEF Goes, GroupOK, group
<1>2. ASSUME NEW d \in Slots \ {s} PROVE SlotPending(d)'
  BY <1>1, PendingFrame DEF PendingInv, Goes
<1>3. DealtWith(committed)'
  <2>1. PICK k \in 0 .. Len(messages) : k = committed /\ k = committed' /\ DealtWith(k)
    BY <1>1 DEF PendingInv
  <2>2. DealtWith(k)'
    BY <2>1
  <2> QED
    BY <2>1, <2>2
<1>4. PICK k \in 1 .. Len(messages) : k = slot[s].offset /\ k = slot'[s].offset
  BY DEF Goes, GroupOK
<1>5. DealtWith(k)'
  <2>1. CASE slot[s].pc = "fetched"
    <3>0. SlotPending(s)
      BY DEF PendingInv
    <3>1. DealtWith(k - 1) /\ messages[k] = slot[s].task /\ slot[s].task \in Tasks
      <4>1. DealtWith(k - 1)
        BY <1>4, <2>1, <3>0 DEF SlotPending
      <4>2. messages[k] = slot[s].task
        BY <1>4, <2>1, Zenon DEF GroupOK
      <4>3. messages \in Seq(Tasks)
        BY DEF GroupOK
      <4>4. messages[k] \in Tasks
        BY <4>3
      <4> QED
        BY <4>1, <4>2, <4>4
    <3>2. status'[messages[k]] # "DISPATCHING"
      BY <2>1, <3>1 DEF Goes, LeaseTask, TypeOK
    <3> QED
      BY <1>1, <3>1, <3>2, LeasedDealtWith
  <2>2. CASE slot[s].pc \in Busy
    <3>0. SlotPending(s)
      BY DEF PendingInv
    <3>1. DealtWith(k) /\ k \in 0 .. Len(messages)
      BY <1>1, <1>4, <2>2, <3>0 DEF SlotPending
    <3> QED
      BY <3>1
  <2> QED
    BY <2>1, <2>2 DEF Goes
<1>6. DealtWith(slot[s].offset)'
  BY <1>4, <1>5
<1>7. ASSUME owner' = s PROVE DealtWith(position)'
  <2>1. CASE position = k
    <3>1. position' = k
      BY <1>1, <2>1
    <3> QED
      BY <1>5, <3>1
  <2>2. CASE position # k
    <3>1. PICK m \in 0 .. Len(messages) : m = position /\ m = position' /\ DealtWith(m)
      BY <1>1, <1>4, <1>7, <2>2, Zenon DEF PendingInv, SlotPending
    <3>2. DealtWith(m)'
      BY <3>1
    <3> QED
      BY <3>1, <3>2
  <2> QED
    BY <2>1, <2>2
<1>8. slot'[s].pc \in Busy /\ slot'[s].pc # "fetched"
  BY DEF Goes, Busy
<1>9. SlotPending(s)'
  BY <1>6, <1>7, <1>8 DEF SlotPending
<1> QED
  BY <1>2, <1>3, <1>9 DEF PendingInv

LEMMA PendingStep ==
    ASSUME CallFails => GoSlots = {}, TypeOK, GroupOK, PendingInv, [DeliveryNext]_deliveryVars
    PROVE  PendingInv'
<1>0. /\ Len(messages) \in Nat /\ committed \in 0 .. Len(messages) /\ position \in 0 .. Len(messages)
      /\ DealtWith(committed) /\ \A s \in Slots : SlotPending(s)
  BY DEF GroupOK, PendingInv
<1>1. ASSUME \A k \in 0 .. Len(messages) : DealtWith(k) => DealtWith(k)', committed' = committed
      PROVE  DealtWith(committed)'
  <2>1. PICK k \in 0 .. Len(messages) : k = committed /\ k = committed' /\ DealtWith(k)
    BY <1>0, <1>1
  <2>2. DealtWith(k)'
    BY <1>1, <2>1
  <2> QED
    BY <2>1, <2>2
<1>2. ASSUME \A k \in 0 .. Len(messages) : DealtWith(k) => DealtWith(k)', UNCHANGED <<committed, owner, position, slot>>
      PROVE  PendingInv'
  <2>1. ASSUME NEW s \in Slots PROVE SlotPending(s)'
    BY <1>0, <1>2, PendingFrame
  <2>2. DealtWith(committed)'
    BY <1>1, <1>2
  <2> QED
    BY <2>1, <2>2 DEF PendingInv
<1>3. ASSUME NEW t \in Tasks, DispatchTask(t) \/ Duplicate(t) PROVE PendingInv'
  <2>1. messages' = Append(messages, t) /\ UNCHANGED <<committed, owner, position, slot>>
    BY <1>3 DEF DispatchTask, Duplicate
  <2>2. \A u \in Tasks \ {t} : status'[u] = "DISPATCHING" => status[u] = "DISPATCHING"
    BY <1>3 DEF DispatchTask, Duplicate, Dispatch, TypeOK, vars
  <2>3. \A k \in 0 .. Len(messages) : DealtWith(k) => DealtWith(k)'
    BY <2>1, <2>2, PublishedDealtWith
  <2> QED
    BY <1>2, <2>1, <2>3
<1>4. CASE ~\E t \in Tasks : DispatchTask(t) \/ Duplicate(t)
  <2>1. \A t \in Tasks : status'[t] = "DISPATCHING" => status[t] = "DISPATCHING"
    BY <1>4, OnlyDispatched
  <2>2. ASSUME messages' = messages PROVE \A k \in 0 .. Len(messages) : DealtWith(k) => DealtWith(k)'
    BY <2>1, <2>2, StaysDealtWith
  <2>3. CASE Database \/ UNCHANGED deliveryVars
    <3>1. UNCHANGED <<messages, committed, owner, position, slot>>
      BY <2>3 DEF Database, deliveryVars, group
    <3> QED
      BY <1>2, <2>2, <3>1
  <2>4. ASSUME NEW w \in Workers, Restart(w) PROVE PendingInv'
    <3>1. /\ messages' = messages /\ committed' = committed
          /\ \A s \in Slots : slot'[s] = slot[s] \/ slot'[s].pc = "idle"
          /\ \/ owner' = owner /\ position' = position /\ (owner \in Slots => slot'[owner] = slot[owner])
             \/ owner' = NoSlot
      BY <2>4, RestartEffect
    <3>2. ASSUME NEW s \in Slots PROVE SlotPending(s)'
      <4>1. CASE slot'[s] = slot[s]
        <5>1. owner' = s => owner = s /\ position' = position
          BY <3>1, SlotAssumption
        <5> QED
          BY <1>0, <2>2, <3>1, <4>1, <5>1, PendingFrame
      <4>2. CASE slot'[s].pc = "idle" /\ slot'[s] # slot[s]
        <5>1. owner' # s
          BY <3>1, <4>2, SlotAssumption
        <5> QED
          BY <4>2, <5>1 DEF SlotPending, Busy
      <4> QED
        BY <3>1, <4>1, <4>2
    <3>3. DealtWith(committed)'
      BY <1>1, <2>2, <3>1
    <3> QED
      BY <3>2, <3>3 DEF PendingInv
  <2>5. ASSUME NEW s \in Slots, Rebalance(s) PROVE PendingInv'
    <3>1. messages' = messages /\ committed' = committed /\ slot' = slot /\ owner' = s /\ position' = committed
      BY <2>5 DEF Rebalance
    <3>2. DealtWith(committed)'
      BY <1>1, <2>2, <3>1
    <3>3. ASSUME NEW d \in Slots \ {s} PROVE SlotPending(d)'
      BY <1>0, <2>2, <3>1, PendingFrame
    <3>4. DealtWith(position)'
      <4>1. PICK k : k = committed' /\ k = position'
        BY <3>1
      <4> QED
        BY <3>2, <4>1
    <3>5. (slot[s].pc = "fetched" => DealtWith(slot[s].offset - 1))' /\ (slot[s].pc \in Busy => DealtWith(slot[s].offset))'
      <4>1. ASSUME slot'[s].pc = "fetched" PROVE DealtWith(slot[s].offset - 1)'
        <5>1. PICK k \in 0 .. Len(messages) : k = slot[s].offset - 1 /\ k = slot'[s].offset - 1 /\ DealtWith(k)
          BY <1>0, <3>1, <4>1 DEF GroupOK, SlotPending
        <5>2. DealtWith(k)'
          BY <2>2, <3>1, <5>1
        <5> QED
          BY <5>1, <5>2
      <4>2. ASSUME slot'[s].pc \in Busy PROVE DealtWith(slot[s].offset)'
        <5>1. PICK k \in 0 .. Len(messages) : k = slot[s].offset /\ k = slot'[s].offset /\ DealtWith(k)
          BY <1>0, <3>1, <4>2 DEF GroupOK, SlotPending
        <5>2. DealtWith(k)'
          BY <2>2, <3>1, <5>1
        <5> QED
          BY <5>1, <5>2
      <4> QED
        BY <4>1, <4>2
    <3>6. SlotPending(s)'
      BY <3>4, <3>5 DEF SlotPending
    <3> QED
      BY <3>2, <3>3, <3>6 DEF PendingInv
  <2>6. ASSUME NEW s \in Slots, Poll(s) PROVE PendingInv'
    <3>1. /\ owner = s /\ slot[s].pc = "idle" /\ messages' = messages /\ committed' = committed /\ owner' = owner
          /\ position' = position + 1 /\ \A d \in Slots \ {s} : slot'[d] = slot[d]
          /\ slot'[s].pc = "fetched" /\ slot'[s].offset = position'
      BY <2>6, PollEffect
    <3>2. DealtWith(committed)'
      BY <1>1, <2>2, <3>1
    <3>3. ASSUME NEW d \in Slots \ {s} PROVE SlotPending(d)'
      BY <1>0, <2>2, <3>1, PendingFrame
    <3>4. PICK k \in 0 .. Len(messages) : k = position /\ k = slot'[s].offset - 1 /\ DealtWith(k)
      BY <1>0, <3>1 DEF SlotPending
    <3>5. DealtWith(k)'
      BY <2>2, <3>1, <3>4
    <3>6. DealtWith(slot[s].offset - 1)'
      BY <3>4, <3>5
    <3>7. SlotPending(s)'
      BY <3>1, <3>6 DEF SlotPending, Busy
    <3> QED
      BY <3>2, <3>3, <3>7 DEF PendingInv
  <2>7. ASSUME NEW s \in Slots, Leaves(s) PROVE PendingInv'
    <3>1. messages' = messages
      BY <2>7, LeavesEffect
    <3> QED
      BY <2>2, <2>7, <3>1, LeavesPending
  <2>8. ASSUME NEW s \in Slots, Goes(s) PROVE PendingInv'
    <3>1. messages' = messages
      BY <2>8 DEF Goes, group
    <3> QED
      BY <2>1, <2>2, <2>8, <3>1, GoesPending
  <2> QED
    BY <1>4, <2>3, <2>4, <2>5, <2>6, <2>7, <2>8, SlotMoves DEF DeliveryNext
<1> QED
  BY <1>3, <1>4

\* DispatchPending: workers commit an offset only after the lease was granted or refused, so the
\* dispatch of a task that waits for its lease is never committed, whatever crashes, duplicates and
\* rebalances happen.  The Go loop also commits when its call failed; the hypothesis is that a call
\* fails only where no Go worker runs.
THEOREM DispatchStaysPending == ASSUME CallFails => GoSlots = {} PROVE DeliverySpec => []DispatchPending
<1>1. DeliveryInit => PendingInv
  <2>1. ASSUME DeliveryInit PROVE \A t \in Tasks : status[t] # "DISPATCHING"
    BY <2>1, Zenon DEF DeliveryInit, Init
  <2>2. ASSUME DeliveryInit, NEW k PROVE DealtWith(k)
    BY <2>1, <2>2, SlotAssumption DEF DealtWith
  <2>3. ASSUME DeliveryInit, NEW s \in Slots PROVE slot[s].pc = "idle"
    BY <2>3, AtType DEF DeliveryInit
  <2> QED
    BY <2>2, <2>3 DEF PendingInv, SlotPending, Busy
<1>2. TypeOK /\ GroupOK /\ PendingInv /\ [DeliveryNext]_deliveryVars => PendingInv'
  BY PendingStep
<1>3. PendingInv => DispatchPending
  BY DEF PendingInv, DealtWith, DispatchPending
<1> QED
  BY <1>1, <1>2, <1>3, GroupTyping, PTL DEF DeliverySpec

-----------------------------------------------------------------------------
(* An attempt is completed by the slot it was granted to                   *)

\* The attempts recorded of task t, and their workers, stay as they are.
KeepsWorkers(t) ==
    /\ attemptCount'[t] = attemptCount[t]
    /\ \A i \in 1 .. attemptCount[t] : attempts'[t][i].worker = attempts[t][i].worker

LEMMA EndKeepsWorkers ==
    ASSUME TypeOK, AttemptLedger, NEW exit, \A t \in DOMAIN exit : exit[t] \in Exits,
           attempts' = EndAttempts(exit), attemptCount' = attemptCount, NEW t \in Tasks
    PROVE  KeepsWorkers(t)
<1>1. attempts[t] \in Seq(AttemptRow) /\ attemptCount[t] \in Nat /\ Len(attempts[t]) = attemptCount[t]
  BY DEF TypeOK, AttemptLedger, AttemptsAgree
<1>2. CASE t \in DOMAIN exit
  <2>1. PICK e \in Exits : e = exit[t]
    BY <1>2
  <2>2. PICK n \in Nat : n = attemptCount[t]
    BY <1>1
  <2>3. attempts'[t] = [attempts[t] EXCEPT ![n].exit = e]
    BY <1>2, <2>1, <2>2 DEF EndAttempts
  <2>4. \A i \in 1 .. Len(attempts[t]) : attempts'[t][i].worker = attempts[t][i].worker
    BY <1>1, <2>3, ExitUpdate
  <2> QED
    BY <1>1, <2>4 DEF KeepsWorkers
<1>3. CASE t \notin DOMAIN exit
  BY <1>3 DEF EndAttempts, KeepsWorkers
<1> QED
  BY <1>2, <1>3

\* No operation but a lease adds an attempt or touches the worker of one.
LEMMA OperationKeepsWorkers ==
    ASSUME TypeOK, AttemptLedger, NEW t \in Tasks,
           \/ Operation \/ UNCHANGED vars
           \/ \E u \in Tasks : DispatchTask(u)
           \/ \E u \in Tasks, w \in Workers : CompleteTask(u, w)
    PROVE  KeepsWorkers(t)
<1>1. ASSUME attemptCount' = attemptCount, attempts' = attempts PROVE KeepsWorkers(t)
  BY <1>1 DEF KeepsWorkers
<1>2. ASSUME NEW x \in open, FailTaskWrite(x) \/ RecoverWrite(x) PROVE KeepsWorkers(t)
  <2> DEFINE exit == [u \in x.tasks |-> FailedStatus(x, u)]
  <2>1. attempts' = EndAttempts(exit) /\ attemptCount' = attemptCount
    BY <1>2, Zenon DEF FailTaskWrite, RecoverWrite, EndLeases
  <2>2. \A u \in DOMAIN exit : exit[u] \in Exits
    BY FailedStatusType DEF Exits
  <2> HIDE DEF exit
  <2> QED
    BY <2>1, <2>2, EndKeepsWorkers
<1>3. ASSUME NEW u \in Tasks, NEW w \in Workers, CompleteTask(u, w) PROVE KeepsWorkers(t)
  <2> DEFINE exit == [v \in {u} |-> "SUCCEEDED"]
  <2>1. attempts' = EndAttempts(exit) /\ attemptCount' = attemptCount
    BY <1>3, Zenon DEF CompleteTask
  <2>2. \A v \in DOMAIN exit : exit[v] \in Exits
    BY DEF Exits
  <2> HIDE DEF exit
  <2> QED
    BY <2>1, <2>2, EndKeepsWorkers
<1>4. ASSUME NEW u \in Tasks, NEW w \in Workers, StartTask(u, w) PROVE KeepsWorkers(t)
  <2>1. attempts[t] \in Seq(AttemptRow) /\ attemptCount[t] \in Nat /\ Len(attempts[t]) = attemptCount[t]
    BY DEF TypeOK, AttemptLedger, AttemptsAgree
  <2>2. attemptCount' = attemptCount /\ attempts \in [Tasks -> Seq(AttemptRow)]
    BY <1>4 DEF StartTask, TypeOK
  <2>3. CASE u = t
    <3>1. PICK n \in Nat : n = attemptCount[t]
      BY <2>1
    <3>2. attempts'[t] = [attempts[t] EXCEPT ![n].executing = TRUE]
      BY <1>4, <2>2, <2>3, <3>1 DEF StartTask
    <3>3. \A i \in 1 .. Len(attempts[t]) : attempts'[t][i].worker = attempts[t][i].worker
      BY <2>1, <3>2, ExecutingUpdate
    <3> QED
      BY <2>1, <2>2, <3>3 DEF KeepsWorkers
  <2>4. CASE u # t
    BY <1>4, <2>2, <2>4 DEF StartTask, KeepsWorkers
  <2> QED
    BY <2>3, <2>4
<1>5. CASE PromoteRetries \/ CancelRun \/ RetryRun
  BY <1>1, <1>5 DEF PromoteRetries, CancelRun, RetryRun
<1>6. ASSUME NEW batch \in SUBSET Tasks, RecoverRead(batch) PROVE KeepsWorkers(t)
  BY <1>1, <1>6 DEF RecoverRead
<1>7. ASSUME NEW u \in Tasks, NEW w \in Workers,
             HeartbeatTask(u, w) \/ \E retryable \in BOOLEAN : FailTaskRead(u, w, retryable)
      PROVE  KeepsWorkers(t)
  BY <1>1, <1>7 DEF HeartbeatTask, FailTaskRead
<1>8. ASSUME NEW x \in open, Rollback(x) PROVE KeepsWorkers(t)
  BY <1>1, <1>8 DEF Rollback
<1>9. ASSUME NEW u \in Tasks, ReplayDead(u) \/ LeaseAges(u) \/ RetryDelayElapses(u) PROVE KeepsWorkers(t)
  BY <1>1, <1>9 DEF ReplayDead, LeaseAges, RetryDelayElapses
<1>10. ASSUME NEW u \in Tasks, DispatchTask(u) PROVE KeepsWorkers(t)
  BY <1>1, <1>10 DEF DispatchTask, Dispatch
<1>11. CASE UNCHANGED vars
  BY <1>1, <1>11 DEF vars
<1>12. CASE Operation
  BY <1>2, <1>4, <1>5, <1>6, <1>7, <1>8, <1>9, <1>12 DEF Operation
<1> QED
  BY <1>3, <1>10, <1>11, <1>12

LEMMA AttemptFrame ==
    ASSUME TypeOK, GroupOK, NEW s \in Slots, SlotAttempt(s), slot[s].pc \in Busy,
           slot'[s].task = slot[s].task, slot'[s].attempt = slot[s].attempt, KeepsWorkers(slot[s].task)
    PROVE  SlotAttempt(s)'
<1>1. PICK t \in Tasks : t = slot[s].task /\ t = slot'[s].task
  BY DEF GroupOK
<1>2. PICK n \in Nat : n = attemptCount[t] /\ n = attemptCount'[t]
  BY <1>1, Zenon DEF TypeOK, KeepsWorkers
<1>3. PICK a \in 1 .. n : a = slot[s].attempt /\ a = slot'[s].attempt
  BY <1>1, <1>2 DEF SlotAttempt
<1>4. ASSUME NEW i \in a + 1 .. n PROVE attempts'[t][i].worker # WorkerId[s]
  <2>1. attempts[t][i].worker # WorkerId[s]
    BY <1>1, <1>2, <1>3 DEF SlotAttempt
  <2>2. i \in 1 .. n
    OBVIOUS
  <2> QED
    BY <1>1, <1>2, <2>1, <2>2, Zenon DEF KeepsWorkers
<1> QED
  BY <1>1, <1>2, <1>3, <1>4 DEF SlotAttempt

\* A lease granted for another task, or to another worker.
LEMMA LeaseFrame ==
    ASSUME TypeOK, GroupOK, AttemptLedger, NEW s \in Slots, SlotAttempt(s), slot[s].pc \in Busy, slot'[s] = slot[s],
           NEW u \in Tasks, NEW w \in Workers \ {WorkerId[s]}, LeaseTask(u, w)
    PROVE  SlotAttempt(s)'
<1>1. PICK t \in Tasks : t = slot[s].task /\ t = slot'[s].task
  BY DEF GroupOK
<1>2. CASE t # u
  <2>1. attemptCount'[t] = attemptCount[t] /\ attempts'[t] = attempts[t]
    BY <1>2 DEF LeaseTask, TypeOK
  <2> QED
    BY <1>1, <2>1, AttemptFrame, Zenon DEF KeepsWorkers
<1>3. CASE t = u
  <2>1. PICK n \in Nat : n = attemptCount[t] /\ Len(attempts[t]) = n /\ attempts[t] \in Seq(AttemptRow)
    BY DEF TypeOK, AttemptLedger, AttemptsAgree
  <2>2. PICK row : row = [worker |-> w, executing |-> FALSE, exit |-> "open"]
    BY Zenon
  <2>3. attemptCount'[t] = n + 1 /\ attempts'[t] = Append(attempts[t], row)
    BY <1>3, <2>1, <2>2 DEF LeaseTask, TypeOK
  <2>4. row \in AttemptRow /\ row.worker = w
    BY <2>2 DEF AttemptRow
  <2>5. attempts'[t][n + 1] = row /\ \A i \in 1 .. n : attempts'[t][i] = attempts[t][i]
    BY <2>1, <2>3, <2>4
  <2>6. PICK a \in 1 .. n : a = slot[s].attempt /\ a = slot'[s].attempt
    BY <1>1, <2>1 DEF SlotAttempt
  <2>7. ASSUME NEW i \in a + 1 .. n + 1 PROVE attempts'[t][i].worker # WorkerId[s]
    <3>1. CASE i = n + 1
      BY <2>4, <2>5, <3>1
    <3>2. CASE i # n + 1
      <4>1. i \in 1 .. n /\ i \in a + 1 .. n
        BY <3>2
      <4>2. attempts[t][i].worker # WorkerId[s]
        BY <1>1, <2>1, <2>6, <4>1 DEF SlotAttempt
      <4> QED
        BY <2>5, <4>1, <4>2
    <3> QED
      BY <3>1, <3>2
  <2>8. a \in 1 .. n + 1
    OBVIOUS
  <2> QED
    BY <1>1, <2>3, <2>6, <2>7, <2>8, Zenon DEF SlotAttempt
<1> QED
  BY <1>2, <1>3

\* Of every slot a step leaves the attempt alone, unless the slot is done or was granted a lease.
LEMMA SlotKinds ==
    ASSUME TypeOK, GroupOK, [DeliveryNext]_deliveryVars, NEW d \in Slots
    PROVE  \/ slot'[d].pc \notin Busy
           \/ slot'[d] = slot[d]
           \/ Goes(d)
<1>1. CASE UNCHANGED slot
  BY <1>1
<1>2. ASSUME NEW w \in Workers, Restart(w) PROVE slot'[d] = slot[d] \/ slot'[d].pc = "idle"
  BY <1>2, RestartEffect
<1>3. ASSUME NEW s \in Slots, Poll(s) PROVE slot'[d] = slot[d] \/ slot'[d].pc = "fetched"
  BY <1>3, PollEffect
<1>4. ASSUME NEW s \in Slots, Leaves(s) PROVE slot'[d] = slot[d] \/ slot'[d].pc \in {"idle", "stopped"}
  BY <1>4, LeavesEffect
<1>5. ASSUME NEW s \in Slots, Goes(s) PROVE slot'[d] = slot[d] \/ Goes(d)
  <2>1. CASE d = s
    BY <1>5, <2>1
  <2>2. CASE d # s
    BY <1>5, <2>2 DEF Goes
  <2> QED
    BY <2>1, <2>2
<1>6. CASE Database \/ UNCHANGED deliveryVars
  BY <1>1, <1>6 DEF Database, deliveryVars
<1>7. ASSUME NEW t \in Tasks, DispatchTask(t) \/ Duplicate(t) PROVE UNCHANGED slot
  BY <1>7 DEF DispatchTask, Duplicate
<1>8. ASSUME NEW s \in Slots, Rebalance(s) PROVE UNCHANGED slot
  BY <1>8 DEF Rebalance
<1>9. "fetched" \notin Busy /\ "idle" \notin Busy /\ "stopped" \notin Busy
  BY DEF Busy
<1> QED
  BY <1>1, <1>2, <1>3, <1>4, <1>5, <1>6, <1>7, <1>8, <1>9, SlotMoves, Zenon DEF DeliveryNext

\* The last of n attempts.
LEMMA LastAttempt ==
    ASSUME NEW n \in Nat, n > 0
    PROVE  /\ n \in 1 .. n /\ \A i \in n + 1 .. n : FALSE
           /\ \A k \in 1 .. n : n \notin k + 1 .. n => k = n
OBVIOUS

LEMMA AttemptStep ==
    ASSUME \A s, d \in Slots : WorkerId[s] = WorkerId[d] => s = d,
           TypeOK, GroupOK, AttemptLedger, AttemptInv, [DeliveryNext]_deliveryVars
    PROVE  AttemptInv'
<1> SUFFICES ASSUME NEW d \in Slots, slot'[d].pc \in Busy
             PROVE  SlotAttempt(d)'
  BY DEF AttemptInv, SlotAttempt
<1>0. SlotAttempt(d)
  BY DEF AttemptInv
<1>1. CASE \A t \in Tasks : KeepsWorkers(t)
  <2>1. slot[d].pc \in Busy /\ slot'[d].task = slot[d].task /\ slot'[d].attempt = slot[d].attempt
    <3>1. CASE slot'[d] = slot[d]
      BY <3>1
    <3>2. CASE Goes(d)
      <4>1. ASSUME slot[d].pc = "fetched" PROVE FALSE
        <5>1. PICK t \in Tasks : t = slot[d].task
          BY <4>1 DEF GroupOK
        <5>2. LeaseTask(t, WorkerId[d]) /\ attemptCount'[t] = attemptCount[t]
          BY <1>1, <3>2, <4>1, <5>1 DEF Goes, KeepsWorkers
        <5>3. attemptCount[t] \in Nat /\ attemptCount'[t] = attemptCount[t] + 1
          BY <5>2 DEF LeaseTask, TypeOK
        <5> QED
          BY <5>2, <5>3
      <4> QED
        BY <3>2, <4>1 DEF Goes
    <3> QED
      BY <3>1, <3>2, SlotKinds
  <2>2. slot[d].task \in Tasks
    BY <2>1 DEF GroupOK
  <2> QED
    BY <1>0, <1>1, <2>1, <2>2, AttemptFrame
<1>2. ASSUME NEW s \in Slots, Lease(s), LeaseTask(slot[s].task, WorkerId[s]) PROVE SlotAttempt(d)'
  <2>1. PICK t \in Tasks : t = slot[s].task
    BY <1>2 DEF Lease, GroupOK
  <2>2. slot[s].pc = "fetched" /\ "fetched" \notin Busy
    BY <1>2 DEF Lease, Busy
  <2>3. CASE d = s
    <3>1. slot'[d] # slot[d]
      BY <2>2, <2>3
    <3>2. Goes(s)
      BY <2>3, <3>1, SlotKinds
    <3>3. PICK n \in Nat : n = attemptCount[t] + 1 /\ n > 0
      BY DEF TypeOK
    <3>4. slot'[s].task = t /\ slot'[s].attempt = n
      BY <2>1, <2>2, <3>2, <3>3 DEF Goes
    <3>5. attemptCount'[t] = n
      BY <1>2, <2>1, <3>3, Zenon DEF LeaseTask, TypeOK
    <3>6. n \in 1 .. n /\ \A i \in n + 1 .. n : FALSE
      BY <3>3, LastAttempt
    <3> QED
      BY <2>3, <3>4, <3>5, <3>6 DEF SlotAttempt
  <2>4. CASE d # s
    <3>1. WorkerId[s] \in Workers \ {WorkerId[d]}
      BY <2>4, SlotAssumption
    <3>2. slot'[d] = slot[d]
      <4>1. CASE Leaves(s)
        BY <2>4, <4>1, LeavesEffect
      <4>2. CASE Goes(s)
        BY <2>4, <4>2 DEF Goes
      <4> QED
        BY <1>2, <4>1, <4>2, SlotMoves, Zenon
    <3> QED
      BY <1>0, <1>2, <2>1, <3>1, <3>2, LeaseFrame, Zenon
  <2> QED
    BY <2>3, <2>4
<1>3. ASSUME NEW s \in Slots, Complete(s), CompleteTask(slot[s].task, WorkerId[s])
      PROVE  slot[s].task \in Tasks /\ WorkerId[s] \in Workers
  BY <1>3, SlotAssumption DEF Complete, GroupOK, Busy
<1> QED
  BY <1>1, <1>2, <1>3, RowsKinds, OperationKeepsWorkers

\* CompletedByItsAttempt: where every slot has a worker ID of its own, as each Go process does, the
\* call that completes a task comes from the slot that was granted the task's current attempt, so a
\* stale worker cannot complete a task whose lease was reassigned.
THEOREM CompletedByAttempt ==
    ASSUME \A s, d \in Slots : WorkerId[s] = WorkerId[d] => s = d
    PROVE  DeliverySpec => CompletedByItsAttempt
<1> DEFINE Completed(t) == \E s \in Slots : /\ slot[s].pc = "executing" /\ slot'[s] # slot[s]
                                            /\ slot[s].task = t /\ slot[s].attempt = attemptCount[t]
<1>1. DeliveryInit => AttemptInv
  <2>1. ASSUME DeliveryInit, NEW s \in Slots PROVE slot[s].pc = "idle"
    BY <2>1, AtType DEF DeliveryInit
  <2> QED
    BY <2>1 DEF AttemptInv, SlotAttempt, Busy
<1>2. TypeOK /\ GroupOK /\ AttemptLedger /\ AttemptInv /\ [DeliveryNext]_deliveryVars => AttemptInv'
  BY AttemptStep
<1>3. ASSUME TypeOK, GroupOK, AttemptLedger, AttemptInv, [DeliveryNext]_deliveryVars,
             NEW t \in Tasks, status[t] # "SUCCEEDED", status'[t] = "SUCCEEDED"
      PROVE  Completed(t)
  <2>1. ASSUME NEW s \in Slots, Complete(s), CompleteTask(slot[s].task, WorkerId[s])
        PROVE  Completed(t)
    <3>1. slot[s].pc = "executing" /\ "executing" \in Busy /\ slot[s].task \in Tasks
      BY <1>3, <2>1, Zenon DEF Complete, GroupOK, Busy
    <3>2. slot[s].task = t
      BY <1>3, <2>1, <3>1, Zenon DEF CompleteTask, TypeOK
    <3>3. status[t] = "RUNNING" /\ leaseOwner[t] = WorkerId[s]
      BY <2>1, <3>2, Zenon DEF CompleteTask, HoldsLease
    <3>4. PICK n \in Nat : n = attemptCount[t] /\ n > 0 /\ attempts[t][n].worker = WorkerId[s]
      <4>1. AttemptsAgree(t) /\ attemptCount[t] \in Nat
        BY <1>3 DEF TypeOK, AttemptLedger
      <4>2. status[t] \in Active
        BY <3>3, Zenon DEF Active
      <4> QED
        BY <3>3, <4>1, <4>2, Zenon DEF AttemptsAgree
    <3>5. slot[s].attempt \in 1 .. n /\ \A i \in slot[s].attempt + 1 .. n : attempts[t][i].worker # WorkerId[s]
      BY <1>3, <3>1, <3>2, <3>4, Zenon DEF AttemptInv, SlotAttempt
    <3>6. slot[s].attempt = n
      <4>1. n \notin slot[s].attempt + 1 .. n
        BY <3>4, <3>5
      <4> QED
        BY <3>4, <3>5, <4>1, LastAttempt, Zenon
    <3>7. slot'[s] # slot[s]
      <4>1. slot \in [Slots -> SlotState] /\ slot[s] \in SlotState
        BY <1>3 DEF GroupOK
      <4>2. CASE Reports(s, FALSE)
        <5>1. slot'[s].pc = "reporting"
          BY <4>1, <4>2 DEF Reports, SlotState
        <5> QED
          BY <3>1, <5>1
      <4>3. CASE Done(s) \/ Finished(s)
        <5>1. Leaves(s)
          BY <1>3, <3>1, <4>3, DoneLeaves DEF Leaves, Busy
        <5> QED
          BY <1>3, <3>1, <5>1, LeavesEffect
      <4> QED
        BY <2>1, <4>2, <4>3, Zenon DEF Complete
    <3> QED
      BY <3>1, <3>2, <3>4, <3>6, <3>7, Zenon
  <2>2. ASSUME NEW u \in Tasks, DispatchTask(u) PROVE FALSE
    BY <1>3, <2>2 DEF DispatchTask, Dispatch, TypeOK
  <2>3. ASSUME NEW s \in Slots, LeaseTask(slot[s].task, WorkerId[s]) PROVE FALSE
    BY <1>3, <2>3, Zenon DEF LeaseTask, TypeOK
  <2>4. CASE Operation
    BY <1>3, <2>4, OperationStatus, Zenon
  <2>5. CASE UNCHANGED vars
    BY <1>3, <2>5, Zenon DEF vars
  <2> QED
    BY <1>3, <2>1, <2>2, <2>3, <2>4, <2>5, RowsKinds
<1>4. TypeOK /\ GroupOK /\ AttemptLedger /\ AttemptInv /\ [DeliveryNext]_deliveryVars
      => [\A t \in Tasks : status[t] # "SUCCEEDED" /\ status'[t] = "SUCCEEDED" => Completed(t)]_deliveryVars
  BY <1>3
<1> QED
  BY <1>1, <1>2, <1>4, GroupTyping, DeliveryImplements, LedgerAgrees, PTL DEF DeliverySpec, CompletedByItsAttempt

=============================================================================
