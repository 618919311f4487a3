------------------------------ MODULE Artifacts ------------------------------
(***************************************************************************)
(* Artifacts: uploads that are declared, transferred to the object store   *)
(* and completed (internal/artifact/manager.go, internal/storage/          *)
(* artifacts.go), and the worker protocol that makes them the output and   *)
(* the log of a task (internal/rpc/worker.go, internal/api/server.go,      *)
(* sdk/go/client.go, cmd/worker-go/main.go).                               *)
(*                                                                         *)
(* Each SQL statement and each call to the object store is a step of its   *)
(* own: nothing is locked between the check of a lease and the write it    *)
(* guards.  The task row is reduced to who leases it (TaskLifecycle models *)
(* it in full); a retry makes it READY at once.                            *)
(***************************************************************************)
EXTENDS Naturals, FiniteSets

CONSTANTS Users,        \* clients of the public API
          SdkWorkers,   \* workers on the Go SDK: gRPC, a log with every result
          HttpWorkers,  \* workers on the HTTP protocol, naming any artifact as output
          Bodies, Size, \* contents of an object, and their size
          Result,       \* what workers upload
          Limit,        \* greatest declared size, per kind
          MaxId,        \* bound on artifacts
          MaxUserId,    \* bound on the artifacts of users
          NoId,         \* NULL, and ""
          Nothing,      \* no object
          MaxFaults,    \* bound on lost connections, crashes and stalls
          Deployments   \* who is there together

Workers == SdkWorkers \cup HttpWorkers
Actors == Workers \cup Users
Kinds == {"input", "output", "log"}
Ids == 1..MaxId

ASSUME ArtifactsAssumption ==
    /\ Size \in [Bodies -> Nat] /\ Limit \in [Kinds -> Nat]
    /\ NoId \notin Ids /\ Nothing \notin Bodies
    /\ {MaxId, MaxUserId, MaxFaults} \subseteq Nat
    /\ Result \in Bodies /\ \A kind \in Kinds : Size[Result] <= Limit[kind]
    /\ Users \cap Workers = {} /\ SdkWorkers \cap HttpWorkers = {}
    /\ Deployments \subseteq SUBSET Actors

VARIABLES up,         \* the deployment
          task,       \* the task row: status, lease, output and log
          row,        \* rows of artifacts
          object,     \* the object store
          inflight,   \* PUT requests under way
          actor,      \* what each client is doing
          faults

vars == <<up, task, row, object, inflight, actor, faults>>

NoRow == [status |-> "none", kind |-> "input", ofTask |-> FALSE, declared |-> Nothing, checksum |-> FALSE, by |-> NoId]
Resting == [pc |-> "idle", kind |-> "input", art |-> NoId, out |-> NoId, log |-> NoId]

\* A run with workers was created with the READY input artifact 1.
InputRow == [status |-> "READY", kind |-> "input", ofTask |-> FALSE, declared |-> Result, checksum |-> TRUE, by |-> NoId]

Init ==
    /\ up \in Deployments
    /\ task = [status |-> "READY", owner |-> NoId, live |-> FALSE, out |-> NoId, log |-> NoId]
    /\ row = [i \in Ids |-> IF i = 1 /\ up \cap Workers # {} THEN InputRow ELSE NoRow]
    /\ object = [i \in Ids |-> IF row[i].status = "READY" THEN InputRow.declared ELSE Nothing]
    /\ inflight = {}
    /\ actor = [a \in Actors |-> Resting]
    /\ faults = 0

-----------------------------------------------------------------------------
(* The task.                                                               *)

\* ActiveTaskLeaseBelongsToWorker.
Active(a) == task.status \in {"LEASED", "RUNNING"} /\ task.owner = a /\ task.live

At(a, pc) == a \in up /\ actor[a].pc = pc

Goes(a, pc) == actor' = [actor EXCEPT ![a].pc = pc]

\* The call failed: the client drops what it was doing.
GivesUp(a) == actor' = [actor EXCEPT ![a] = Resting]

\* execute: lease the task, download its input, start it.
Lease(a) ==
    /\ At(a, "idle") /\ a \in Workers /\ task.status = "READY"
    /\ task' = [task EXCEPT !.status = "LEASED", !.owner = a, !.live = TRUE]
    /\ Goes(a, "leased")
    /\ UNCHANGED <<up, row, object, inflight, faults>>

\* Manager.Download signs a GET for READY artifacts; the GET finds the object or fails.
Signed(i) == row[i].status = "READY"
Fetched(i) == object[i] # Nothing

\* GetArtifactDownload for the holder of the lease, then the GET it was signed for.
DownloadInput(a) ==
    /\ At(a, "leased")
    /\ IF Active(a) /\ Signed(1) /\ Fetched(1) THEN Goes(a, "start") ELSE GivesUp(a)
    /\ UNCHANGED <<up, task, row, object, inflight, faults>>

Start(a) ==
    /\ At(a, "start")
    /\ IF Active(a)
       THEN task' = [task EXCEPT !.status = "RUNNING"] /\ Goes(a, "running")
       ELSE UNCHANGED task /\ GivesUp(a)
    /\ UNCHANGED <<up, row, object, inflight, faults>>

\* FailTask for an error of the handler; refused to anyone but the lease's holder.
Fail(a) ==
    /\ At(a, "running") /\ faults < MaxFaults /\ faults' = faults + 1
    /\ task' = IF Active(a) THEN [task EXCEPT !.status = "READY", !.owner = NoId, !.live = FALSE] ELSE task
    /\ GivesUp(a)
    /\ UNCHANGED <<up, row, object, inflight>>

\* Heartbeats stop with the worker; they may also stall while it goes on.
LeaseExpires ==
    /\ task.status \in {"LEASED", "RUNNING"} /\ task.live
    /\ IF actor[task.owner].pc = "idle" THEN UNCHANGED faults
                                        ELSE faults < MaxFaults /\ faults' = faults + 1
    /\ task' = [task EXCEPT !.live = FALSE]
    /\ UNCHANGED <<up, row, object, inflight, actor>>

\* Mutant: only tasks that were started are recovered.
RecoverStarted ==
    /\ task.status = "RUNNING" /\ ~task.live
    /\ task' = [task EXCEPT !.status = "READY", !.owner = NoId]
    /\ UNCHANGED <<up, row, object, inflight, actor, faults>>

\* The scheduler's recovery of expired leases.
Recover ==
    /\ task.status \in {"LEASED", "RUNNING"} /\ ~task.live
    /\ task' = [task EXCEPT !.status = "READY", !.owner = NoId]
    /\ UNCHANGED <<up, row, object, inflight, actor, faults>>

-----------------------------------------------------------------------------
(* Uploads.                                                                *)

Used == {i \in Ids : row[i].status # "none"}

\* The next identifier uuid.NewString() returns.
NewId == Cardinality(Used) + 1

PendingRow(a, kind, declared, checksum) ==
    [status |-> "PENDING", kind |-> kind, ofTask |-> a \in Workers,
     declared |-> declared, checksum |-> checksum, by |-> a]

\* createUpload: refused above the limit of its kind; the row is committed before
\* the URL is signed.
Creates(a, kind, declared, checksum) ==
    IF Size[declared] > Limit[kind]
    THEN GivesUp(a) /\ UNCHANGED row
    ELSE /\ NewId \in Ids
         /\ row' = [row EXCEPT ![NewId] = PendingRow(a, kind, declared, checksum)]
         /\ actor' = [actor EXCEPT ![a].pc = "put", ![a].art = NewId]

\* POST /v1/artifacts/uploads; the checksum is optional.
CreateUpload(a) ==
    /\ At(a, "idle") /\ a \in Users /\ NewId <= MaxUserId
    /\ \E declared \in Bodies, checksum \in BOOLEAN : Creates(a, "input", declared, checksum)
    /\ UNCHANGED <<up, task, object, inflight, faults>>

\* client.Complete uploads the output when it is large, and then always a log.  An
\* HTTP worker uploads what it likes.
Upload(a, kind) ==
    /\ At(a, "running")
    /\ actor' = [actor EXCEPT ![a].pc = "create", ![a].kind = kind]
    /\ UNCHANGED <<up, task, row, object, inflight, faults>>

UploadOutput(a) == Upload(a, "output")
UploadLog(a) == Upload(a, "log")

\* CreateArtifactUpload: the lease is checked, the row inserted afterwards.
AskUpload(a) ==
    /\ At(a, "create")
    /\ IF Active(a) THEN Goes(a, "insert") ELSE GivesUp(a)
    /\ UNCHANGED <<up, task, row, object, inflight, faults>>

InsertUpload(a) ==
    /\ At(a, "insert")
    /\ Creates(a, actor[a].kind, Result, TRUE)
    /\ UNCHANGED <<up, task, object, inflight, faults>>

\* The PUT to the signed URL.  A worker sends the bytes it has hashed; a user's file
\* may have changed since it was declared.
Put(a) ==
    /\ At(a, "put")
    /\ \E body \in Bodies :
          /\ a \in Workers => body = row[actor[a].art].declared
          /\ inflight' = inflight \cup {<<actor[a].art, body>>}
    /\ Goes(a, "sent")
    /\ UNCHANGED <<up, task, row, object, faults>>

\* The store takes an object as a whole, at once or long after the client left.
Arrive(i) ==
    /\ \E put \in inflight : /\ put[1] = i
                             /\ object' = [object EXCEPT ![i] = put[2]]
                             /\ inflight' = inflight \ {put}
    /\ UNCHANGED <<up, task, row, actor, faults>>

PutAnswered(a) ==
    /\ At(a, "sent") /\ \A put \in inflight : put[1] # actor[a].art
    /\ Goes(a, IF a \in Workers THEN "ask" ELSE "complete")
    /\ UNCHANGED <<up, task, row, object, inflight, faults>>

\* CompleteArtifactUpload of a worker: the lease, and whose artifact it is.
AskComplete(a) ==
    /\ At(a, "ask")
    /\ IF Active(a) /\ row[actor[a].art].ofTask THEN Goes(a, "complete") ELSE GivesUp(a)
    /\ UNCHANGED <<up, task, row, object, inflight, faults>>

\* POST /v1/artifacts/{id}/complete: any user, at any time.
AnyComplete(a) ==
    /\ At(a, "idle") /\ a \in Users
    /\ \E i \in Used : actor' = [actor EXCEPT ![a].pc = "complete", ![a].art = i]
    /\ UNCHANGED <<up, task, row, object, inflight, faults>>

\* The upload is complete: the SDK goes on to the log, and from there to the result.
Completed(a) ==
    LET art == actor[a].art
    IN  actor' = [actor EXCEPT ![a] =
            IF a \in Users THEN Resting
            ELSE IF a \in HttpWorkers THEN [@ EXCEPT !.pc = "running", !.art = NoId]
            ELSE IF @.kind = "output" THEN [@ EXCEPT !.pc = "create", !.kind = "log", !.out = art, !.art = NoId]
            ELSE [@ EXCEPT !.pc = "finish", !.log = art, !.art = NoId]]

\* Manager.Complete: the row, the size of the object, its checksum, the update.
ReadRow(a) ==
    /\ At(a, "complete")
    /\ IF row[actor[a].art].status = "READY" THEN Completed(a) ELSE Goes(a, "head")
    /\ UNCHANGED <<up, task, row, object, inflight, faults>>

\* Mutant: the size is not compared.
HeadAnySize(a) ==
    /\ At(a, "head")
    /\ IF object[actor[a].art] = Nothing THEN GivesUp(a)
       ELSE Goes(a, IF row[actor[a].art].checksum THEN "hash" ELSE "mark")
    /\ UNCHANGED <<up, task, row, object, inflight, faults>>

HeadObject(a) ==
    /\ At(a, "head")
    /\ LET art == actor[a].art
       IN  IF object[art] = Nothing \/ Size[object[art]] # Size[row[art].declared] THEN GivesUp(a)
           ELSE Goes(a, IF row[art].checksum THEN "hash" ELSE "mark")
    /\ UNCHANGED <<up, task, row, object, inflight, faults>>

Checksum(a) ==
    /\ At(a, "hash")
    /\ IF object[actor[a].art] = row[actor[a].art].declared THEN Goes(a, "mark") ELSE GivesUp(a)
    /\ UNCHANGED <<up, task, row, object, inflight, faults>>

\* CompleteArtifact: one of two racing completions finds the row no longer PENDING.
MarkReady(a) ==
    /\ At(a, "mark")
    /\ IF row[actor[a].art].status = "PENDING"
       THEN row' = [row EXCEPT ![actor[a].art].status = "READY"] /\ Completed(a)
       ELSE UNCHANGED row /\ GivesUp(a)
    /\ UNCHANGED <<up, task, object, inflight, faults>>

-----------------------------------------------------------------------------
(* The result of the task.                                                 *)

\* The result of a small output needs the log only.
SmallOutput(a) == a \in SdkWorkers /\ UploadLog(a)

\* An HTTP worker names any artifact it has heard of, or none.
NameOutput(a) ==
    /\ At(a, "running") /\ a \in HttpWorkers
    /\ \E out \in Used \cup {NoId} : actor' = [actor EXCEPT ![a].pc = "finish", ![a].out = out]
    /\ UNCHANGED <<up, task, row, object, inflight, faults>>

\* Only the gRPC handler looks at the lease before the artifacts.
Finish(a) ==
    /\ At(a, "finish")
    /\ IF Active(a) \/ a \in HttpWorkers THEN Goes(a, "verify") ELSE GivesUp(a)
    /\ UNCHANGED <<up, task, row, object, inflight, faults>>

IsArtifactOf(i, kind) == i # NoId => row[i].status = "READY" /\ row[i].kind = kind /\ row[i].ofTask

Verify(a) ==
    /\ At(a, "verify")
    /\ IF IsArtifactOf(actor[a].out, "output") /\ IsArtifactOf(actor[a].log, "log")
       THEN Goes(a, "commit") ELSE GivesUp(a)
    /\ UNCHANGED <<up, task, row, object, inflight, faults>>

\* Mutant: CompleteTask trusts the checks made before.
CompleteUnfenced(a) ==
    /\ At(a, "commit")
    /\ task' = [task EXCEPT !.status = "SUCCEEDED", !.live = FALSE, !.out = actor[a].out, !.log = actor[a].log]
    /\ GivesUp(a)
    /\ UNCHANGED <<up, row, object, inflight, faults>>

\* CompleteTask, fenced by the lease.
CompleteTask(a) ==
    /\ At(a, "commit")
    /\ task' = IF Active(a) /\ task.status = "RUNNING"
               THEN [task EXCEPT !.status = "SUCCEEDED", !.live = FALSE, !.out = actor[a].out, !.log = actor[a].log]
               ELSE task
    /\ GivesUp(a)
    /\ UNCHANGED <<up, row, object, inflight, faults>>

\* A call fails or times out, or the process dies.  execute returns without a
\* FailTask: the task waits for its lease to expire.
Abandon(a) ==
    /\ a \in up /\ actor[a].pc # "idle" /\ faults < MaxFaults /\ faults' = faults + 1
    /\ GivesUp(a)
    /\ UNCHANGED <<up, task, row, object, inflight>>

-----------------------------------------------------------------------------
WorkerStep(a) ==
    \/ DownloadInput(a) \/ Start(a) \/ AskUpload(a) \/ InsertUpload(a) \/ AskComplete(a)
    \/ Finish(a) \/ Verify(a) \/ CompleteTask(a) \/ SmallOutput(a) \/ NameOutput(a)

TransferStep(a) ==
    \/ Put(a) \/ PutAnswered(a) \/ ReadRow(a) \/ HeadObject(a) \/ Checksum(a) \/ MarkReady(a)

Next ==
    \/ \E a \in Workers : Lease(a) \/ WorkerStep(a) \/ Fail(a)
    \/ \E a \in Workers : UploadOutput(a) \/ (a \in HttpWorkers /\ UploadLog(a))
    \/ \E a \in Users : CreateUpload(a) \/ AnyComplete(a)
    \/ \E a \in Actors : TransferStep(a) \/ Abandon(a)
    \/ \E i \in Ids : Arrive(i)
    \/ LeaseExpires \/ Recover

Spec == Init /\ [][Next]_vars

\* Workers and the store go on, the task is delivered to a worker again and again,
\* a lease without heartbeats expires and the scheduler recovers it.
Fairness ==
    /\ WF_vars(\E a \in Workers : Lease(a))
    /\ \A a \in Workers : WF_vars(WorkerStep(a) \/ TransferStep(a))
    /\ WF_vars(\E i \in Ids : Arrive(i))
    /\ WF_vars(task.owner # NoId /\ actor[task.owner].pc = "idle" /\ LeaseExpires)
    /\ WF_vars(Recover)

FairSpec == Spec /\ Fairness

-----------------------------------------------------------------------------
(* Properties.                                                             *)

\* What a READY artifact promises to those who download it: the object is there,
\* it has the declared size and, if a checksum was declared, the declared content.
\* Completions race each other and PUT requests arrive late.
ReadyObjectMatches ==
    \A i \in Ids : row[i].status = "READY" =>
        /\ object[i] # Nothing
        /\ Size[object[i]] = Size[row[i].declared] /\ Size[object[i]] <= Limit[row[i].kind]
        /\ row[i].checksum => object[i] = row[i].declared

\* The output and the log of a succeeded task are READY artifacts of that kind made
\* for the task, whatever a worker names in its result, and the result of an SDK
\* worker is its own: a worker that lost its lease between its checks and
\* CompleteTask never leaves its artifacts in another's result.
ResultIsOwners ==
    task.status = "SUCCEEDED" =>
        /\ task.owner \in SdkWorkers => task.log # NoId
        /\ \A result \in {[kind |-> "output", art |-> task.out], [kind |-> "log", art |-> task.log]} :
              result.art # NoId =>
                  LET artifact == row[result.art]
                  IN  /\ artifact.status = "READY" /\ artifact.kind = result.kind /\ artifact.ofTask
                      /\ task.owner \in SdkWorkers => artifact.by = task.owner

\* An artifact transfer that fails delays the task and does not lose it: after
\* finitely many faults the task succeeds, although the worker that gave up
\* reported nothing and left its PENDING rows behind.
TaskSucceeds == <>(task.status = "SUCCEEDED" \/ ~(up \subseteq SdkWorkers))

=============================================================================
