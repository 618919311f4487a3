----------------------------- MODULE Submission ------------------------------
(***************************************************************************)
(* How runs come to exist (internal/storage/postgres.go CreateRun,         *)
(* internal/api/server.go, internal/scheduler/scheduler.go fireSchedules). *)
(*                                                                         *)
(* CreateRun is one READ COMMITTED transaction that several control planes *)
(* and schedulers run at once.  It locks the input artifact, reads the     *)
(* definition, inserts the run with ON CONFLICT DO NOTHING, attaches the   *)
(* artifact, writes tasks, event and audit row, and commits.  Two waits    *)
(* order the callers: the row lock on an artifact, and the unique index on *)
(* the idempotency key, at which an INSERT waits for another transaction's *)
(* uncommitted row of the same key.                                        *)
(*                                                                         *)
(* fireSchedules advances next_execution_at of the due schedules and       *)
(* commits; only then it calls CreateRun for each of them, with a key made *)
(* of the schedule and the due time.                                       *)
(***************************************************************************)
EXTENDS Naturals

CONSTANTS Clients,        \* HTTP callers of createRun, one request each at a time
          Schedulers,     \* scheduler processes
          ClientKeys,     \* values of the Idempotency-Key header
          Definitions,    \* workflow definitions of the tenant
          Unknown,        \* a definition, or an artifact, that is not there
          Artifacts,      \* READY input artifacts
          NoArtifact,     \* no input_artifact_id was given
          RunIds,         \* identifiers gen_random_uuid() returns
          NoRun,          \* NULL in workflow_run_id, and the run of a refused call
          Schedules,      \* rows of schedules
          Period,         \* minutes between two times of the cron expression
          Edited,         \* the schedules somebody patches or deletes
          PatchTimes,     \* times they are moved to
          MaxTime,        \* bound on the clock, in minutes
          MaxFaults,      \* bound on crashes and failing statements
          Deployments     \* callers, and schedules, that are there together

ASSUME SubmissionAssumption ==
    /\ Period \in Nat \ {0} /\ MaxTime \in Nat /\ MaxFaults \in Nat
    /\ Edited \subseteq Schedules /\ PatchTimes \subseteq 0..MaxTime
    /\ Unknown \notin Definitions \cup Artifacts
    /\ NoArtifact \notin Artifacts \cup {Unknown}
    /\ NoRun \notin RunIds
    /\ Clients \cap Schedulers = {}
    /\ Deployments \subseteq SUBSET (Clients \cup Schedulers \cup Schedules)

Callers == Clients \cup Schedulers
Times == 0..(MaxTime + Period)
Occurrences == Schedules \X Times       \* "schedule:<id>:<due time>"
Keys == ClientKeys \cup Occurrences
Policies == {"skip", "catch_up_once"}

VARIABLES up,         \* the deployment: the callers and schedules that exist
          runs,       \* committed workflow_runs
          attached,   \* artifacts.workflow_run_id, NoRun for NULL
          call,       \* CreateRun as each caller executes it
          answers,    \* what clients were answered
          schedule,   \* rows of schedules
          batch,      \* per scheduler, the occurrences it has taken and not submitted
          taken,      \* occurrences some fireSchedules has committed (history)
          now,        \* minutes
          faults      \* crashes and failures so far

vars == <<up, runs, attached, call, answers, schedule, batch, taken, now, faults>>

Idle == [pc |-> "idle", key |-> Unknown, def |-> Unknown, art |-> NoArtifact]
NoSchedule == [row |-> "none", enabled |-> FALSE, next |-> 0, policy |-> "skip", def |-> Unknown]

Init ==
    /\ up \in Deployments
    /\ runs = {}
    /\ attached = [a \in Artifacts |-> NoRun]
    /\ call = [c \in Callers |-> Idle]
    /\ answers = {}
    /\ schedule = [s \in Schedules |-> NoSchedule]
    /\ batch = [c \in Schedulers |-> {}]
    /\ taken = {}
    /\ now = 0
    /\ faults = 0

-----------------------------------------------------------------------------
(* CreateRun.                                                              *)

Begins(c, key, def, art) ==
    call' = [call EXCEPT ![c] = [pc |-> "begun", key |-> key, def |-> def, art |-> art]]

\* POST /v1/workflows/{id}/runs.  A client may repeat a key, with the same
\* request or with another one.
Submit(c) ==
    /\ c \in up \cap Clients /\ call[c].pc = "idle"
    /\ \E key \in ClientKeys, def \in Definitions \cup {Unknown},
          art \in Artifacts \cup {NoArtifact, Unknown} : Begins(c, key, def, art)
    /\ UNCHANGED <<up, runs, attached, answers, schedule, batch, taken, now, faults>>

\* Mutant: a schedule disabled meanwhile is passed over, and its occurrence with it.
SubmitEnabledOccurrence(c) ==
    /\ c \in up \cap Schedulers /\ call[c].pc = "idle"
    /\ \E o \in batch[c] :
          /\ schedule[o[1]].enabled
          /\ Begins(c, o, schedule[o[1]].def, NoArtifact)
    /\ UNCHANGED <<up, runs, attached, answers, schedule, batch, taken, now, faults>>

\* fireSchedules submits the occurrences it has taken, earliest first.
SubmitOccurrence(c) ==
    /\ c \in up \cap Schedulers /\ call[c].pc = "idle"
    /\ \E o \in batch[c] :
          /\ \A other \in batch[c] : o[2] <= other[2]
          /\ Begins(c, o, schedule[o[1]].def, NoArtifact)
    /\ UNCHANGED <<up, runs, attached, answers, schedule, batch, taken, now, faults>>

\* Mutant: fireSchedules returns after the first occurrence.
ReturnsAfterFirst(c, result, run) ==
    /\ call' = [call EXCEPT ![c] = Idle]
    /\ batch' = IF c \in Schedulers THEN [batch EXCEPT ![c] = {}] ELSE batch
    /\ UNCHANGED <<up, answers, schedule, taken, now>>

\* CreateRun returns.  A client is answered.  fireSchedules goes on to the next
\* occurrence after a run (new or old) or ErrConflict; any other error ends it,
\* and with it the occurrences it had still to submit.
Returns(c, result, run) ==
    /\ call' = [call EXCEPT ![c] = Idle]
    /\ answers' = IF c \in Clients /\ result \in {"run", "conflict"}
                  THEN answers \cup {[key |-> call[c].key, run |-> run,
                                      refused |-> IF result = "conflict" THEN call[c].art ELSE NoArtifact]}
                  ELSE answers
    /\ batch' = IF c \notin Schedulers THEN batch
                ELSE [batch EXCEPT ![c] = IF result \in {"run", "conflict"}
                                          THEN @ \ {call[c].key} ELSE {}]
    /\ UNCHANGED <<up, schedule, taken, now>>

\* The rows open transactions hold.
ArtifactLocked(c, a) ==
    \E d \in Callers \ {c} : call[d].pc \in {"locked", "inserted"} /\ call[d].art = a

KeyInserted(c, k) == \E d \in Callers \ {c} : call[d].pc = "inserted" /\ call[d].key = k

\* Mutant: an attached artifact is refused before the key is looked at.
LockFreeArtifact(c) ==
    /\ call[c].pc = "begun" /\ call[c].art # Unknown
    /\ UNCHANGED <<runs, attached, faults>>
    /\ IF call[c].art # NoArtifact /\ attached[call[c].art] # NoRun
       THEN Returns(c, "conflict", NoRun)
       ELSE /\ call' = [call EXCEPT ![c].pc = "locked"]
            /\ UNCHANGED <<up, answers, schedule, batch, taken, now>>

\* SELECT ... status='READY' FOR UPDATE.
LockArtifact(c) ==
    /\ call[c].pc = "begun"
    /\ UNCHANGED <<runs, attached, faults>>
    /\ \/ /\ call[c].art = Unknown
          /\ Returns(c, "not found", NoRun)
       \/ /\ call[c].art # Unknown
          /\ call[c].art # NoArtifact => ~ArtifactLocked(c, call[c].art)
          /\ call' = [call EXCEPT ![c].pc = "locked"]
          /\ UNCHANGED <<up, answers, schedule, batch, taken, now>>

RunsOf(k) == {run \in runs : run.key = k}

\* Mutant: the key is looked up, then the run inserted, without the unique index.
InsertWithoutWait(c) ==
    /\ RunsOf(call[c].key) = {}
    /\ call' = [call EXCEPT ![c].pc = "inserted"]
    /\ UNCHANGED <<up, answers, schedule, batch, taken, now>>

\* INSERT ... ON CONFLICT DO NOTHING put a row in.
Inserted(c) ==
    /\ RunsOf(call[c].key) = {} /\ ~KeyInserted(c, call[c].key)
    /\ call' = [call EXCEPT ![c].pc = "inserted"]
    /\ UNCHANGED <<up, answers, schedule, batch, taken, now>>

\* It put none in: the run that has the key is read and returned.
ExistingRun(c) ==
    \E run \in RunsOf(call[c].key) : Returns(c, "run", run.id)

\* Mutant: the definition is not looked up.
InsertAnyDefinition(c) ==
    /\ call[c].pc = "locked"
    /\ UNCHANGED <<runs, attached, faults>>
    /\ Inserted(c) \/ ExistingRun(c)

\* The definition is read and the run inserted.
InsertRun(c) ==
    /\ call[c].pc = "locked"
    /\ UNCHANGED <<runs, attached, faults>>
    /\ \/ call[c].def = Unknown /\ Returns(c, "not found", NoRun)
       \/ call[c].def # Unknown /\ (Inserted(c) \/ ExistingRun(c))

FreshIds == RunIds \ {run.id : run \in runs}

NewId == CHOOSE id \in FreshIds : TRUE

\* Mutant: the UPDATE lacks workflow_run_id IS NULL.
AlwaysFree(a) == TRUE

Free(a) == a # NoArtifact => attached[a] = NoRun

\* UPDATE artifacts ... WHERE workflow_run_id IS NULL changed no row.
AttachRefused(c) ==
    /\ call[c].pc = "inserted" /\ ~Free(call[c].art)
    /\ Returns(c, "conflict", NoRun)
    /\ UNCHANGED <<runs, attached, faults>>

\* The artifact is attached, tasks, dependencies, event and audit row are
\* written, and the transaction commits.
Stored(c) ==
    LET id == NewId
    IN  /\ call[c].pc = "inserted" /\ Free(call[c].art) /\ FreshIds # {}
        /\ runs' = runs \cup {[id |-> id, key |-> call[c].key, def |-> call[c].def, art |-> call[c].art]}
        /\ attached' = [a \in Artifacts |-> IF a = call[c].art THEN id ELSE attached[a]]

Commit(c) ==
    /\ Stored(c)
    /\ Returns(c, "run", NewId)
    /\ UNCHANGED faults

\* The connection is lost after the commit took effect: an error is returned.
CommitUnanswered(c) ==
    /\ faults < MaxFaults /\ faults' = faults + 1
    /\ Stored(c)
    /\ Returns(c, "error", NoRun)

\* A statement fails, or the process dies, inside the transaction: rollback.  A
\* scheduler may also die between two calls.
Aborts(c) ==
    /\ faults < MaxFaults /\ faults' = faults + 1
    /\ c \in up
    /\ call[c].pc # "idle" \/ (c \in Schedulers /\ batch[c] # {})
    /\ Returns(c, "error", NoRun)
    /\ UNCHANGED <<runs, attached>>

-----------------------------------------------------------------------------
(* Schedules.                                                              *)

\* The cron expression: the first multiple of Period after t.
NextTime(t) == (t \div Period + 1) * Period

\* POST /v1/schedules.  next_execution_at is given or computed; an id is used once.
CreateSchedule(s) ==
    /\ s \in up /\ schedule[s].row = "none"
    /\ \E policy \in Policies, next \in {NextTime(now), now}, def \in Definitions :
          schedule' = [schedule EXCEPT ![s] = [row |-> "there", enabled |-> TRUE, next |-> next,
                                               policy |-> policy, def |-> def]]
    /\ UNCHANGED <<up, runs, attached, call, answers, batch, taken, now, faults>>

\* PATCH /v1/schedules/{id}: either field, or both; the time may be moved back.
PatchSchedule(s) ==
    /\ schedule[s].row = "there"
    /\ \E enabled \in BOOLEAN, next \in {schedule[s].next} \cup PatchTimes :
          schedule' = [schedule EXCEPT ![s] = [@ EXCEPT !.enabled = enabled, !.next = next]]
    /\ UNCHANGED <<up, runs, attached, call, answers, batch, taken, now, faults>>

\* DELETE /v1/schedules/{id}.
DeleteSchedule(s) ==
    /\ schedule[s].row = "there"
    /\ schedule' = [schedule EXCEPT ![s] = [@ EXCEPT !.row = "deleted", !.enabled = FALSE]]
    /\ UNCHANGED <<up, runs, attached, call, answers, batch, taken, now, faults>>

\* Mutant: a schedule is fired a minute early.
DueNextMinute == {s \in Schedules : schedule[s].enabled /\ schedule[s].next <= now + 1}

Due == {s \in Schedules : schedule[s].row = "there" /\ schedule[s].enabled /\ schedule[s].next <= now}

\* The time after which the next occurrence is looked for: a "skip" schedule more
\* than a minute late goes on from now, any other from the time that was due.
Base(s) == IF schedule[s].policy = "skip" /\ now > schedule[s].next + 1
           THEN now ELSE schedule[s].next

\* The committed part of fireSchedules: some of the due rows (SKIP LOCKED leaves
\* out those another transaction holds).  An UPDATE of the loop
\* that fails rolls all of it back and ends the tick, which leaves this state as it
\* was.
FireSchedules(c) ==
    /\ c \in up \cap Schedulers /\ call[c].pc = "idle" /\ batch[c] = {}
    /\ \E due \in SUBSET Due \ {{}} :
          /\ batch' = [batch EXCEPT ![c] = {<<s, schedule[s].next>> : s \in due}]
          /\ taken' = taken \cup {<<s, schedule[s].next>> : s \in due}
          /\ schedule' = [s \in Schedules |->
                             IF s \in due THEN [schedule[s] EXCEPT !.next = NextTime(Base(s))] ELSE schedule[s]]
    /\ UNCHANGED <<up, runs, attached, call, answers, now, faults>>

\* Only schedules look at the clock.
Minute ==
    /\ Schedules \cap up # {} /\ now < MaxTime /\ now' = now + 1
    /\ UNCHANGED <<up, runs, attached, call, answers, schedule, batch, taken, faults>>

-----------------------------------------------------------------------------
Steps(c) == \/ LockArtifact(c) \/ InsertRun(c) \/ AttachRefused(c) \/ Commit(c) \/ SubmitOccurrence(c)

Next ==
    \/ \E c \in Callers : \/ Steps(c) \/ Submit(c) \/ CommitUnanswered(c) \/ Aborts(c)
    \/ \E c \in Schedulers : FireSchedules(c)
    \/ \E s \in Schedules : CreateSchedule(s)
    \/ \E s \in Edited : PatchSchedule(s) \/ DeleteSchedule(s)
    \/ Minute

Spec == Init /\ [][Next]_vars

\* fireSchedules goes through its loop, and PostgreSQL grants a lock that is free.
\* Nothing is assumed of clients, nor that FireSchedules ever succeeds.
Fairness == \A c \in Schedulers : WF_vars(Steps(c))

FairSpec == Spec /\ Fairness

-----------------------------------------------------------------------------
(* Properties.                                                             *)

\* Types of the rows, of the calls under way and of the answers.
TypeOK ==
    /\ up \in Deployments
    /\ runs \subseteq [id : RunIds, key : Keys, def : Definitions, art : Artifacts \cup {NoArtifact}]
    /\ attached \in [Artifacts -> RunIds \cup {NoRun}]
    /\ call \in [Callers -> [pc : {"idle", "begun", "locked", "inserted"}, key : Keys \cup {Unknown},
                            def : Definitions \cup {Unknown}, art : Artifacts \cup {NoArtifact, Unknown}]]
    /\ answers \subseteq [key : ClientKeys, run : RunIds \cup {NoRun}, refused : Artifacts \cup {NoArtifact}]
    /\ schedule \in [Schedules -> [row : {"none", "there", "deleted"}, enabled : BOOLEAN, next : Nat,
                                   policy : Policies, def : Definitions \cup {Unknown}]]
    /\ batch \in [Schedulers -> SUBSET Occurrences]
    /\ taken \subseteq Occurrences
    /\ now \in 0..MaxTime /\ faults \in 0..MaxFaults

Registry == INSTANCE RunRegistry WITH
    Key <- Keys, Run <- RunIds,
    registered <- {<<run.key, run.id>> : run \in runs},
    answered <- {<<a.key, a.run>> : a \in {b \in answers : b.run # NoRun}}

\* CreateRun implements the registry: whatever callers do at once, a key gets one
\* run, the run of a key never changes, and all answers to it name that run.
ImplementsRegistry == Registry!RegistrySpec

\* An input artifact and the run that was created with it name each other: no two
\* runs share one, and none is attached to a run that was rolled back
\* (UPDATE artifacts ... workflow_run_id IS NULL inside CreateRun).
ArtifactNamesItsRun ==
    /\ \A run \in runs : run.art # NoArtifact => attached[run.art] = run.id
    /\ \A a \in Artifacts : attached[a] # NoRun => \E run \in runs : run.id = attached[a] /\ run.art = a

\* Repeating a submission is never refused because of the artifact its first
\* execution attached: a conflict means that the artifact is another key's.
ConflictIsAnotherKeys ==
    \A a \in answers : a.refused # NoArtifact =>
        \E run \in runs : run.art = a.refused /\ run.key # a.key

\* fireSchedules loses an occurrence only through a crash or a failing call: until
\* then each one it has advanced past has its run or is still to be submitted,
\* also when the schedule is moved, disabled or deleted meanwhile.
OccurrenceKept ==
    faults = 0 => \A o \in taken : RunsOf(o) # {} \/ \E c \in Schedulers : o \in batch[c]

\* A schedule moved back runs nothing twice and nothing early: the runs of
\* schedules are those of distinct occurrences that were due.
OccurrenceRunsOnce ==
    \A run \in runs : run.key \in Occurrences =>
        run.key \in taken /\ run.key[2] <= now /\ RunsOf(run.key) = {run}

\* Without a fault every occurrence fireSchedules takes becomes a run: again and
\* again the schedulers catch up with what they have taken.
TakenIsRun == []<>(faults > 0 \/ \A o \in taken : RunsOf(o) # {})

=============================================================================
