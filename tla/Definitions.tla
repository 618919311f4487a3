----------------------------- MODULE Definitions -----------------------------
(***************************************************************************)
(* Workflow definitions: how a submitted DAG is validated                  *)
(* (internal/workflow/dag.go), versioned under concurrent callers          *)
(* (internal/storage/postgres.go CreateWorkflow, CreateVersion) and turned *)
(* into the task rows of a run (CreateRun).                                *)
(*                                                                         *)
(* A DAG is a function from task keys to task specs; depends_on is a       *)
(* sequence, as a client may repeat a key in it or name a task that is not *)
(* there.  Go's map iteration order is arbitrary: ValidateDAG is given the *)
(* order in which it ranges over the tasks.                                *)
(***************************************************************************)
EXTENDS Integers, FiniteSets, SequencesExt

CONSTANTS Callers,        \* requests being served, on any control planes
          Names,          \* workflow names
          NoName,         \* ""
          WellFormed,     \* strings that match taskKeyPattern
          MaxTasks, MaxEdges, MaxAttempts, MaxTimeout,
          Dags,           \* menus of DAGs to submit
          Deployments     \* who submits what together: [callers, menu, requests]

ASSUME DefinitionsAssumption ==
    /\ NoName \notin Names
    /\ {MaxTasks, MaxEdges, MaxAttempts, MaxTimeout} \subseteq Nat \ {0}
    /\ MaxAttempts >= 3 /\ MaxTimeout >= 300
    /\ \A d \in Deployments : d.callers \subseteq Callers /\ d.menu \in DOMAIN Dags /\ d.requests \in Nat
    /\ \A menu \in DOMAIN Dags : \A dag \in Dags[menu] : IsFiniteSet(DOMAIN dag) /\ \A key \in DOMAIN dag :
          dag[key] \in [handler : {dag[key].handler}, dependsOn : Seq(Range(dag[key].dependsOn)),
                        maximumAttempts : Int, timeoutSeconds : Int]

VARIABLES up,             \* the deployment
          definitions,    \* committed workflow_definitions
          call,           \* the request each caller is executing, and its answer
          rows,           \* task rows CreateRun wrote for a definition
          asked           \* requests so far, at most up.requests

vars == <<up, definitions, call, rows, asked>>

-----------------------------------------------------------------------------
(* ValidateDAG.                                                            *)

BudgetOK(n, max) == n >= 0 /\ n <= max

\* The loop over depends_on: no self-loop, no missing task, no repetition.
DependenciesOK(dag, key) ==
    LET deps == dag[key].dependsOn
    IN  \A i \in DOMAIN deps : /\ deps[i] # key
                               /\ deps[i] \in DOMAIN dag
                               /\ \A j \in 1..(i - 1) : deps[j] # deps[i]

TaskOK(dag, key) ==
    /\ key \in WellFormed /\ dag[key].handler \in WellFormed
    /\ BudgetOK(dag[key].maximumAttempts, MaxAttempts)
    /\ BudgetOK(dag[key].timeoutSeconds, MaxTimeout)
    /\ DependenciesOK(dag, key)

Edges(dag) == FoldSet(LAMBDA key, n : n + Len(dag[key].dependsOn), 0, DOMAIN dag)

\* The depth-first search colors a task 0 (new), 1 (on the stack) or 2 (done); the empty
\* coloring stands for the error, which every caller passes on.
Cycle == <<>>
Colorings(dag) == [DOMAIN dag -> 0..2] \cup {Cycle}

\* The loops over depends_on and over the tasks: visit one key after the other.
VisitAll(visit, keys, color) == FoldLeft(LAMBDA c, key : visit[<<key, c>>], color, keys)

\* Mutant: a task that is on the stack counts as done.
VisitOnce(dag, visit, key, color) ==
    IF color[key] # 0 THEN color
    ELSE [VisitAll(visit, dag[key].dependsOn, [color EXCEPT ![key] = 1]) EXCEPT ![key] = 2]

\* Mutant: a task that is done counts as on the stack.
VisitTwice(dag, visit, key, color) ==
    IF color = Cycle \/ color[key] # 0 THEN Cycle
    ELSE LET below == VisitAll(visit, dag[key].dependsOn, [color EXCEPT ![key] = 1])
         IN  IF below = Cycle THEN Cycle ELSE [below EXCEPT ![key] = 2]

\* One call of visit, given the function it calls.
VisitTask(dag, visit, key, color) ==
    IF color = Cycle \/ color[key] = 2 THEN color
    ELSE IF color[key] = 1 THEN Cycle
    ELSE LET below == VisitAll(visit, dag[key].dependsOn, [color EXCEPT ![key] = 1])
         IN  IF below = Cycle THEN Cycle ELSE [below EXCEPT ![key] = 2]

Visit(dag) ==
    LET visit[at \in (DOMAIN dag) \X Colorings(dag)] == VisitTask(dag, visit, at[1], at[2])
    IN  visit

NoCycle(dag, order) == VisitAll(Visit(dag), order, [key \in DOMAIN dag |-> 0]) # Cycle

ValidateDAG(dag, order) ==
    /\ DOMAIN dag # {} /\ Cardinality(DOMAIN dag) <= MaxTasks
    /\ \A key \in DOMAIN dag : TaskOK(dag, key)
    /\ Edges(dag) <= MaxEdges
    /\ NoCycle(dag, order)

-----------------------------------------------------------------------------
(* Requests.                                                               *)

Idle == [pc |-> "idle", answer |-> "none", name |-> NoName, dag |-> <<>>, version |-> 0, since |-> 0]

Init ==
    /\ up \in Deployments
    /\ definitions = {}
    /\ call = [c \in Callers |-> Idle]
    /\ rows = {}
    /\ asked = 0

VersionsOf(name) == {d.version : d \in {e \in definitions : e.name = name}}

\* The newest committed version of a name, as the query reads it; 0 for none.
Newest(name) == Max(VersionsOf(name) \cup {0})

Answers(c, answer) == call' = [call EXCEPT ![c].pc = "idle", ![c].answer = answer]

Asks(c, name, dag) ==
    call' = [call EXCEPT ![c] = [Idle EXCEPT !.pc = "named", !.name = name, !.dag = dag, !.since = Newest(name)]]

AnsweredAtOnce(c, name, dag, answer) ==
    call' = [call EXCEPT ![c] = [Idle EXCEPT !.name = name, !.dag = dag, !.answer = answer]]

\* POST /v1/workflows: an autocommitted INSERT of version 1, refused by the unique
\* index when the name is taken.
CreateWorkflow(c) ==
    /\ call[c].pc = "idle" /\ asked < up.requests /\ asked' = asked + 1
    /\ \E name \in Names \cup {NoName}, dag \in Dags[up.menu] :
       \E order \in SetToSeqs(DOMAIN dag) :
          \/ /\ ~ValidateDAG(dag, order) \/ name = NoName
             /\ AnsweredAtOnce(c, name, dag, IF name = NoName THEN "no name" ELSE "invalid")
             /\ UNCHANGED definitions
          \/ /\ ValidateDAG(dag, order) /\ name # NoName /\ 1 \in VersionsOf(name)
             /\ AnsweredAtOnce(c, name, dag, "conflict")
             /\ UNCHANGED definitions
          \/ /\ ValidateDAG(dag, order) /\ name # NoName /\ 1 \notin VersionsOf(name)
             /\ definitions' = definitions \cup {[name |-> name, version |-> 1, dag |-> dag]}
             /\ AnsweredAtOnce(c, name, dag, "created")
    /\ UNCHANGED <<up, rows>>

\* POST /v1/workflows/{id}/versions: validation, then the name of the definition.
BeginVersion(c) ==
    /\ call[c].pc = "idle" /\ asked < up.requests /\ asked' = asked + 1
    /\ \E name \in Names, dag \in Dags[up.menu] :
       \E order \in SetToSeqs(DOMAIN dag) :
          \/ ~ValidateDAG(dag, order) /\ AnsweredAtOnce(c, name, dag, "invalid")
          \/ ValidateDAG(dag, order) /\ Newest(name) = 0 /\ AnsweredAtOnce(c, name, dag, "not found")
          \/ ValidateDAG(dag, order) /\ Newest(name) # 0 /\ Asks(c, name, dag)
    /\ UNCHANGED <<up, definitions, rows>>

\* Mutant: the new version is counted from the definition of the request.
SelectGiven(c) ==
    /\ call[c].pc = "named"
    /\ \E version \in VersionsOf(call[c].name) :
          call' = [call EXCEPT ![c].pc = "waiting", ![c].version = version]
    /\ UNCHANGED <<up, definitions, rows, asked>>

\* SELECT version ... ORDER BY version DESC LIMIT 1 FOR UPDATE picks its row when
\* it starts, and then waits for the row's lock.  The row itself is never changed,
\* so a caller that waited goes on with it even when a newer version was committed.
SelectNewest(c) ==
    /\ call[c].pc = "named"
    /\ call' = [call EXCEPT ![c].pc = "waiting", ![c].version = Newest(call[c].name)]
    /\ UNCHANGED <<up, definitions, rows, asked>>

Holds(d, name, version) ==
    call[d].pc \in {"locked", "inserted"} /\ call[d].name = name /\ call[d].version = version

LockNewest(c) ==
    /\ call[c].pc = "waiting"
    /\ \A d \in Callers \ {c} : ~Holds(d, call[c].name, call[c].version)
    /\ call' = [call EXCEPT ![c].pc = "locked"]
    /\ UNCHANGED <<up, definitions, rows, asked>>

InsertedBy(d, name, version) ==
    call[d].pc = "inserted" /\ call[d].name = name /\ call[d].version + 1 = version

\* Mutant: versions are not unique.
InsertAnyVersion(c) ==
    /\ call[c].pc = "locked"
    /\ call' = [call EXCEPT ![c].pc = "inserted"]
    /\ UNCHANGED <<up, definitions, rows, asked>>

\* INSERT of version + 1 (the unique index would wait for an uncommitted row).  A
\* version that is there already is an error CreateVersion returns as it is: 500.
InsertVersion(c) ==
    /\ call[c].pc = "locked"
    /\ \A d \in Callers \ {c} : ~InsertedBy(d, call[c].name, call[c].version + 1)
    /\ IF call[c].version + 1 \in VersionsOf(call[c].name)
       THEN Answers(c, "error")
       ELSE call' = [call EXCEPT ![c].pc = "inserted"]
    /\ UNCHANGED <<up, definitions, rows, asked>>

\* The audit row is written and the transaction commits.
CommitVersion(c) ==
    /\ call[c].pc = "inserted"
    /\ definitions' = definitions \cup
          {[name |-> call[c].name, version |-> call[c].version + 1, dag |-> call[c].dag]}
    /\ Answers(c, "created")
    /\ UNCHANGED <<up, rows, asked>>

\* A statement fails, or the connection is lost: rollback.
AbortVersion(c) ==
    /\ call[c].pc \in {"named", "waiting", "locked", "inserted"}
    /\ Answers(c, "aborted")
    /\ UNCHANGED <<up, definitions, rows, asked>>

-----------------------------------------------------------------------------
(* The task rows of a run.                                                 *)

WithDefaults(spec) ==
    [spec EXCEPT !.maximumAttempts = IF @ = 0 THEN 3 ELSE @,
                 !.timeoutSeconds = IF @ = 0 THEN 300 ELSE @]

TaskRows(dag) ==
    [key \in DOMAIN dag |->
        LET spec == WithDefaults(dag[key])
        IN  [status |-> IF spec.dependsOn = <<>> THEN "READY" ELSE "BLOCKED",
             upstream |-> {spec.dependsOn[i] : i \in DOMAIN spec.dependsOn},
             maximumAttempts |-> spec.maximumAttempts,
             timeoutSeconds |-> spec.timeoutSeconds]]

\* CreateRun, as far as it uses the definition.
StartRun(d) ==
    /\ rows' = rows \cup {TaskRows(d.dag)}
    /\ UNCHANGED <<up, definitions, call, asked>>

Next ==
    \/ \E c \in up.callers :
          \/ CreateWorkflow(c) \/ BeginVersion(c) \/ SelectNewest(c) \/ LockNewest(c)
          \/ InsertVersion(c) \/ CommitVersion(c) \/ AbortVersion(c)
    \/ \E d \in definitions : StartRun(d)

Spec == Init /\ [][Next]_vars

-----------------------------------------------------------------------------
(* Properties.                                                             *)

\* A definition has one DAG for each version, and its versions are numbered without
\* gaps, whatever CreateWorkflow and CreateVersion requests race or fail.
VersionsContiguous ==
    \A name \in Names :
        /\ VersionsOf(name) = 1..Newest(name)
        /\ Cardinality({d \in definitions : d.name = name}) = Newest(name)

\* CreateVersion answers 500 only to a caller that lost a race: somebody else's
\* version was committed after it had begun.
ErrorsAreLostRaces ==
    \A c \in Callers : call[c].answer = "error" => Newest(call[c].name) > call[c].since

\* The reference for the depth-first search: tasks can be ranked so that each
\* comes after what it depends on.
Ranked(dag) ==
    \E rank \in [DOMAIN dag -> 1..Cardinality(DOMAIN dag)] :
        \A key \in DOMAIN dag : \A dep \in Range(dag[key].dependsOn) :
            dep \in DOMAIN dag /\ rank[dep] < rank[key]

\* A DAG that can be run: ranked tasks, well-formed, within the limits and without
\* repeated dependencies.
Runnable(dag) ==
    /\ Ranked(dag) /\ DOMAIN dag # {}
    /\ Cardinality(DOMAIN dag) <= MaxTasks /\ Edges(dag) <= MaxEdges
    /\ \A key \in DOMAIN dag : /\ {key, dag[key].handler} \subseteq WellFormed
                              /\ dag[key].maximumAttempts \in 0..MaxAttempts
                              /\ dag[key].timeoutSeconds \in 0..MaxTimeout
                              /\ IsInjective(dag[key].dependsOn)

\* ValidateDAG refuses only a DAG that cannot be run, whatever order Go visits the
\* tasks in.
RefusedOnlyUnrunnable ==
    \A c \in Callers : call[c].answer = "invalid" => ~Runnable(call[c].dag)

\* Completing tasks in the order the engine unlocks them: a task can run once its
\* upstream tasks are done.
DoneFrom(table, first) ==
    LET from[done \in SUBSET DOMAIN table] ==
            LET more == {key \in DOMAIN table : table[key].upstream \subseteq done}
            IN  IF more \subseteq done THEN done ELSE from[done \cup more]
    IN  from[first]

\* Every task of a run waits for other tasks of the run, is READY exactly when it
\* waits for none, and has at least one attempt and one second.
TasksCanRun(table) ==
    \A key \in DOMAIN table : /\ table[key].maximumAttempts \in 1..MaxAttempts
                              /\ table[key].timeoutSeconds \in 1..MaxTimeout
                              /\ table[key].upstream \subseteq DOMAIN table \ {key}
                              /\ table[key].status = "READY" <=> table[key].upstream = {}

\* A run created from a stored definition can be executed to its end: its tasks can
\* run, and success of the READY tasks unlocks all the others.
RunsCanFinish ==
    \A table \in rows :
        /\ TasksCanRun(table)
        /\ DoneFrom(table, {key \in DOMAIN table : table[key].status = "READY"}) = DOMAIN table

=============================================================================
