------------------------- MODULE DefinitionsProofs -------------------------
(***************************************************************************)
(* Proofs about workflow definitions, for any callers, names, menus of     *)
(* DAGs and limits: how versions are numbered when CreateWorkflow and      *)
(* CreateVersion race, and that validation lets in exactly the DAGs whose  *)
(* runs can finish (with ValidationProofs).                                *)
(***************************************************************************)
EXTENDS ValidationProofs

\* A step that names no prover is tried by the SMT solver, then by Zenon, with time to spare.
USE SMTT(60), ZenonT(20)

AllDags == UNION {Dags[menu] : menu \in DOMAIN Dags}

Definition == [name : Names, version : Nat, dag : AllDags]

Call ==
    [pc : {"idle", "named", "waiting", "locked", "inserted"},
     answer : {"none", "no name", "invalid", "conflict", "created", "not found", "error", "aborted"},
     name : Names \cup {NoName}, dag : AllDags \cup {<<>>}, version : Nat, since : Nat]

Typed ==
    /\ up \in Deployments
    /\ definitions \subseteq Definition
    /\ call \in [Callers -> Call]

Rows(name) == {d \in definitions : d.name = name}

\* The versions of a name are numbered from 1, one row each.
Numbered(name) ==
    /\ Newest(name) \in Nat /\ VersionsOf(name) = 1..Newest(name)
    /\ IsFiniteSet(Rows(name)) /\ Cardinality(Rows(name)) = Newest(name)

\* A DAG that has passed validation.
Checked(dag) == dag \in AllDags /\ Runnable(dag)

\* All that holds of a request r: the version it read was the newest when it began or later, an
\* uncommitted version is the next one, an error is a race it lost, and a DAG that was refused
\* cannot be run.
CallOK(r) ==
    /\ r.pc # "idle" => r.name \in Names /\ Checked(r.dag) /\ r.answer = "none"
    /\ r.pc = "named" => 1 <= Newest(r.name) /\ r.since <= Newest(r.name)
    /\ r.pc \in {"waiting", "locked", "inserted"} =>
          1 <= r.version /\ r.version <= Newest(r.name) /\ r.since <= r.version
    /\ r.pc = "inserted" => r.version = Newest(r.name)
    /\ r.answer = "error" => r.since < Newest(r.name)
    /\ r.answer = "invalid" => ~Runnable(r.dag)

\* At most one transaction has an uncommitted version of a name.
OneInserts ==
    \A c, d \in Callers :
        call[c].pc = "inserted" /\ call[d].pc = "inserted" /\ call[c].name = call[d].name => c = d

\* The inductive invariant.
DInv ==
    /\ Typed
    /\ \A name \in Names \cup {NoName} : Numbered(name)
    /\ \A c \in Callers : CallOK(call[c])
    /\ OneInserts
    /\ \A d \in definitions : Checked(d.dag)
    /\ RunsCanFinish

-----------------------------------------------------------------------------
(* Versions                                                                *)

\* The greatest of 0..n.
LEMMA MaxOfRange ==
    ASSUME NEW n \in Nat
    PROVE  Max((1..n) \cup {0}) = n
<1>1. n \in (1..n) \cup {0} /\ \A y \in (1..n) \cup {0} : n >= y
  OBVIOUS
<1>2. Max((1..n) \cup {0}) = CHOOSE x \in (1..n) \cup {0} : \A y \in (1..n) \cup {0} : x >= y
  BY DEF Max
<1>3. PICK m : m = Max((1..n) \cup {0})
  OBVIOUS
<1>4. m \in (1..n) \cup {0} /\ \A y \in (1..n) \cup {0} : m >= y
  BY <1>1, <1>2, <1>3
<1>5. m \in Int /\ m >= n /\ n >= m
  BY <1>1, <1>4
<1> QED
  BY <1>3, <1>5

\* Nothing happens to the definitions.
LEMMA SameDefinitions ==
    ASSUME definitions' = definitions, NEW name
    PROVE  Newest(name)' = Newest(name) /\ (Numbered(name) => Numbered(name)')
BY DEF Newest, VersionsOf, Numbered, Rows

LEMMA SameCall ==
    ASSUME definitions' = definitions, NEW r, CallOK(r)
    PROVE  CallOK(r)'
<1>1. Newest(r.name)' = Newest(r.name)
  BY SameDefinitions
<1> QED
  BY <1>1 DEF CallOK

\* The next version of a name is committed.
LEMMA AddsVersion ==
    ASSUME Typed, \A x \in Names \cup {NoName} : Numbered(x),
           NEW name \in Names, NEW v, v = Newest(name) + 1, NEW dag \in AllDags,
           definitions' = definitions \cup {[name |-> name, version |-> v, dag |-> dag]}
    PROVE  /\ definitions' \subseteq Definition
           /\ \A x \in Names \cup {NoName} : Numbered(x)'
           /\ Newest(name)' = v
           /\ \A x \in Names \cup {NoName} : x # name => Newest(x)' = Newest(x)
<1> DEFINE d == [name |-> name, version |-> v, dag |-> dag]
<1>1. PICK n \in Nat : n = Newest(name) /\ VersionsOf(name) = 1..n /\ v = n + 1
  BY DEF Numbered
<1>2. d \in Definition /\ d.name = name /\ d.version = v
  BY <1>1 DEF Definition
<1> HIDE DEF d
<1>3. definitions' = definitions \cup {d}
  BY DEF d
<1>4. definitions' \subseteq Definition
  BY <1>2, <1>3 DEF Typed
<1>5. Rows(name)' = Rows(name) \cup {d} /\ VersionsOf(name)' = VersionsOf(name) \cup {v}
  BY <1>2, <1>3 DEF Rows, VersionsOf
<1>6. d \notin Rows(name)
  <2>1. v \notin VersionsOf(name)
    BY <1>1
  <2> QED
    BY <1>2, <2>1 DEF Rows, VersionsOf
<1>7. VersionsOf(name)' = 1..v
  <2>1. 1..v = (1..n) \cup {v}
    BY <1>1
  <2> QED
    BY <1>1, <1>5, <2>1
<1>8. Newest(name)' = v
  <2>1. v \in Nat
    BY <1>1
  <2>2. Newest(name)' = Max((1..v) \cup {0})
    BY <1>7 DEF Newest
  <2> QED
    BY <2>1, <2>2, MaxOfRange
<1>9. IsFiniteSet(Rows(name)') /\ Cardinality(Rows(name)') = v
  <2>1. IsFiniteSet(Rows(name)) /\ Cardinality(Rows(name)) = n
    BY <1>1 DEF Numbered
  <2> QED
    BY <1>1, <1>5, <1>6, <2>1, FS_AddElement
<1>10. Numbered(name)'
  BY <1>1, <1>7, <1>8, <1>9 DEF Numbered
<1>11. ASSUME NEW x \in Names \cup {NoName}, x # name
       PROVE  Newest(x)' = Newest(x) /\ Numbered(x)'
  <2>1. Rows(x)' = Rows(x) /\ VersionsOf(x)' = VersionsOf(x)
    BY <1>2, <1>3, <1>11 DEF Rows, VersionsOf
  <2>2. Newest(x)' = Newest(x)
    BY <2>1 DEF Newest
  <2>3. Numbered(x)
    OBVIOUS
  <2> QED
    BY <2>1, <2>2, <2>3 DEF Numbered
<1> QED
  BY <1>4, <1>8, <1>10, <1>11

-----------------------------------------------------------------------------
(* Requests                                                                *)

\* The request of c becomes r; no version is committed.
LEMMA CallStep ==
    ASSUME DInv, NEW c \in Callers, NEW r \in Call, CallOK(r), call' = [call EXCEPT ![c] = r],
           r.pc = "inserted" => \A d \in Callers \ {c} : ~(call[d].pc = "inserted" /\ call[d].name = r.name),
           UNCHANGED <<up, definitions, rows>>
    PROVE  DInv'
<1>1. Typed' /\ call \in [Callers -> Call]
  BY DEF DInv, Typed
<1>2. ASSUME NEW name \in Names \cup {NoName} PROVE Numbered(name)'
  BY SameDefinitions DEF DInv
<1>3. ASSUME NEW d \in Callers PROVE CallOK(call[d])'
  <2>1. PICK s : s = call'[d] /\ CallOK(s)
    BY <1>1 DEF DInv
  <2>2. CallOK(s)'
    BY <2>1, SameCall
  <2> QED
    BY <2>1, <2>2
<1>4. OneInserts'
  BY <1>1 DEF DInv, OneInserts
<1>5. ASSUME NEW d \in definitions PROVE Checked(d.dag)'
  BY DEF DInv
<1>6. RunsCanFinish'
  BY DEF DInv, RunsCanFinish
<1> QED
  BY <1>1, <1>2, <1>3, <1>4, <1>5, <1>6 DEF DInv

\* A version is committed, and the request of c, which has ended, becomes r.
LEMMA CommitStep ==
    ASSUME DInv, NEW c \in Callers, NEW r \in Call, r.pc = "idle", CallOK(r), r.answer # "error",
           call' = [call EXCEPT ![c] = r],
           NEW name \in Names, NEW dag, Checked(dag), NEW v, v = Newest(name) + 1,
           definitions' = definitions \cup {[name |-> name, version |-> v, dag |-> dag]},
           \A d \in Callers \ {c} : ~(call[d].pc = "inserted" /\ call[d].name = name),
           UNCHANGED <<up, rows>>
    PROVE  DInv'
<1>1. Typed /\ call \in [Callers -> Call] /\ (\A x \in Names \cup {NoName} : Numbered(x)) /\ dag \in AllDags
  BY DEF DInv, Typed, Checked
<1>2. /\ definitions' \subseteq Definition
      /\ \A x \in Names \cup {NoName} : Numbered(x)'
      /\ Newest(name)' = v
      /\ \A x \in Names \cup {NoName} : x # name => Newest(x)' = Newest(x)
  BY <1>1, AddsVersion
<1>3. \A x \in Names \cup {NoName} : Newest(x) \in Nat /\ Newest(x)' \in Nat /\ Newest(x)' >= Newest(x)
  BY <1>1, <1>2 DEF Numbered
<1>4. Typed'
  BY <1>1, <1>2 DEF Typed
<1>5. ASSUME NEW d \in Callers PROVE CallOK(call[d])'
  <2>1. CASE d = c
    <3>1. call'[d] = r
      BY <1>1, <2>1
    <3> QED
      BY <3>1 DEF CallOK
  <2>2. CASE d # c
    <3>1. PICK s \in Call : s = call'[d] /\ s = call[d] /\ CallOK(s)
      BY <1>1, <2>2 DEF DInv
    <3>2. s.name \in Names \cup {NoName} /\ s.version \in Nat /\ s.since \in Nat
      BY <3>1, Zenon DEF Call
    <3>3. PICK m \in Nat, n \in Nat : m = Newest(s.name) /\ n = Newest(s.name)' /\ n >= m
      BY <1>3, <3>2
    <3>4. s.pc = "inserted" => m = n
      BY <1>2, <2>2, <3>1, <3>2, <3>3
    <3>5. (Checked(s.dag) => Checked(s.dag)') /\ (~Runnable(s.dag) => ~Runnable(s.dag)')
      OBVIOUS
    <3>6. CallOK(s)'
      BY <3>1, <3>2, <3>3, <3>4, <3>5 DEF CallOK
    <3> QED
      BY <3>1, <3>6
  <2> QED
    BY <2>1, <2>2
<1>6. OneInserts'
  BY <1>1 DEF DInv, OneInserts
<1>7. ASSUME NEW d \in definitions' PROVE Checked(d.dag)'
  <2>1. Checked(d.dag)
    BY <1>7 DEF DInv
  <2> QED
    BY <2>1
<1>8. RunsCanFinish'
  BY DEF DInv, RunsCanFinish
<1> QED
  BY <1>2, <1>4, <1>5, <1>6, <1>7, <1>8 DEF DInv

\* A request that has been answered.
LEMMA AnswersStep ==
    ASSUME DInv, NEW c \in Callers, NEW answer \in {"aborted", "error"}, Answers(c, answer),
           call[c].pc # "idle",
           answer = "error" => call[c].since < Newest(call[c].name), UNCHANGED <<up, definitions, rows>>
    PROVE  DInv'
<1> DEFINE r == [[call[c] EXCEPT !.pc = "idle"] EXCEPT !.answer = answer]
<1>1. call \in [Callers -> Call] /\ call[c] \in Call /\ CallOK(call[c])
  BY DEF DInv, Typed
<1>2. call' = [call EXCEPT ![c] = r]
  BY <1>1, Zenon DEF Answers
<1>3. /\ r \in Call /\ r.pc = "idle" /\ r.answer = answer /\ r.name = call[c].name /\ r.since = call[c].since
  BY <1>1, Zenon DEF Call
<1> HIDE DEF r
<1>4. CallOK(r)
  BY <1>3 DEF CallOK
<1> QED
  BY <1>2, <1>3, <1>4, CallStep, Zenon

\* A request that moves on to another step of its transaction, with the version it has read.
LEMMA MovesStep ==
    ASSUME DInv, NEW c \in Callers, call[c].pc # "idle",
           NEW pc \in {"waiting", "locked", "inserted"}, NEW version \in Nat, NEW r,
           r = [[call[c] EXCEPT !.pc = pc] EXCEPT !.version = version], call' = [call EXCEPT ![c] = r],
           1 <= version, version <= Newest(call[c].name), call[c].since <= version,
           pc = "inserted" =>
              /\ version = Newest(call[c].name)
              /\ \A d \in Callers \ {c} : ~(call[d].pc = "inserted" /\ call[d].name = call[c].name),
           UNCHANGED <<up, definitions, rows>>
    PROVE  DInv'
<1>1. call[c] \in Call /\ CallOK(call[c])
  BY DEF DInv, Typed
<1>2. /\ r \in Call /\ r.pc = pc /\ r.answer = call[c].answer /\ r.name = call[c].name /\ r.dag = call[c].dag
      /\ r.since = call[c].since /\ r.version = version
  BY <1>1, Zenon DEF Call
<1>3. CallOK(r)
  BY <1>1, <1>2 DEF CallOK
<1> QED
  BY <1>2, <1>3, CallStep, Zenon

\* A DAG of the deployment's menu is accepted only if it can be run, and refused only if it cannot.
LEMMA ValidIsChecked ==
    ASSUME Typed, NEW dag \in Dags[up.menu]
    PROVE  /\ dag \in AllDags
           /\ \A order \in SetToSeqs(DOMAIN dag) : ValidateDAG(dag, order) <=> Checked(dag)
<1>1. up.menu \in DOMAIN Dags
  BY DefinitionsAssumption DEF Typed
<1>2. dag \in AllDags
  BY <1>1 DEF AllDags
<1>3. Decoded(dag)
  BY <1>1, DefinitionsAssumption, Zenon DEF Decoded
<1> QED
  BY <1>2, <1>3, ValidationIsExact, Zenon DEF Checked

LEMMA IdleIsCall ==
    Idle \in Call /\ Idle.pc = "idle" /\ Idle.answer = "none"
BY DEF Idle, Call

\* A request that is answered without a transaction.
LEMMA AtOnceStep ==
    ASSUME DInv, NEW c \in Callers, NEW name \in Names \cup {NoName}, NEW dag \in AllDags,
           NEW answer \in {"no name", "invalid", "conflict", "created", "not found"},
           answer = "invalid" => ~Runnable(dag), AnsweredAtOnce(c, name, dag, answer)
    PROVE  \E r \in Call : /\ r.pc = "idle" /\ r.answer # "error" /\ CallOK(r)
                           /\ call' = [call EXCEPT ![c] = r]
<1> DEFINE a == [Idle EXCEPT !.name = name]
           b == [a EXCEPT !.dag = dag]
           r == [b EXCEPT !.answer = answer]
<1>1. a \in Call /\ a.pc = "idle"
  BY IdleIsCall, Zenon DEF Call
<1>2. b \in Call /\ b.pc = "idle" /\ b.dag = dag
  BY <1>1, Zenon DEF Call
<1>3. r \in Call /\ r.pc = "idle" /\ r.answer = answer /\ r.dag = dag
  BY <1>2, Zenon DEF Call
<1>4. call' = [call EXCEPT ![c] = r]
  BY Zenon DEF AnsweredAtOnce
<1> HIDE DEF r
<1>5. CallOK(r)
  BY <1>3, Zenon DEF CallOK
<1> QED
  BY <1>3, <1>4, <1>5, Zenon

LEMMA CreateWorkflowStep ==
    ASSUME DInv, NEW c \in Callers, CreateWorkflow(c)
    PROVE  DInv'
<1>1. Typed /\ call \in [Callers -> Call]
  BY DEF DInv, Typed
<1>2. PICK name \in Names \cup {NoName}, dag \in Dags[up.menu] : \E order \in SetToSeqs(DOMAIN dag) :
          \/ /\ ~ValidateDAG(dag, order) \/ name = NoName
             /\ AnsweredAtOnce(c, name, dag, IF name = NoName THEN "no name" ELSE "invalid")
             /\ UNCHANGED definitions
          \/ /\ ValidateDAG(dag, order) /\ name # NoName /\ 1 \in VersionsOf(name)
             /\ AnsweredAtOnce(c, name, dag, "conflict")
             /\ UNCHANGED definitions
          \/ /\ ValidateDAG(dag, order) /\ name # NoName /\ 1 \notin VersionsOf(name)
             /\ definitions' = definitions \cup {[name |-> name, version |-> 1, dag |-> dag]}
             /\ AnsweredAtOnce(c, name, dag, "created")
  BY Zenon DEF CreateWorkflow
<1>3. UNCHANGED <<up, rows>> /\ dag \in AllDags
  BY <1>1, ValidIsChecked, Zenon DEF CreateWorkflow
<1>4. \/ AnsweredAtOnce(c, name, dag, "no name") \/ (AnsweredAtOnce(c, name, dag, "invalid") /\ ~Runnable(dag))
      \/ AnsweredAtOnce(c, name, dag, "conflict") \/ AnsweredAtOnce(c, name, dag, "created")
  <2>1. ASSUME NEW order \in SetToSeqs(DOMAIN dag), ~ValidateDAG(dag, order) PROVE ~Runnable(dag)
    BY <1>1, <2>1, ValidIsChecked, Zenon DEF Checked
  <2>2. PICK order \in SetToSeqs(DOMAIN dag) :
           \/ (~ValidateDAG(dag, order) \/ name = NoName)
              /\ AnsweredAtOnce(c, name, dag, IF name = NoName THEN "no name" ELSE "invalid")
           \/ AnsweredAtOnce(c, name, dag, "conflict") \/ AnsweredAtOnce(c, name, dag, "created")
    BY <1>2, Zenon
  <2> QED
    BY <2>1, <2>2, Zenon
<1>5. PICK r \in Call : /\ r.pc = "idle" /\ r.answer # "error" /\ CallOK(r)
                        /\ call' = [call EXCEPT ![c] = r]
  BY <1>3, <1>4, AtOnceStep, Zenon
<1>6. CASE UNCHANGED definitions
  BY <1>3, <1>5, <1>6, CallStep, Zenon
<1>7. ASSUME NEW order \in SetToSeqs(DOMAIN dag), ValidateDAG(dag, order), name # NoName, 1 \notin VersionsOf(name),
             definitions' = definitions \cup {[name |-> name, version |-> 1, dag |-> dag]}
      PROVE  DInv'
  <2>1. name \in Names /\ Checked(dag) /\ Numbered(name)
    BY <1>1, <1>7, ValidIsChecked DEF DInv
  <2>2. Newest(name) = 0
    <3>1. PICK n \in Nat : n = Newest(name) /\ VersionsOf(name) = 1..n
      BY <2>1 DEF Numbered
    <3>2. ~(1 <= n)
      BY <1>7, <3>1
    <3> QED
      BY <3>1, <3>2
  <2>3. ASSUME NEW d \in Callers PROVE ~(call[d].pc = "inserted" /\ call[d].name = name)
    <3>1. call[d] \in Call /\ CallOK(call[d])
      BY <1>1 DEF DInv
    <3>2. call[d].version \in Nat
      BY <3>1, Zenon DEF Call
    <3> QED
      BY <2>2, <3>1, <3>2 DEF CallOK
  <2>4. 1 = Newest(name) + 1
    BY <2>2
  <2>5. r.pc = "idle" /\ CallOK(r) /\ r.answer # "error" /\ call' = [call EXCEPT ![c] = r]
    BY <1>5
  <2> QED
    BY <1>3, <1>7, <2>1, <2>3, <2>4, <2>5, CommitStep, Zenon
<1> QED
  BY <1>2, <1>6, <1>7, Zenon

LEMMA BeginVersionStep ==
    ASSUME DInv, NEW c \in Callers, BeginVersion(c)
    PROVE  DInv'
<1>1. Typed /\ call \in [Callers -> Call]
  BY DEF DInv, Typed
<1>2. PICK name \in Names, dag \in Dags[up.menu] : \E order \in SetToSeqs(DOMAIN dag) :
          \/ ~ValidateDAG(dag, order) /\ AnsweredAtOnce(c, name, dag, "invalid")
          \/ ValidateDAG(dag, order) /\ Newest(name) = 0 /\ AnsweredAtOnce(c, name, dag, "not found")
          \/ ValidateDAG(dag, order) /\ Newest(name) # 0 /\ Asks(c, name, dag)
  BY Zenon DEF BeginVersion
<1>3. UNCHANGED <<up, definitions, rows>> /\ dag \in AllDags
  BY <1>1, ValidIsChecked, Zenon DEF BeginVersion
<1>4. CASE AnsweredAtOnce(c, name, dag, "not found") \/ (AnsweredAtOnce(c, name, dag, "invalid") /\ ~Runnable(dag))
  <2>1. PICK r \in Call : /\ r.pc = "idle" /\ r.answer # "error" /\ CallOK(r)
                          /\ call' = [call EXCEPT ![c] = r]
    BY <1>3, <1>4, AtOnceStep, Zenon
  <2> QED
    BY <1>3, <2>1, CallStep, Zenon
<1>5. ASSUME NEW order \in SetToSeqs(DOMAIN dag), ValidateDAG(dag, order), Newest(name) # 0, Asks(c, name, dag) PROVE DInv'
  <2>1. PICK n \in Nat : n = Newest(name) /\ Checked(dag)
    BY <1>1, <1>5, ValidIsChecked DEF DInv, Numbered
  <2> DEFINE a == [Idle EXCEPT !.pc = "named"]
             b == [a EXCEPT !.name = name]
             s == [b EXCEPT !.dag = dag]
             r == [s EXCEPT !.since = n]
  <2>2. a \in Call /\ a.pc = "named" /\ a.answer = "none"
    BY IdleIsCall, Zenon DEF Call
  <2>3. b \in Call /\ b.pc = "named" /\ b.answer = "none" /\ b.name = name
    BY <2>2, Zenon DEF Call
  <2>4. s \in Call /\ s.pc = "named" /\ s.answer = "none" /\ s.name = name /\ s.dag = dag
    BY <1>3, <2>3, Zenon DEF Call
  <2>5. /\ r \in Call /\ r.pc = "named" /\ r.answer = "none" /\ r.name = name /\ r.dag = dag
        /\ r.since = n
    BY <2>4, Zenon DEF Call
  <2>6. call' = [call EXCEPT ![c] = r]
    BY <1>5, <2>1 DEF Asks
  <2> HIDE DEF r
  <2>7. CallOK(r)
    BY <1>5, <2>1, <2>5 DEF CallOK
  <2> QED
    BY <1>3, <2>5, <2>6, <2>7, CallStep, Zenon
<1>6. ASSUME NEW order \in SetToSeqs(DOMAIN dag), ~ValidateDAG(dag, order) PROVE ~Runnable(dag)
  BY <1>1, <1>6, ValidIsChecked, Zenon DEF Checked
<1> QED
  BY <1>2, <1>4, <1>5, <1>6, Zenon

\* What is known of a request in its transaction.
LEMMA InTransaction ==
    ASSUME DInv, NEW c \in Callers, call[c].pc # "idle"
    PROVE  /\ call \in [Callers -> Call] /\ call[c] \in Call /\ CallOK(call[c]) /\ call[c].name \in Names
           /\ call[c].version \in Nat /\ call[c].since \in Nat /\ Newest(call[c].name) \in Nat
           /\ VersionsOf(call[c].name) = 1..Newest(call[c].name)
<1>1. call \in [Callers -> Call] /\ call[c] \in Call /\ CallOK(call[c])
  BY DEF DInv, Typed
<1>2. call[c].name \in Names /\ call[c].version \in Nat /\ call[c].since \in Nat
  BY <1>1, Zenon DEF Call, CallOK
<1> QED
  BY <1>1, <1>2 DEF DInv, Numbered

LEMMA SelectNewestStep ==
    ASSUME DInv, NEW c \in Callers, SelectNewest(c)
    PROVE  DInv'
<1>1. call[c].pc = "named" /\ UNCHANGED <<up, definitions, rows>>
  BY DEF SelectNewest
<1>2. /\ call \in [Callers -> Call] /\ CallOK(call[c]) /\ Newest(call[c].name) \in Nat
  BY <1>1, InTransaction
<1>3. PICK n \in Nat : n = Newest(call[c].name)
  BY <1>2
<1>4. PICK r : r = [[call[c] EXCEPT !.pc = "waiting"] EXCEPT !.version = n]
  OBVIOUS
<1>5. call' = [call EXCEPT ![c] = r]
  BY <1>2, <1>3, <1>4, Zenon DEF SelectNewest
<1>6. 1 <= n /\ n <= Newest(call[c].name) /\ call[c].since <= n
  BY <1>1, <1>2, <1>3 DEF CallOK
<1> QED
  BY <1>1, <1>4, <1>5, <1>6, MovesStep, Zenon

LEMMA LockNewestStep ==
    ASSUME DInv, NEW c \in Callers, LockNewest(c)
    PROVE  DInv'
<1>1. PICK r : r = [[call[c] EXCEPT !.pc = "locked"] EXCEPT !.version = call[c].version]
  OBVIOUS
<1>2. call[c].pc = "waiting" /\ UNCHANGED <<up, definitions, rows>>
  BY DEF LockNewest
<1>3. call \in [Callers -> Call] /\ call[c] \in Call /\ CallOK(call[c]) /\ call[c].version \in Nat
  BY <1>2, InTransaction
<1>4. [call[c] EXCEPT !.pc = "locked"] = r
  BY <1>1, <1>3, Zenon DEF Call
<1>5. call' = [call EXCEPT ![c] = r]
  BY <1>4, Zenon DEF LockNewest
<1>6. 1 <= call[c].version /\ call[c].version <= Newest(call[c].name) /\ call[c].since <= call[c].version
  BY <1>2, <1>3 DEF CallOK
<1>7. PICK n \in Nat : n = call[c].version
  BY <1>3
<1> QED
  BY <1>1, <1>2, <1>5, <1>6, <1>7, MovesStep, Zenon

LEMMA InsertVersionStep ==
    ASSUME DInv, NEW c \in Callers, InsertVersion(c)
    PROVE  DInv'
<1>1. PICK r : r = [[call[c] EXCEPT !.pc = "inserted"] EXCEPT !.version = call[c].version]
  OBVIOUS
<1>2. call[c].pc = "locked" /\ UNCHANGED <<up, definitions, rows>>
  BY DEF InsertVersion
<1>3. /\ call \in [Callers -> Call] /\ call[c] \in Call /\ CallOK(call[c])
      /\ call[c].version \in Nat /\ call[c].since \in Nat /\ Newest(call[c].name) \in Nat
      /\ VersionsOf(call[c].name) = 1..Newest(call[c].name)
  BY <1>2, InTransaction
<1>4. 1 <= call[c].version /\ call[c].version <= Newest(call[c].name) /\ call[c].since <= call[c].version
  BY <1>2, <1>3 DEF CallOK
<1>5. PICK n \in Nat, v \in Nat : n = Newest(call[c].name) /\ v = call[c].version /\ v <= n /\ 1 <= v
  BY <1>3, <1>4
<1>6. CASE call[c].version + 1 \in VersionsOf(call[c].name)
  <2>1. v + 1 \in 1..n
    BY <1>3, <1>5, <1>6
  <2>2. v < n
    BY <2>1
  <2>3. call[c].since < Newest(call[c].name)
    BY <1>3, <1>4, <1>5, <2>2
  <2>4. Answers(c, "error")
    BY <1>6 DEF InsertVersion
  <2> QED
    BY <1>2, <2>3, <2>4, AnswersStep
<1>7. CASE call[c].version + 1 \notin VersionsOf(call[c].name)
  <2>1. v + 1 \notin 1..n
    BY <1>3, <1>5, <1>7
  <2>2. v = n
    BY <1>5, <2>1
  <2>3. ASSUME NEW d \in Callers \ {c} PROVE ~(call[d].pc = "inserted" /\ call[d].name = call[c].name)
    <3>1. SUFFICES ASSUME call[d].pc = "inserted", call[d].name = call[c].name PROVE FALSE
      OBVIOUS
    <3>2. CallOK(call[d])
      BY DEF DInv
    <3>3. call[d].version = n
      BY <1>5, <3>1, <3>2 DEF CallOK
    <3> QED
      BY <1>5, <2>2, <3>1, <3>3 DEF InsertVersion, InsertedBy
  <2>4. [call[c] EXCEPT !.pc = "inserted"] = r
    BY <1>1, <1>3, Zenon DEF Call
  <2>5. call' = [call EXCEPT ![c] = r]
    BY <1>7, <2>4 DEF InsertVersion
  <2> QED
    BY <1>1, <1>2, <1>4, <1>5, <2>2, <2>3, <2>5, MovesStep, Zenon
<1> QED
  BY <1>6, <1>7

LEMMA CommitVersionStep ==
    ASSUME DInv, NEW c \in Callers, CommitVersion(c)
    PROVE  DInv'
<1>1. PICK r : r = [[call[c] EXCEPT !.pc = "idle"] EXCEPT !.answer = "created"]
  OBVIOUS
<1>2. call[c].pc = "inserted" /\ UNCHANGED <<up, rows>>
  BY DEF CommitVersion
<1>3. call \in [Callers -> Call] /\ call[c] \in Call /\ CallOK(call[c]) /\ call[c].name \in Names
  BY <1>2, InTransaction
<1>4. r \in Call /\ r.pc = "idle" /\ r.answer = "created"
  BY <1>1, <1>3, Zenon DEF Call
<1>5. call' = [call EXCEPT ![c] = r] /\ CallOK(r)
  BY <1>1, <1>3, <1>4, Zenon DEF CommitVersion, Answers, CallOK
<1>6. Checked(call[c].dag) /\ call[c].version + 1 = Newest(call[c].name) + 1
  BY <1>2, <1>3 DEF CallOK
<1>7. \A d \in Callers \ {c} : ~(call[d].pc = "inserted" /\ call[d].name = call[c].name)
  BY <1>2 DEF DInv, OneInserts
<1>8. PICK dag, v : dag = call[c].dag /\ v = call[c].version + 1
  OBVIOUS
<1>9. PICK name \in Names : name = call[c].name
  BY <1>3
<1>10. definitions' = definitions \cup {[name |-> name, version |-> v, dag |-> dag]}
  BY <1>8, <1>9 DEF CommitVersion
<1>11. /\ Checked(dag) /\ v = Newest(name) + 1
       /\ \A d \in Callers \ {c} : ~(call[d].pc = "inserted" /\ call[d].name = name)
  BY <1>6, <1>7, <1>8, <1>9
<1> QED
  BY <1>2, <1>4, <1>5, <1>10, <1>11, CommitStep, Zenon

LEMMA AbortVersionStep ==
    ASSUME DInv, NEW c \in Callers, AbortVersion(c)
    PROVE  DInv'
BY AnswersStep DEF AbortVersion

-----------------------------------------------------------------------------
(* The rows of a run                                                       *)

LEMMA CheckedIsDecoded ==
    ASSUME NEW dag, Checked(dag)
    PROVE  Decoded(dag)
<1>1. PICK menu \in DOMAIN Dags : dag \in Dags[menu]
  BY DEF Checked, AllDags
<1> QED
  BY <1>1, DefinitionsAssumption, Zenon DEF Decoded

\* Defaults keep within the limits: the rows written from a checked DAG can run.
LEMMA CheckedCanRun ==
    ASSUME NEW dag, Checked(dag)
    PROVE  TasksCanRun(TaskRows(dag))
<1>1. ASSUME NEW key \in DOMAIN dag
      PROVE  /\ TaskRows(dag)[key].maximumAttempts \in 1..MaxAttempts
             /\ TaskRows(dag)[key].timeoutSeconds \in 1..MaxTimeout
             /\ TaskRows(dag)[key].upstream \subseteq DOMAIN dag \ {key}
             /\ TaskRows(dag)[key].status = "READY" <=> TaskRows(dag)[key].upstream = {}
  <2>1. PICK spec : spec = dag[key]
    OBVIOUS
  <2>2. Decoded(dag) /\ Runnable(dag)
    BY CheckedIsDecoded DEF Checked
  <2>3. DependsOn(dag, key) \subseteq DOMAIN dag \ {key}
    BY <2>2, RankedDependencies DEF Decoded, Runnable
  <2>4. spec \in [handler : {spec.handler}, dependsOn : Seq(Range(spec.dependsOn)),
                  maximumAttempts : Int, timeoutSeconds : Int]
    BY <2>1, <2>2, Zenon DEF Decoded
  <2>5. PICK deps, keys : deps = spec.dependsOn /\ deps \in Seq(keys)
    BY <2>4
  <2> DEFINE a == [spec EXCEPT !.maximumAttempts = IF @ = 0 THEN 3 ELSE @]
             b == [a EXCEPT !.timeoutSeconds = IF @ = 0 THEN 300 ELSE @]
             row == [status |-> IF b.dependsOn = <<>> THEN "READY" ELSE "BLOCKED",
                     upstream |-> {b.dependsOn[i] : i \in DOMAIN b.dependsOn},
                     maximumAttempts |-> b.maximumAttempts,
                     timeoutSeconds |-> b.timeoutSeconds]
  <2>6. TaskRows(dag)[key] = row
    BY <2>1 DEF TaskRows, WithDefaults
  <2>7. spec.maximumAttempts \in 0..MaxAttempts /\ spec.timeoutSeconds \in 0..MaxTimeout
    BY <2>1, <2>2, Zenon DEF Runnable
  <2>8. /\ a.maximumAttempts = (IF spec.maximumAttempts = 0 THEN 3 ELSE spec.maximumAttempts)
        /\ a.timeoutSeconds = spec.timeoutSeconds /\ a.dependsOn = deps
        /\ DOMAIN a = DOMAIN spec
    BY <2>4, <2>5
  <2>9. /\ b.maximumAttempts = a.maximumAttempts
        /\ b.timeoutSeconds = (IF a.timeoutSeconds = 0 THEN 300 ELSE a.timeoutSeconds)
        /\ b.dependsOn = deps
    BY <2>4, <2>8
  <2> HIDE DEF a, b
  <2>10. /\ row.maximumAttempts \in 1..MaxAttempts /\ row.timeoutSeconds \in 1..MaxTimeout
    BY <2>7, <2>8, <2>9, DefinitionsAssumption
  <2>11. row.upstream = {deps[i] : i \in DOMAIN deps} /\ (row.status = "READY" <=> deps = <<>>)
    BY <2>9
  <2>12. \A i \in DOMAIN deps : deps[i] # key /\ deps[i] \in DOMAIN dag
    BY <2>1, <2>3, <2>5, Zenon DEF DependsOn, Range
  <2>13. deps = <<>> <=> {deps[i] : i \in DOMAIN deps} = {}
    <3>1. DOMAIN deps = 1..Len(deps) /\ Len(deps) \in Nat
      BY <2>5
    <3>2. deps = <<>> <=> Len(deps) = 0
      BY <2>5
    <3>3. DOMAIN deps = {} <=> Len(deps) = 0
      <4>1. PICK n \in Nat : n = Len(deps) /\ DOMAIN deps = 1..n
        BY <3>1, Zenon
      <4>2. n # 0 => 1 \in 1..n
        OBVIOUS
      <4>3. n = 0 => 1..n = {}
        OBVIOUS
      <4> QED
        BY <4>1, <4>2, <4>3
    <3>4. DOMAIN deps = {} <=> {deps[i] : i \in DOMAIN deps} = {}
      BY Zenon
    <3> QED
      BY <3>2, <3>3, <3>4
  <2> HIDE DEF row
  <2> QED
    BY <2>6, <2>10, <2>11, <2>12, <2>13
<1>2. DOMAIN TaskRows(dag) = DOMAIN dag
  BY DEF TaskRows
<1> QED
  BY <1>1, <1>2 DEF TasksCanRun

LEMMA StartRunStep ==
    ASSUME DInv, NEW d \in definitions, StartRun(d)
    PROVE  DInv'
<1>1. UNCHANGED <<up, definitions, call>> /\ rows' = rows \cup {TaskRows(d.dag)}
  BY DEF StartRun
<1>2. PICK table : table = TaskRows(d.dag)
  OBVIOUS
<1>3. RunsCanFinish'
  <2>1. Checked(d.dag) /\ Decoded(d.dag) /\ Runnable(d.dag)
    BY CheckedIsDecoded DEF DInv, Checked
  <2>2. TasksCanRun(table)
    BY <1>2, <2>1, CheckedCanRun
  <2>3. DOMAIN table = DOMAIN d.dag
    BY <1>2 DEF TaskRows
  <2>4. \A first \in SUBSET DOMAIN table : DoneFrom(table, first) = DOMAIN table
    BY <1>2, <2>1, <2>3, RunnableFinishes, Zenon
  <2>5. DoneFrom(table, {key \in DOMAIN table : table[key].status = "READY"}) = DOMAIN table
    BY <2>4, Zenon
  <2>6. rows' = rows \cup {table}
    BY <1>1, <1>2, Zenon
  <2> QED
    BY <2>2, <2>5, <2>6, Zenon DEF DInv, RunsCanFinish
<1>4. Typed' /\ OneInserts'
  BY <1>1 DEF DInv, Typed, OneInserts
<1>5. ASSUME NEW name \in Names \cup {NoName} PROVE Numbered(name)'
  BY <1>1, SameDefinitions DEF DInv
<1>6. ASSUME NEW c \in Callers PROVE CallOK(call[c])'
  <2>1. PICK s : s = call'[c] /\ CallOK(s)
    BY <1>1 DEF DInv
  <2>2. CallOK(s)'
    BY <1>1, <2>1, SameCall
  <2> QED
    BY <2>1, <2>2
<1>7. ASSUME NEW e \in definitions' PROVE Checked(e.dag)'
  BY <1>1 DEF DInv
<1> QED
  BY <1>3, <1>4, <1>5, <1>6, <1>7 DEF DInv

-----------------------------------------------------------------------------
(* The theorems                                                            *)

LEMMA InitDInv ==
    ASSUME Init
    PROVE  DInv
<1>1. ASSUME NEW name \in Names \cup {NoName} PROVE Numbered(name)
  <2>1. Rows(name) = {} /\ VersionsOf(name) = {}
    BY DEF Init, Rows, VersionsOf
  <2>2. 1..0 = {}
    OBVIOUS
  <2>3. Newest(name) = Max((1..0) \cup {0})
    BY <2>1, <2>2 DEF Newest
  <2>4. Newest(name) = 0
    BY <2>3, MaxOfRange
  <2> QED
    BY <2>1, <2>2, <2>4, FS_EmptySet DEF Numbered
<1>2. call = [c \in Callers |-> Idle] /\ Idle \in Call /\ Idle.pc = "idle" /\ Idle.answer = "none"
  BY IdleIsCall DEF Init
<1>3. CallOK(Idle)
  BY <1>2 DEF CallOK
<1>4. Typed
  BY <1>2 DEF Init, Typed
<1>5. (\A c \in Callers : CallOK(call[c])) /\ OneInserts
  BY <1>2, <1>3 DEF OneInserts
<1> QED
  BY <1>1, <1>4, <1>5 DEF Init, DInv, RunsCanFinish

LEMMA NextDInv ==
    ASSUME DInv, [Next]_vars
    PROVE  DInv'
<1>1. ASSUME NEW c \in up.callers,
             \/ CreateWorkflow(c) \/ BeginVersion(c) \/ SelectNewest(c) \/ LockNewest(c)
             \/ InsertVersion(c) \/ CommitVersion(c) \/ AbortVersion(c)
      PROVE  DInv'
  <2>1. c \in Callers
    BY DefinitionsAssumption DEF DInv, Typed
  <2> QED
    BY <1>1, <2>1, CreateWorkflowStep, BeginVersionStep, SelectNewestStep, LockNewestStep,
       InsertVersionStep, CommitVersionStep, AbortVersionStep
<1>2. ASSUME NEW d \in definitions, StartRun(d) PROVE DInv'
  BY <1>2, StartRunStep
<1>3. CASE UNCHANGED vars
  <2>1. UNCHANGED <<up, definitions, call, rows>>
    BY <1>3 DEF vars
  <2>2. Typed' /\ OneInserts'
    BY <2>1 DEF DInv, Typed, OneInserts
  <2>3. ASSUME NEW name \in Names \cup {NoName} PROVE Numbered(name)'
    BY <2>1, SameDefinitions DEF DInv
  <2>4. ASSUME NEW c \in Callers PROVE CallOK(call[c])'
    <3>1. PICK s : s = call'[c] /\ CallOK(s)
      BY <2>1 DEF DInv
    <3>2. CallOK(s)'
      BY <2>1, <3>1, SameCall
    <3> QED
      BY <3>1, <3>2
  <2>5. ASSUME NEW e \in definitions' PROVE Checked(e.dag)'
    BY <2>1 DEF DInv
  <2>6. RunsCanFinish'
    BY <2>1 DEF DInv, RunsCanFinish
  <2> QED
    BY <2>2, <2>3, <2>4, <2>5, <2>6 DEF DInv
<1> QED
  BY <1>1, <1>2, <1>3 DEF Next

\* DInv is an invariant of CreateWorkflow, CreateVersion and CreateRun, for any number of racing or
\* failing requests.
THEOREM DefinitionInvariance == Spec => []DInv
BY InitDInv, NextDInv, PTL DEF Spec

\* The versions of a definition are numbered without gaps and each has one row: the unique index
\* turns every lost race of CreateVersion into an error, and none into a gap or a second row.
THEOREM VersionsAreContiguous == Spec => []VersionsContiguous
<1>1. ASSUME DInv PROVE VersionsContiguous
  BY <1>1, Zenon DEF DInv, Numbered, Rows, VersionsContiguous
<1> QED
  BY <1>1, DefinitionInvariance, PTL

\* CreateVersion's 500 is a lost race: another request's version of the same definition was
\* committed after this one had begun.
THEOREM ErrorMeansRaceLost == Spec => []ErrorsAreLostRaces
<1>1. ASSUME DInv PROVE ErrorsAreLostRaces
  <2>1. ASSUME NEW c \in Callers, call[c].answer = "error" PROVE Newest(call[c].name) > call[c].since
    <3>1. call[c] \in Call /\ CallOK(call[c])
      BY <1>1 DEF DInv, Typed
    <3>2. Newest(call[c].name) \in Nat /\ call[c].since \in Nat
      BY <1>1, <3>1, Zenon DEF DInv, Numbered, Call
    <3> QED
      BY <2>1, <3>1, <3>2 DEF CallOK
  <2> QED
    BY <2>1 DEF ErrorsAreLostRaces
<1> QED
  BY <1>1, DefinitionInvariance, PTL

\* ValidateDAG refuses only what cannot be run: every DAG of ranked, well-formed tasks within the
\* limits is accepted, of any size and in whatever order Go visits the tasks.
THEOREM RefusedCannotRun == Spec => []RefusedOnlyUnrunnable
<1>1. ASSUME DInv PROVE RefusedOnlyUnrunnable
  BY <1>1, Zenon DEF DInv, CallOK, RefusedOnlyUnrunnable
<1> QED
  BY <1>1, DefinitionInvariance, PTL

\* The run of a stored definition can be executed to its end: each of the rows CreateRun writes has
\* an attempt and a second within the limits and waits only for other tasks of the run, and success
\* of the READY tasks unlocks all the others.
THEOREM StoredDefinitionsFinish == Spec => []RunsCanFinish
<1>1. ASSUME DInv PROVE RunsCanFinish
  BY <1>1 DEF DInv
<1> QED
  BY <1>1, DefinitionInvariance, PTL

\* The DAG of a stored definition has no cycle: among any of its tasks there is one that depends on
\* none of them.  TaskLifecycle's theorem about a run that always has work takes this of the run's DAG.
THEOREM StoredIsAcyclic == Spec => [](\A d \in definitions : Acyclic(d.dag, DOMAIN d.dag))
<1>1. ASSUME DInv PROVE \A d \in definitions : Acyclic(d.dag, DOMAIN d.dag)
  <2>1. ASSUME NEW d \in definitions PROVE Acyclic(d.dag, DOMAIN d.dag)
    <3>1. PICK dag : dag = d.dag /\ Checked(dag)
      BY <1>1 DEF DInv
    <3>2. IsFiniteSet(DOMAIN dag) /\ Ranked(dag)
      BY <3>1, CheckedIsDecoded DEF Checked, Decoded, Runnable
    <3>3. Acyclic(dag, DOMAIN dag)
      BY <3>2, RankedIsAcyclic
    <3> QED
      BY <3>1, <3>3, Zenon
  <2> QED
    BY <2>1
<1> QED
  BY <1>1, DefinitionInvariance, PTL

=============================================================================
