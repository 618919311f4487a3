-------------------------- MODULE SubmissionProofs --------------------------
(***************************************************************************)
(* Proofs that CreateRun implements the registry of runs, and keeps input  *)
(* artifacts and runs consistent, for any number of callers, keys,         *)
(* schedules, crashes and failing statements.                              *)
(***************************************************************************)
EXTENDS Submission, TLAPS

\* A step that names no prover is tried by Zenon first, then by the SMT solver.
USE ZenonT(4), SMTT(60)

\* What a caller knows at each point of CreateRun.
CallOK ==
    \A c \in Callers :
        /\ call[c].pc # "idle" => call[c].key \in Keys /\ (c \in Clients => call[c].key \in ClientKeys)
        /\ call[c].pc \in {"locked", "inserted"} => call[c].art # Unknown
        /\ call[c].pc = "inserted" => call[c].def # Unknown /\ RunsOf(call[c].key) = {}

\* The unique index on the idempotency key, uncommitted rows included.
OneInserts ==
    \A c, d \in Callers :
        call[c].pc = "inserted" /\ call[d].pc = "inserted" /\ call[c].key = call[d].key => c = d

\* A key has one run, an identifier names one run.
OneRun == \A r1, r2 \in runs : r1.key = r2.key \/ r1.id = r2.id => r1 = r2

IInv == TypeOK /\ CallOK /\ OneInserts /\ OneRun

CallType ==
    [pc : {"idle", "begun", "locked", "inserted"}, key : Keys \cup {Unknown},
     def : Definitions \cup {Unknown}, art : Artifacts \cup {NoArtifact, Unknown}]

\* Moving a caller to its next statement changes nothing else of its call.
LEMMA PcUpdate ==
    ASSUME TypeOK, NEW c \in Callers, NEW pc \in {"locked", "inserted"}, call' = [call EXCEPT ![c].pc = pc]
    PROVE  /\ call' \in [Callers -> CallType]
           /\ call'[c].pc = pc /\ call'[c].key = call[c].key /\ call'[c].def = call[c].def /\ call'[c].art = call[c].art
           /\ \A d \in Callers \ {c} : call'[d] = call[d]
<1>1. call \in [Callers -> CallType]
  BY DEF TypeOK, CallType
<1>2. call' = [call EXCEPT ![c] = [call[c] EXCEPT !.pc = pc]]
  OBVIOUS
<1>3. [call[c] EXCEPT !.pc = pc] \in CallType
  BY <1>1 DEF CallType
<1> QED
  BY <1>1, <1>2, <1>3 DEF CallType

\* The answer Returns adds.
LEMMA ReturnsAnswer ==
    ASSUME NEW c \in Callers, NEW result, NEW run, Returns(c, result, run)
    PROVE  /\ c \notin Clients \/ result \notin {"run", "conflict"} => answers' = answers
           /\ c \in Clients /\ result = "run" =>
                answers' = answers \cup {[key |-> call[c].key, run |-> run, refused |-> NoArtifact]}
           /\ c \in Clients /\ result = "conflict" =>
                answers' = answers \cup {[key |-> call[c].key, run |-> run, refused |-> call[c].art]}
BY DEF Returns

\* Returns keeps types, and makes its caller idle.
LEMMA ReturnsType ==
    ASSUME TypeOK, CallOK, NEW c \in Callers, NEW result, NEW run \in RunIds \cup {NoRun},
           Returns(c, result, run),
           result \in {"run", "conflict"} => call[c].pc # "idle",
           result = "conflict" => call[c].art # Unknown
    PROVE  /\ call' \in [Callers -> CallType]
           /\ answers' \subseteq [key : ClientKeys, run : RunIds \cup {NoRun}, refused : Artifacts \cup {NoArtifact}]
           /\ batch' \in [Schedulers -> SUBSET Occurrences]
           /\ UNCHANGED <<up, schedule, taken, now>>
<1>1. Idle \in CallType
  BY DEF Idle, CallType
<1>2. call' \in [Callers -> CallType]
  BY <1>1 DEF Returns, TypeOK, CallType
<1>3. answers' \subseteq [key : ClientKeys, run : RunIds \cup {NoRun}, refused : Artifacts \cup {NoArtifact}]
  <2>1. CASE c \in Clients /\ result \in {"run", "conflict"}
    <3>1. call[c].key \in ClientKeys
      BY <2>1 DEF CallOK
    <3>2. result = "conflict" => call[c].art \in Artifacts \cup {NoArtifact}
      BY DEF TypeOK
    <3> QED
      BY <2>1, <3>1, <3>2, ReturnsAnswer DEF TypeOK
  <2> QED
    BY <2>1, ReturnsAnswer DEF TypeOK
<1>4. batch' \in [Schedulers -> SUBSET Occurrences]
  BY DEF Returns, TypeOK
<1> QED
  BY <1>2, <1>3, <1>4 DEF Returns

\* The cron expression has a next time.
LEMMA NextTimeType ==
    ASSUME NEW t \in Nat
    PROVE  NextTime(t) \in Nat
BY SubmissionAssumption DEF NextTime

\* Storing a run keeps types: its identifier is fresh.
LEMMA StoredType ==
    ASSUME TypeOK, CallOK, NEW c \in Callers, Stored(c)
    PROVE  /\ NewId \in FreshIds
           /\ runs' \subseteq [id : RunIds, key : Keys, def : Definitions, art : Artifacts \cup {NoArtifact}]
           /\ attached' \in [Artifacts -> RunIds \cup {NoRun}]
<1>1. NewId \in FreshIds
  BY DEF Stored, NewId
<1>2. [id |-> NewId, key |-> call[c].key, def |-> call[c].def, art |-> call[c].art]
        \in [id : RunIds, key : Keys, def : Definitions, art : Artifacts \cup {NoArtifact}]
  BY <1>1 DEF Stored, FreshIds, CallOK, TypeOK
<1>3. attached' \in [Artifacts -> RunIds \cup {NoRun}]
  BY <1>1 DEF Stored, FreshIds, TypeOK
<1> QED
  BY <1>1, <1>2, <1>3 DEF Stored, TypeOK

\* Every step keeps types.
LEMMA TypeStep ==
    ASSUME TypeOK, CallOK, [Next]_vars
    PROVE  TypeOK'
<1>1. ASSUME NEW c \in Callers, LockArtifact(c)
      PROVE  TypeOK'
  <2>1. CASE call[c].art = Unknown
    <3>1. Returns(c, "not found", NoRun) /\ UNCHANGED <<runs, attached, faults>>
      BY <1>1, <2>1, Zenon DEF LockArtifact
    <3> QED
      BY <3>1, ReturnsType, Zenon DEF TypeOK, CallType
  <2>2. CASE call[c].art # Unknown
    <3>1. call' = [call EXCEPT ![c].pc = "locked"] /\ UNCHANGED <<up, runs, attached, answers, schedule, batch, taken, now, faults>>
      BY <1>1, <2>2, Zenon DEF LockArtifact
    <3> QED
      BY <3>1, PcUpdate DEF TypeOK, CallType
  <2> QED
    BY <2>1, <2>2
<1>2. ASSUME NEW c \in Callers, InsertRun(c)
      PROVE  TypeOK'
  <2>1. CASE Returns(c, "not found", NoRun)
    <3>1. UNCHANGED <<runs, attached, faults>>
      BY <1>2, Zenon DEF InsertRun
    <3> QED
      BY <2>1, <3>1, ReturnsType, Zenon DEF TypeOK, CallType
  <2>2. CASE Inserted(c)
    <3>1. call' = [call EXCEPT ![c].pc = "inserted"] /\ UNCHANGED <<up, runs, attached, answers, schedule, batch, taken, now, faults>>
      BY <1>2, <2>2, Zenon DEF InsertRun, Inserted
    <3> QED
      BY <3>1, PcUpdate DEF TypeOK, CallType
  <2>3. CASE ExistingRun(c)
    <3>1. PICK run \in RunsOf(call[c].key) : Returns(c, "run", run.id)
      BY <2>3 DEF ExistingRun
    <3>2. run.id \in RunIds
      BY <3>1 DEF RunsOf, TypeOK
    <3>3. UNCHANGED <<runs, attached, faults>> /\ call[c].pc # "idle"
      BY <1>2, Zenon DEF InsertRun
    <3> QED
      BY <3>1, <3>2, <3>3, ReturnsType DEF TypeOK, CallType
  <2> QED
    BY <1>2, <2>1, <2>2, <2>3, Zenon DEF InsertRun
<1>3. ASSUME NEW c \in Callers, AttachRefused(c)
      PROVE  TypeOK'
  <2>1. call[c].art # Unknown
    BY <1>3 DEF AttachRefused, CallOK
  <2>2. Returns(c, "conflict", NoRun) /\ call[c].pc # "idle" /\ UNCHANGED <<runs, attached, faults>>
    BY <1>3 DEF AttachRefused
  <2> QED
    BY <2>1, <2>2, ReturnsType DEF TypeOK, CallType
<1>4. ASSUME NEW c \in Callers, Commit(c)
      PROVE  TypeOK'
  <2>1. NewId \in RunIds
    BY <1>4, StoredType DEF Commit, FreshIds
  <2>2. Stored(c) /\ Returns(c, "run", NewId) /\ UNCHANGED faults /\ call[c].pc # "idle"
    BY <1>4 DEF Commit, Stored
  <2> QED
    BY <2>1, <2>2, StoredType, ReturnsType DEF TypeOK, CallType
<1>5. ASSUME NEW c \in Callers, CommitUnanswered(c)
      PROVE  TypeOK'
  <2>1. Stored(c) /\ Returns(c, "error", NoRun)
    BY <1>5 DEF CommitUnanswered
  <2>2. faults' \in 0..MaxFaults
    BY <1>5, SubmissionAssumption DEF CommitUnanswered, TypeOK
  <2> QED
    BY <2>1, <2>2, StoredType, ReturnsType DEF TypeOK, CallType
<1>6. ASSUME NEW c \in Callers, Aborts(c)
      PROVE  TypeOK'
  <2>1. Returns(c, "error", NoRun) /\ UNCHANGED <<runs, attached>>
    BY <1>6 DEF Aborts
  <2>2. faults' \in 0..MaxFaults
    BY <1>6, SubmissionAssumption DEF Aborts, TypeOK
  <2> QED
    BY <2>1, <2>2, ReturnsType DEF TypeOK, CallType
<1>7. ASSUME NEW c \in Callers, Submit(c)
      PROVE  TypeOK'
  BY <1>7 DEF Submit, Begins, TypeOK, Keys
<1>8. ASSUME NEW c \in Callers, SubmitOccurrence(c)
      PROVE  TypeOK'
  <2>1. c \in Schedulers /\ \A o \in batch[c] : o \in Keys /\ o[1] \in Schedules
    BY <1>8 DEF SubmitOccurrence, TypeOK, Keys, Occurrences
  <2> QED
    BY <1>8, <2>1 DEF SubmitOccurrence, Begins, TypeOK
<1>9. ASSUME NEW c \in Schedulers, FireSchedules(c)
      PROVE  TypeOK'
  <2>1. PICK due \in SUBSET Due \ {{}} :
          /\ batch' = [batch EXCEPT ![c] = {<<s, schedule[s].next>> : s \in due}]
          /\ taken' = taken \cup {<<s, schedule[s].next>> : s \in due}
          /\ schedule' = [s \in Schedules |->
                IF s \in due THEN [schedule[s] EXCEPT !.next = NextTime(Base(s))] ELSE schedule[s]]
    BY <1>9, Zenon DEF FireSchedules
  <2>2. \A s \in due : <<s, schedule[s].next>> \in Occurrences
    BY SubmissionAssumption DEF Due, Occurrences, Times, TypeOK
  <2>3. {<<s, schedule[s].next>> : s \in due} \subseteq Occurrences
    BY <2>2
  <2>4. \A s \in Schedules : NextTime(Base(s)) \in Nat
    BY NextTimeType DEF Base, TypeOK
  <2>5. schedule' \in [Schedules -> [row : {"none", "there", "deleted"}, enabled : BOOLEAN, next : Nat,
                                     policy : Policies, def : Definitions \cup {Unknown}]]
    BY <2>1, <2>4 DEF TypeOK
  <2> QED
    BY <1>9, <2>1, <2>3, <2>5 DEF FireSchedules, TypeOK
<1>10. ASSUME NEW s \in Schedules, CreateSchedule(s)
       PROVE  TypeOK'
  <2>1. {NextTime(now), now} \subseteq Nat
    BY NextTimeType DEF TypeOK
  <2> QED
    BY <1>10, <2>1 DEF CreateSchedule, TypeOK
<1>11. ASSUME NEW s \in Edited, PatchSchedule(s) \/ DeleteSchedule(s)
       PROVE  TypeOK'
  <2>1. s \in Schedules /\ PatchTimes \subseteq Nat
    BY SubmissionAssumption
  <2>2. schedule' \in [Schedules -> [row : {"none", "there", "deleted"}, enabled : BOOLEAN, next : Nat,
                                     policy : Policies, def : Definitions \cup {Unknown}]]
    <3>1. CASE PatchSchedule(s)
      <4>1. PICK enabled \in BOOLEAN, next \in {schedule[s].next} \cup PatchTimes :
              schedule' = [schedule EXCEPT ![s] = [schedule[s] EXCEPT !.enabled = enabled, !.next = next]]
        BY <3>1, Zenon DEF PatchSchedule
      <4>2. [schedule[s] EXCEPT !.enabled = enabled, !.next = next]
              \in [row : {"none", "there", "deleted"}, enabled : BOOLEAN, next : Nat,
                   policy : Policies, def : Definitions \cup {Unknown}]
        <5>1. next \in Nat
          BY <2>1 DEF TypeOK
        <5>2. schedule[s] \in [row : {"none", "there", "deleted"}, enabled : BOOLEAN, next : Nat,
                               policy : Policies, def : Definitions \cup {Unknown}]
          BY <2>1 DEF TypeOK
        <5>3. [schedule[s] EXCEPT !.enabled = enabled]
                \in [row : {"none", "there", "deleted"}, enabled : BOOLEAN, next : Nat,
                     policy : Policies, def : Definitions \cup {Unknown}]
          BY <5>2
        <5> QED
          BY <5>1, <5>2, <5>3, Zenon
      <4> QED
        BY <2>1, <4>1, <4>2 DEF TypeOK
    <3>2. CASE DeleteSchedule(s)
      <4>1. schedule' = [schedule EXCEPT ![s] = [schedule[s] EXCEPT !.row = "deleted", !.enabled = FALSE]]
        BY <3>2 DEF DeleteSchedule
      <4>2. [schedule[s] EXCEPT !.row = "deleted", !.enabled = FALSE]
              \in [row : {"none", "there", "deleted"}, enabled : BOOLEAN, next : Nat,
                   policy : Policies, def : Definitions \cup {Unknown}]
        <5>1. schedule[s] \in [row : {"none", "there", "deleted"}, enabled : BOOLEAN, next : Nat,
                               policy : Policies, def : Definitions \cup {Unknown}]
          BY <2>1 DEF TypeOK
        <5>2. [schedule[s] EXCEPT !.row = "deleted"]
                \in [row : {"none", "there", "deleted"}, enabled : BOOLEAN, next : Nat,
                     policy : Policies, def : Definitions \cup {Unknown}]
          BY <5>1
        <5> QED
          BY <5>1, <5>2, Zenon
      <4> QED
        BY <2>1, <4>1, <4>2 DEF TypeOK
    <3> QED
      BY <1>11, <3>1, <3>2
  <2> QED
    BY <1>11, <2>2, Zenon DEF PatchSchedule, DeleteSchedule, TypeOK
<1>12. CASE Minute
  BY <1>12, SubmissionAssumption DEF Minute, TypeOK
<1>13. CASE UNCHANGED vars
  BY <1>13 DEF vars, TypeOK
<1> QED
  BY <1>1, <1>2, <1>3, <1>4, <1>5, <1>6, <1>7, <1>8, <1>9, <1>10, <1>11, <1>12, <1>13 DEF Next, Steps

\* After Returns its caller is idle and the others are where they were.
LEMMA ReturnsCall ==
    ASSUME TypeOK, NEW c \in Callers, NEW result, NEW run, Returns(c, result, run)
    PROVE  call'[c].pc = "idle" /\ \A d \in Callers \ {c} : call'[d] = call[d]
BY DEF Returns, TypeOK, Idle

\* A call that ends without a new run keeps what the other callers know.
LEMMA ReturnsCallOK ==
    ASSUME IInv, NEW c \in Callers, NEW result, NEW run, Returns(c, result, run), runs' = runs
    PROVE  CallOK' /\ OneInserts' /\ OneRun'
BY ReturnsCall DEF IInv, CallOK, OneInserts, OneRun, RunsOf

\* A call that ends with a new run: nobody else has inserted its key.
LEMMA StoredCallOK ==
    ASSUME IInv, NEW c \in Callers, NEW result, NEW run, Stored(c), Returns(c, result, run)
    PROVE  CallOK' /\ OneInserts' /\ OneRun'
<1> DEFINE new == [id |-> NewId, key |-> call[c].key, def |-> call[c].def, art |-> call[c].art]
<1>1. runs' = runs \cup {new} /\ call[c].pc = "inserted"
  BY DEF Stored
<1>2. \A r \in runs : r.key # new.key /\ r.id # new.id
  BY <1>1, StoredType DEF IInv, CallOK, RunsOf, FreshIds
<1>3. OneRun'
  BY <1>1, <1>2 DEF IInv, OneRun
<1>4. \A d \in Callers \ {c} : call[d].pc = "inserted" => call[d].key # new.key
  BY <1>1 DEF IInv, OneInserts
<1>5. OneInserts'
  BY ReturnsCall DEF IInv, OneInserts
<1>6. CallOK'
  <2> SUFFICES ASSUME NEW d \in Callers \ {c}, call[d].pc = "inserted"
               PROVE  {r \in runs' : r.key = call[d].key} = {}
    BY ReturnsCall DEF IInv, CallOK, RunsOf
  <2>1. {r \in runs : r.key = call[d].key} = {}
    BY DEF IInv, CallOK, RunsOf
  <2> QED
    BY <1>1, <1>4, <2>1
<1> QED
  BY <1>3, <1>5, <1>6

\* Every step keeps what callers know, and the uniqueness of keys and identifiers.
LEMMA CallStep ==
    ASSUME IInv, [Next]_vars
    PROVE  CallOK' /\ OneInserts' /\ OneRun'
<1>1. ASSUME NEW c \in Callers, LockArtifact(c)
      PROVE  CallOK' /\ OneInserts' /\ OneRun'
  <2>1. CASE call[c].art = Unknown
    BY <1>1, <2>1, ReturnsCallOK, Zenon DEF LockArtifact
  <2>2. CASE call[c].art # Unknown
    <3>1. call[c].pc = "begun" /\ call' = [call EXCEPT ![c].pc = "locked"] /\ runs' = runs
      BY <1>1, <2>2, Zenon DEF LockArtifact
    <3> QED
      BY <2>2, <3>1, PcUpdate DEF IInv, CallOK, OneInserts, OneRun, RunsOf
  <2> QED
    BY <2>1, <2>2
<1>2. ASSUME NEW c \in Callers, InsertRun(c)
      PROVE  CallOK' /\ OneInserts' /\ OneRun'
  <2>1. call[c].pc = "locked" /\ runs' = runs
    BY <1>2, Zenon DEF InsertRun
  <2>2. CASE call[c].def = Unknown
    BY <1>2, <2>1, <2>2, ReturnsCallOK, Zenon DEF InsertRun
  <2>3. CASE call[c].def # Unknown /\ Inserted(c)
    <3>1. /\ call' = [call EXCEPT ![c].pc = "inserted"] /\ RunsOf(call[c].key) = {}
          /\ \A d \in Callers \ {c} : ~(call[d].pc = "inserted" /\ call[d].key = call[c].key)
      BY <2>3 DEF Inserted, KeyInserted
    <3>2. OneInserts'
      BY <2>1, <3>1, PcUpdate DEF IInv, OneInserts
    <3>3. CallOK'
      BY <2>1, <2>3, <3>1, PcUpdate DEF IInv, CallOK, RunsOf
    <3> QED
      BY <2>1, <3>2, <3>3 DEF IInv, OneRun
  <2>4. CASE ExistingRun(c)
    BY <2>1, <2>4, ReturnsCallOK DEF ExistingRun
  <2> QED
    BY <1>2, <2>2, <2>3, <2>4, Zenon DEF InsertRun
<1>3. ASSUME NEW c \in Callers, AttachRefused(c)
      PROVE  CallOK' /\ OneInserts' /\ OneRun'
  BY <1>3, ReturnsCallOK DEF AttachRefused
<1>4. ASSUME NEW c \in Callers, Commit(c) \/ CommitUnanswered(c)
      PROVE  CallOK' /\ OneInserts' /\ OneRun'
  BY <1>4, StoredCallOK DEF Commit, CommitUnanswered
<1>5. ASSUME NEW c \in Callers, Aborts(c)
      PROVE  CallOK' /\ OneInserts' /\ OneRun'
  BY <1>5, ReturnsCallOK DEF Aborts
<1>6. ASSUME NEW c \in Callers, NEW key \in Keys, NEW def, NEW art, Begins(c, key, def, art),
             c \in Clients => key \in ClientKeys, runs' = runs
      PROVE  CallOK' /\ OneInserts' /\ OneRun'
  <2>1. call'[c].pc = "begun" /\ call'[c].key = key /\ \A d \in Callers \ {c} : call'[d] = call[d]
    BY <1>6 DEF Begins, IInv, TypeOK
  <2> QED
    BY <1>6, <2>1 DEF IInv, CallOK, OneInserts, OneRun, RunsOf
<1>7. ASSUME NEW c \in Callers, Submit(c)
      PROVE  CallOK' /\ OneInserts' /\ OneRun'
  BY <1>6, <1>7 DEF Submit, Keys
<1>8. ASSUME NEW c \in Callers, SubmitOccurrence(c)
      PROVE  CallOK' /\ OneInserts' /\ OneRun'
  <2>1. c \notin Clients /\ \A o \in batch[c] : o \in Keys
    BY <1>8, SubmissionAssumption DEF SubmitOccurrence, IInv, TypeOK, Keys
  <2> QED
    BY <1>6, <1>8, <2>1 DEF SubmitOccurrence
<1>9. ASSUME UNCHANGED <<call, runs>>
      PROVE  CallOK' /\ OneInserts' /\ OneRun'
  BY <1>9 DEF IInv, CallOK, OneInserts, OneRun, RunsOf
<1>10. ASSUME NEW c \in Schedulers, FireSchedules(c)
       PROVE  UNCHANGED <<call, runs>>
  BY <1>10 DEF FireSchedules
<1>11. ASSUME NEW s \in Schedules, CreateSchedule(s) \/ PatchSchedule(s) \/ DeleteSchedule(s)
       PROVE  UNCHANGED <<call, runs>>
  BY <1>11, Zenon DEF CreateSchedule, PatchSchedule, DeleteSchedule
<1>12. ASSUME Minute \/ UNCHANGED vars
       PROVE  UNCHANGED <<call, runs>>
  BY <1>12 DEF Minute, vars
<1> QED
  BY <1>1, <1>2, <1>3, <1>4, <1>5, <1>7, <1>8, <1>9, <1>10, <1>11, <1>12, SubmissionAssumption DEF Next, Steps

\* IInv is inductive.
THEOREM Invariance == Spec => []IInv
<1>1. Init => IInv
  BY SubmissionAssumption DEF Init, IInv, TypeOK, CallOK, OneInserts, OneRun, Idle, NoSchedule, Policies
<1>2. IInv /\ [Next]_vars => IInv'
  BY TypeStep, CallStep DEF IInv
<1> QED
  BY <1>1, <1>2, PTL DEF Spec

\* Types of the rows, of the calls under way and of the answers hold whatever callers do.
THEOREM TypeCorrect == Spec => []TypeOK
<1>1. IInv => TypeOK
  BY DEF IInv
<1> QED
  BY <1>1, Invariance, PTL

-----------------------------------------------------------------------------
(* The registry.                                                           *)

Pairs(rs) == {<<run.key, run.id>> : run \in rs}
Told(as) == {<<a.key, a.run>> : a \in {b \in as : b.run # NoRun}}

\* An answer that names no run tells nobody of one.
LEMMA ToldNothing ==
    ASSUME NEW as, NEW a, a.run = NoRun
    PROVE  Told(as \cup {a}) = Told(as)
BY Zenon DEF Told

\* An answer that names a run tells its pair.
LEMMA ToldPair ==
    ASSUME NEW as, NEW a, a.run # NoRun
    PROVE  Told(as \cup {a}) = Told(as) \cup {<<a.key, a.run>>}
BY Zenon DEF Told

\* A new run adds its pair.
LEMMA PairsAdd ==
    ASSUME NEW rs, NEW r
    PROVE  Pairs(rs \cup {r}) = Pairs(rs) \cup {<<r.key, r.id>>}
BY DEF Pairs

\* A call that returns no run tells of none.
LEMMA ReturnsNoRun ==
    ASSUME NEW c \in Callers, NEW result, Returns(c, result, NoRun)
    PROVE  Told(answers') = Told(answers)
<1>1. CASE answers' = answers
  BY <1>1
<1>2. CASE answers' # answers
  <2>1. PICK art : answers' = answers \cup {[key |-> call[c].key, run |-> NoRun, refused |-> art]}
    BY <1>2, Zenon DEF Returns
  <2> QED
    BY <2>1, ToldNothing
<1> QED
  BY <1>1, <1>2

\* A call that returns a run tells its client, if it has one, the run of its key.
LEMMA ReturnsRun ==
    ASSUME NEW c \in Callers, NEW run \in RunIds, Returns(c, "run", run)
    PROVE  Told(answers') \in {Told(answers), Told(answers) \cup {<<call[c].key, run>>}}
<1>1. CASE c \notin Clients
  BY <1>1, ReturnsAnswer
<1>2. CASE c \in Clients
  <2> DEFINE a == [key |-> call[c].key, run |-> run, refused |-> NoArtifact]
  <2>1. answers' = answers \cup {a} /\ a.run # NoRun
    BY <1>2, ReturnsAnswer, SubmissionAssumption
  <2>2. Told(answers') = Told(answers) \cup {<<a.key, a.run>>}
    BY <2>1, ToldPair, Zenon
  <2> QED
    BY <2>2
<1> QED
  BY <1>1, <1>2

\* A committed run was not registered, nor was its key.
LEMMA StoredRegisters ==
    ASSUME IInv, NEW c \in Callers, Stored(c)
    PROVE  /\ call[c].key \in Keys /\ NewId \in RunIds
           /\ \A pair \in Pairs(runs) : pair[1] # call[c].key /\ pair[2] # NewId
           /\ Pairs(runs') = Pairs(runs) \cup {<<call[c].key, NewId>>}
<1> DEFINE new == [id |-> NewId, key |-> call[c].key, def |-> call[c].def, art |-> call[c].art]
<1>1. runs' = runs \cup {new} /\ call[c].pc = "inserted"
  BY DEF Stored
<1>2. call[c].key \in Keys /\ RunsOf(call[c].key) = {}
  BY <1>1 DEF IInv, CallOK
<1>3. NewId \in FreshIds
  BY StoredType DEF IInv
<1>4. \A pair \in Pairs(runs) : pair[1] # call[c].key /\ pair[2] # NewId
  BY <1>2, <1>3 DEF Pairs, RunsOf, FreshIds
<1>5. Pairs(runs') = Pairs(runs) \cup {<<new.key, new.id>>}
  BY <1>1, PairsAdd, Zenon
<1> QED
  BY <1>2, <1>3, <1>4, <1>5 DEF FreshIds

\* Every step of CreateRun, of schedules and of the clock is a step of the registry, or none.
LEMMA RegistryStep ==
    ASSUME IInv, [Next]_vars
    PROVE  \/ Pairs(runs') = Pairs(runs) /\ Told(answers') = Told(answers)
           \/ \E k \in Keys, run \in RunIds :
                \/ /\ \A pair \in Pairs(runs) : pair[1] # k /\ pair[2] # run
                   /\ Pairs(runs') = Pairs(runs) \cup {<<k, run>>}
                   /\ Told(answers') \in {Told(answers), Told(answers) \cup {<<k, run>>}}
                \/ /\ <<k, run>> \in Pairs(runs)
                   /\ Told(answers') = Told(answers) \cup {<<k, run>>}
                   /\ Pairs(runs') = Pairs(runs)
<1> DEFINE Same == Pairs(runs') = Pairs(runs) /\ Told(answers') = Told(answers)
           Registers(k, run) == /\ \A pair \in Pairs(runs) : pair[1] # k /\ pair[2] # run
                                /\ Pairs(runs') = Pairs(runs) \cup {<<k, run>>}
                                /\ Told(answers') \in {Told(answers), Told(answers) \cup {<<k, run>>}}
           Repeats(k, run) == /\ <<k, run>> \in Pairs(runs)
                              /\ Told(answers') = Told(answers) \cup {<<k, run>>}
                              /\ Pairs(runs') = Pairs(runs)
           Goal == Same \/ \E k \in Keys, run \in RunIds : Registers(k, run) \/ Repeats(k, run)
<1>1. ASSUME NEW c \in Callers, LockArtifact(c)
      PROVE  Same
  BY <1>1, ReturnsNoRun, Zenon DEF LockArtifact
<1>2. ASSUME NEW c \in Callers, InsertRun(c)
      PROVE  Goal
  <2>1. runs' = runs
    BY <1>2, Zenon DEF InsertRun
  <2>2. CASE Returns(c, "not found", NoRun)
    BY <2>1, <2>2, ReturnsNoRun, Zenon
  <2>3. CASE Inserted(c)
    BY <2>1, <2>3 DEF Inserted
  <2>4. CASE ExistingRun(c)
    <3>1. PICK run \in RunsOf(call[c].key) : Returns(c, "run", run.id)
      BY <2>4 DEF ExistingRun
    <3>2. run \in runs /\ run.key = call[c].key /\ run.id \in RunIds /\ run.key \in Keys
      BY <3>1 DEF RunsOf, IInv, TypeOK
    <3>3. <<call[c].key, run.id>> \in Pairs(runs)
      BY <3>2 DEF Pairs
    <3>4. Told(answers') \in {Told(answers), Told(answers) \cup {<<call[c].key, run.id>>}}
      BY <3>1, <3>2, ReturnsRun
    <3> QED
      BY <2>1, <3>2, <3>3, <3>4
  <2> QED
    BY <1>2, <2>2, <2>3, <2>4, Zenon DEF InsertRun
<1>3. ASSUME NEW c \in Callers, AttachRefused(c) \/ Aborts(c)
      PROVE  Same
  BY <1>3, ReturnsNoRun DEF AttachRefused, Aborts
<1>4. ASSUME NEW c \in Callers, Commit(c)
      PROVE  Goal
  <2>1. Stored(c) /\ Returns(c, "run", NewId)
    BY <1>4 DEF Commit
  <2>2. Told(answers') \in {Told(answers), Told(answers) \cup {<<call[c].key, NewId>>}}
    BY <2>1, ReturnsRun, StoredRegisters
  <2> QED
    BY <2>1, <2>2, StoredRegisters
<1>5. ASSUME NEW c \in Callers, CommitUnanswered(c)
      PROVE  Goal
  <2>1. Stored(c) /\ Told(answers') = Told(answers)
    BY <1>5, ReturnsNoRun DEF CommitUnanswered
  <2> QED
    BY <2>1, StoredRegisters
<1>6. ASSUME NEW c \in Callers, Submit(c) \/ SubmitOccurrence(c)
      PROVE  Same
  BY <1>6 DEF Submit, SubmitOccurrence
<1>7. ASSUME NEW c \in Schedulers, FireSchedules(c)
      PROVE  Same
  BY <1>7 DEF FireSchedules
<1>8. ASSUME NEW s \in Schedules, CreateSchedule(s) \/ PatchSchedule(s) \/ DeleteSchedule(s)
      PROVE  Same
  BY <1>8, Zenon DEF CreateSchedule, PatchSchedule, DeleteSchedule
<1>9. ASSUME Minute \/ UNCHANGED vars
      PROVE  Same
  BY <1>9 DEF Minute, vars
<1>10. Goal
  BY <1>1, <1>2, <1>3, <1>4, <1>5, <1>6, <1>7, <1>8, <1>9, SubmissionAssumption, Zenon DEF Next, Steps
<1> QED
  BY <1>10, Zenon

\* CreateRun implements the registry: whatever any number of callers do at once, a key gets one
\* run, the run of a key never changes, and all answers to it name that run.
THEOREM Refinement == Spec => ImplementsRegistry
<1>1. Init => Registry!RegistryInit
  BY DEF Init, Registry!RegistryInit
<1>2. IInv /\ [Next]_vars => [Registry!RegistryNext]_(Registry!registry)
  <2> SUFFICES ASSUME IInv, [Next]_vars
               PROVE  [Registry!RegistryNext]_(Registry!registry)
    OBVIOUS
  <2> QED
    BY RegistryStep, Zenon DEF Pairs, Told, Registry!RegistryNext, Registry!Register, Registry!Repeat, Registry!registry
<1> QED
  BY <1>1, <1>2, Invariance, PTL DEF Spec, ImplementsRegistry, Registry!RegistrySpec

-----------------------------------------------------------------------------
(* Input artifacts.                                                        *)

\* Only a commit changes runs and artifacts, and only an artifact that is free is attached.
LEMMA ArtifactStep ==
    ASSUME IInv, ArtifactNamesItsRun, [Next]_vars
    PROVE  ArtifactNamesItsRun'
<1>1. ASSUME NEW c \in Callers, Stored(c)
      PROVE  ArtifactNamesItsRun'
  <2> DEFINE new == [id |-> NewId, key |-> call[c].key, def |-> call[c].def, art |-> call[c].art]
  <2>1. /\ runs' = runs \cup {new} /\ Free(new.art)
        /\ attached' = [a \in Artifacts |-> IF a = new.art THEN new.id ELSE attached[a]]
    BY <1>1 DEF Stored
  <2>2. new.art \in Artifacts \cup {NoArtifact}
    BY <1>1 DEF Stored, IInv, TypeOK, CallOK
  <2>3. \A run \in runs : run.art \in Artifacts \cup {NoArtifact} /\ run.id \in RunIds
    BY DEF IInv, TypeOK
  <2>4. ASSUME NEW run \in runs, run.art # NoArtifact
        PROVE  run.art # new.art
    BY <2>1, <2>3, <2>4, SubmissionAssumption DEF ArtifactNamesItsRun, Free
  <2>5. \A run \in runs' : run.art # NoArtifact => attached'[run.art] = run.id
    <3>1. new.art # NoArtifact => attached'[new.art] = new.id
      BY <2>1, <2>2
    <3>2. \A run \in runs : run.art # NoArtifact => attached'[run.art] = run.id
      BY <2>1, <2>3, <2>4 DEF ArtifactNamesItsRun
    <3> QED
      BY <2>1, <3>1, <3>2
  <2>6. \A a \in Artifacts : attached'[a] # NoRun => \E run \in runs' : run.id = attached'[a] /\ run.art = a
    BY <2>1, Zenon DEF ArtifactNamesItsRun
  <2> QED
    BY <2>5, <2>6 DEF ArtifactNamesItsRun
<1>2. ASSUME UNCHANGED <<runs, attached>>
      PROVE  ArtifactNamesItsRun'
  BY <1>2 DEF ArtifactNamesItsRun
<1>3. ASSUME NEW c \in Callers, Steps(c) \/ Submit(c) \/ CommitUnanswered(c) \/ Aborts(c)
      PROVE  Stored(c) \/ UNCHANGED <<runs, attached>>
  BY <1>3, Zenon DEF Steps, LockArtifact, InsertRun, AttachRefused, Commit, SubmitOccurrence, Submit, CommitUnanswered, Aborts
<1>4. ASSUME NEW c \in Schedulers, FireSchedules(c)
      PROVE  UNCHANGED <<runs, attached>>
  BY <1>4 DEF FireSchedules
<1>5. ASSUME NEW s \in Schedules, CreateSchedule(s) \/ PatchSchedule(s) \/ DeleteSchedule(s)
      PROVE  UNCHANGED <<runs, attached>>
  BY <1>5, Zenon DEF CreateSchedule, PatchSchedule, DeleteSchedule
<1>6. ASSUME Minute \/ UNCHANGED vars
      PROVE  UNCHANGED <<runs, attached>>
  BY <1>6 DEF Minute, vars
<1> QED
  BY <1>1, <1>2, <1>3, <1>4, <1>5, <1>6, SubmissionAssumption DEF Next

\* An input artifact and the run created with it name each other, whatever callers race for it.
THEOREM ArtifactConsistent == Spec => []ArtifactNamesItsRun
<1>1. Init => ArtifactNamesItsRun
  BY DEF Init, ArtifactNamesItsRun
<1> QED
  BY <1>1, ArtifactStep, Invariance, PTL DEF Spec

\* A conflict that is answered names an artifact some run of another key holds; runs stay.
LEMMA ConflictStep ==
    ASSUME IInv, ArtifactNamesItsRun, ConflictIsAnotherKeys, [Next]_vars
    PROVE  ConflictIsAnotherKeys'
<1>1. ASSUME NEW c \in Callers, NEW result, NEW run, Returns(c, result, run), result # "conflict", runs \subseteq runs'
      PROVE  ConflictIsAnotherKeys'
  <2>1. \A a \in answers' : a \in answers \/ a.refused = NoArtifact
    BY <1>1 DEF Returns
  <2> QED
    BY <1>1, <2>1 DEF ConflictIsAnotherKeys
<1>2. ASSUME NEW c \in Callers, AttachRefused(c)
      PROVE  ConflictIsAnotherKeys'
  <2>1. /\ call[c].pc = "inserted" /\ call[c].art # NoArtifact /\ attached[call[c].art] # NoRun
        /\ runs' = runs /\ Returns(c, "conflict", NoRun)
    BY <1>2 DEF AttachRefused, Free
  <2>2. call[c].art \in Artifacts /\ RunsOf(call[c].key) = {}
    BY <2>1, Zenon DEF IInv, TypeOK, CallOK
  <2>3. \E run \in runs : run.art = call[c].art /\ run.key # call[c].key
    <3>1. PICK run \in runs : run.art = call[c].art
      BY <2>1, <2>2 DEF ArtifactNamesItsRun
    <3>2. run.key # call[c].key
      BY <2>2 DEF RunsOf
    <3> QED
      BY <3>1, <3>2
  <2>4. \A a \in answers' : a \in answers \/ (a.refused = call[c].art /\ a.key = call[c].key)
    BY <2>1 DEF Returns
  <2> QED
    BY <2>1, <2>3, <2>4 DEF ConflictIsAnotherKeys
<1>3. ASSUME UNCHANGED <<runs, answers>>
      PROVE  ConflictIsAnotherKeys'
  BY <1>3 DEF ConflictIsAnotherKeys
<1>4. ASSUME NEW c \in Callers, LockArtifact(c)
      PROVE  ConflictIsAnotherKeys'
  BY <1>1, <1>3, <1>4, Zenon DEF LockArtifact
<1>5. ASSUME NEW c \in Callers, InsertRun(c)
      PROVE  ConflictIsAnotherKeys'
  BY <1>1, <1>3, <1>5, Zenon DEF InsertRun, Inserted, ExistingRun
<1>6. ASSUME NEW c \in Callers, Commit(c) \/ CommitUnanswered(c) \/ Aborts(c)
      PROVE  ConflictIsAnotherKeys'
  BY <1>1, <1>6 DEF Commit, CommitUnanswered, Aborts, Stored
<1>7. ASSUME NEW c \in Callers, Submit(c) \/ SubmitOccurrence(c)
      PROVE  UNCHANGED <<runs, answers>>
  BY <1>7 DEF Submit, SubmitOccurrence
<1>8. ASSUME NEW c \in Schedulers, FireSchedules(c)
      PROVE  UNCHANGED <<runs, answers>>
  BY <1>8 DEF FireSchedules
<1>9. ASSUME NEW s \in Schedules, CreateSchedule(s) \/ PatchSchedule(s) \/ DeleteSchedule(s)
      PROVE  UNCHANGED <<runs, answers>>
  BY <1>9, Zenon DEF CreateSchedule, PatchSchedule, DeleteSchedule
<1>10. ASSUME Minute \/ UNCHANGED vars
       PROVE  UNCHANGED <<runs, answers>>
  BY <1>10 DEF Minute, vars
<1> QED
  BY <1>2, <1>3, <1>4, <1>5, <1>6, <1>7, <1>8, <1>9, <1>10, SubmissionAssumption DEF Next, Steps

\* Repeating a submission is never refused because of the artifact its first execution attached.
THEOREM ConflictJustified == Spec => []ConflictIsAnotherKeys
<1>1. Init => ConflictIsAnotherKeys
  BY DEF Init, ConflictIsAnotherKeys
<1> QED
  BY <1>1, ConflictStep, ArtifactConsistent, Invariance, PTL DEF Spec

-----------------------------------------------------------------------------
(* Occurrences.                                                            *)

\* Why a scheduler's CreateRun is neither refused nor told "not found": the
\* schedules it takes have a definition, and it names no artifact.
SchedulersSubmit ==
    /\ \A s \in Schedules : schedule[s].row # "none" => schedule[s].def # Unknown
    /\ \A c \in Schedulers :
          /\ \A o \in batch[c] : schedule[o[1]].row # "none"
          /\ call[c].pc # "idle" => call[c].art = NoArtifact /\ call[c].def # Unknown

\* Rows of schedules keep their definition once they are there.
LEMMA ScheduleStep ==
    ASSUME IInv, [Next]_vars, \A s \in Schedules : schedule[s].row # "none" => schedule[s].def # Unknown
    PROVE  \A s \in Schedules : /\ schedule'[s].row # "none" => schedule'[s].def # Unknown
                                /\ schedule[s].row # "none" => schedule'[s].row # "none"
<1> DEFINE Kept == \A s \in Schedules : /\ schedule'[s].row # "none" => schedule'[s].def # Unknown
                                        /\ schedule[s].row # "none" => schedule'[s].row # "none"
           Row == [row : {"none", "there", "deleted"}, enabled : BOOLEAN, next : Nat,
                   policy : Policies, def : Definitions \cup {Unknown}]
<1>0. schedule \in [Schedules -> Row]
  BY DEF IInv, TypeOK
<1>1. ASSUME schedule' = schedule
      PROVE  Kept
  BY <1>1
<1>2. ASSUME NEW c \in Schedulers, FireSchedules(c)
      PROVE  Kept
  <2>1. PICK due \in SUBSET Due \ {{}} :
          schedule' = [s \in Schedules |->
              IF s \in due THEN [schedule[s] EXCEPT !.next = NextTime(Base(s))] ELSE schedule[s]]
    BY <1>2, Zenon DEF FireSchedules
  <2>2. \A s \in Schedules : schedule'[s].row = schedule[s].row /\ schedule'[s].def = schedule[s].def
    BY <1>0, <2>1
  <2> QED
    BY <2>2
<1>3. ASSUME NEW s \in Schedules, CreateSchedule(s)
      PROVE  Kept
  <2>1. PICK policy \in Policies, next \in {NextTime(now), now}, def \in Definitions :
          schedule' = [schedule EXCEPT ![s] = [row |-> "there", enabled |-> TRUE, next |-> next,
                                               policy |-> policy, def |-> def]]
    BY <1>3, Zenon DEF CreateSchedule
  <2>2. PICK row : row = [row |-> "there", enabled |-> TRUE, next |-> next,
                          policy |-> policy, def |-> def]
    BY Zenon
  <2>3. row.row = "there" /\ row.def # Unknown
    BY <2>2, SubmissionAssumption
  <2>4. schedule' = [schedule EXCEPT ![s] = row]
    BY <2>1, <2>2
  <2> QED
    BY <1>0, <2>3, <2>4
<1>4. ASSUME NEW s \in Schedules, PatchSchedule(s)
      PROVE  Kept
  <2>1. PICK enabled \in BOOLEAN, next \in {schedule[s].next} \cup PatchTimes :
          schedule' = [schedule EXCEPT ![s] = [schedule[s] EXCEPT !.enabled = enabled, !.next = next]]
    BY <1>4, Zenon DEF PatchSchedule
  <2>2. PICK row : row = [schedule[s] EXCEPT !.enabled = enabled, !.next = next]
    OBVIOUS
  <2>3. row.row = schedule[s].row /\ row.def = schedule[s].def
    <3>1. PICK half : half = [schedule[s] EXCEPT !.enabled = enabled]
      BY Zenon
    <3>2. half \in Row /\ half.row = schedule[s].row /\ half.def = schedule[s].def
      BY <1>0, <3>1
    <3>3. row = [half EXCEPT !.next = next]
      BY <2>2, <3>1
    <3> QED
      BY <3>2, <3>3
  <2>4. schedule' = [schedule EXCEPT ![s] = row]
    BY <2>1, <2>2
  <2> QED
    BY <1>0, <2>3, <2>4
<1>5. ASSUME NEW s \in Schedules, DeleteSchedule(s)
      PROVE  Kept
  <2>1. schedule' = [schedule EXCEPT ![s] = [schedule[s] EXCEPT !.row = "deleted", !.enabled = FALSE]]
        /\ schedule[s].row = "there"
    BY <1>5 DEF DeleteSchedule
  <2>2. PICK row : row = [schedule[s] EXCEPT !.row = "deleted", !.enabled = FALSE]
    OBVIOUS
  <2>3. row.row = "deleted" /\ row.def = schedule[s].def
    <3>1. PICK half : half = [schedule[s] EXCEPT !.row = "deleted"]
      BY Zenon
    <3>2. half \in Row /\ half.row = "deleted" /\ half.def = schedule[s].def
      BY <1>0, <3>1
    <3>3. row = [half EXCEPT !.enabled = FALSE]
      BY <2>2, <3>1
    <3> QED
      BY <3>2, <3>3
  <2>4. schedule' = [schedule EXCEPT ![s] = row]
    BY <2>1, <2>2
  <2> QED
    BY <1>0, <2>1, <2>3, <2>4
<1>6. ASSUME NEW c \in Callers, Steps(c) \/ Submit(c) \/ CommitUnanswered(c) \/ Aborts(c)
      PROVE  schedule' = schedule
  BY <1>6 DEF Steps, LockArtifact, InsertRun, Inserted, ExistingRun, AttachRefused, Commit, SubmitOccurrence,
              Submit, CommitUnanswered, Aborts, Returns
<1>7. ASSUME Minute \/ UNCHANGED vars
      PROVE  schedule' = schedule
  BY <1>7 DEF Minute, vars
<1> QED
  BY <1>1, <1>2, <1>3, <1>4, <1>5, <1>6, <1>7, SubmissionAssumption DEF Next

\* A call of a scheduler that succeeds leaves all but its own occurrence in the batch.
LEMMA ReturnsBatch ==
    ASSUME IInv, NEW c \in Callers, NEW result, NEW run, Returns(c, result, run)
    PROVE  /\ taken' = taken
           /\ c \notin Schedulers => batch' = batch
           /\ \A d \in Schedulers \ {c} : batch'[d] = batch[d]
           /\ \A d \in Schedulers : batch'[d] \subseteq batch[d]
           /\ c \in Schedulers /\ result = "run" => batch'[c] = batch[c] \ {call[c].key}
BY DEF Returns, IInv, TypeOK

\* Every step keeps what makes a scheduler's calls succeed.
LEMMA SubmitStep ==
    ASSUME IInv, SchedulersSubmit, [Next]_vars
    PROVE  SchedulersSubmit'
<1> USE DEF IInv
<1>1. \A s \in Schedules : /\ schedule'[s].row # "none" => schedule'[s].def # Unknown
                           /\ schedule[s].row # "none" => schedule'[s].row # "none"
  BY ScheduleStep DEF SchedulersSubmit
<1>2. \A c \in Schedulers : \A o \in batch[c] : o[1] \in Schedules
  BY DEF TypeOK, Occurrences
<1>3. ASSUME NEW c \in Callers, NEW result, NEW run, Returns(c, result, run)
      PROVE  SchedulersSubmit'
  <2>1. \A d \in Schedulers : batch'[d] \subseteq batch[d] /\ (call'[d].pc # "idle" => call'[d] = call[d])
    BY <1>3, ReturnsBatch, ReturnsCall DEF Callers
  <2> QED
    BY <1>1, <1>2, <2>1 DEF SchedulersSubmit
<1>4. ASSUME NEW c \in Callers, NEW pc \in {"locked", "inserted"}, call' = [call EXCEPT ![c].pc = pc],
             call[c].pc # "idle", batch' = batch
      PROVE  SchedulersSubmit'
  <2>1. \A d \in Schedulers : call'[d].pc # "idle" =>
            call[d].pc # "idle" /\ call'[d].art = call[d].art /\ call'[d].def = call[d].def
    BY <1>4, PcUpdate DEF Callers
  <2> QED
    BY <1>1, <1>2, <1>4, <2>1 DEF SchedulersSubmit
<1>5. ASSUME NEW c \in Callers, LockArtifact(c)
      PROVE  SchedulersSubmit'
  BY <1>3, <1>4, <1>5, Zenon DEF LockArtifact
<1>6. ASSUME NEW c \in Callers, InsertRun(c)
      PROVE  SchedulersSubmit'
  BY <1>3, <1>4, <1>6, Zenon DEF InsertRun, Inserted, ExistingRun
<1>7. ASSUME NEW c \in Callers, AttachRefused(c) \/ Commit(c) \/ CommitUnanswered(c) \/ Aborts(c)
      PROVE  SchedulersSubmit'
  BY <1>3, <1>7 DEF AttachRefused, Commit, CommitUnanswered, Aborts
<1>8. ASSUME NEW c \in Callers, SubmitOccurrence(c)
      PROVE  SchedulersSubmit'
  <2>1. PICK o \in batch[c] : Begins(c, o, schedule[o[1]].def, NoArtifact)
    BY <1>8 DEF SubmitOccurrence
  <2>2. c \in Schedulers /\ batch' = batch
    BY <1>8 DEF SubmitOccurrence
  <2>3. schedule[o[1]].def # Unknown
    BY <1>2, <2>1, <2>2 DEF SchedulersSubmit
  <2>4. call'[c].art = NoArtifact /\ call'[c].def # Unknown /\ \A d \in Callers \ {c} : call'[d] = call[d]
    BY <2>1, <2>3 DEF Begins, TypeOK
  <2> QED
    BY <1>1, <1>2, <2>2, <2>4 DEF SchedulersSubmit, Callers
<1>9. ASSUME NEW c \in Callers, Submit(c)
      PROVE  SchedulersSubmit'
  <2>1. batch' = batch /\ \A d \in Schedulers : call'[d] = call[d]
    BY <1>9, SubmissionAssumption, ZenonT(60) DEF Submit, Begins, TypeOK, Callers
  <2> QED
    BY <1>1, <1>2, <2>1 DEF SchedulersSubmit
<1>10. ASSUME NEW c \in Schedulers, FireSchedules(c)
       PROVE  SchedulersSubmit'
  <2>1. PICK due \in SUBSET Due \ {{}} : batch' = [batch EXCEPT ![c] = {<<s, schedule[s].next>> : s \in due}]
    BY <1>10, Zenon DEF FireSchedules
  <2>2. \A o \in {<<s, schedule[s].next>> : s \in due} : o[1] \in Schedules /\ schedule[o[1]].row # "none"
    BY DEF Due
  <2>3. \A d \in Schedulers : \A o \in batch'[d] : o[1] \in Schedules /\ schedule[o[1]].row # "none"
    BY <1>2, <2>1, <2>2 DEF SchedulersSubmit, TypeOK
  <2>4. call' = call
    BY <1>10 DEF FireSchedules
  <2> QED
    BY <1>1, <2>3, <2>4 DEF SchedulersSubmit
<1>11. ASSUME UNCHANGED <<call, batch>>
       PROVE  SchedulersSubmit'
  BY <1>1, <1>2, <1>11 DEF SchedulersSubmit
<1>12. ASSUME NEW s \in Schedules, CreateSchedule(s) \/ PatchSchedule(s) \/ DeleteSchedule(s)
       PROVE  UNCHANGED <<call, batch>>
  BY <1>12, Zenon DEF CreateSchedule, PatchSchedule, DeleteSchedule
<1>13. ASSUME Minute \/ UNCHANGED vars
       PROVE  UNCHANGED <<call, batch>>
  BY <1>13 DEF Minute, vars
<1> QED
  BY <1>5, <1>6, <1>7, <1>8, <1>9, <1>10, <1>11, <1>12, <1>13, SubmissionAssumption DEF Next, Steps

\* Until a fault, an occurrence leaves a batch only with its run.
LEMMA KeptStep ==
    ASSUME IInv, SchedulersSubmit, OccurrenceKept, [Next]_vars
    PROVE  OccurrenceKept'
<1> DEFINE Left(o) == (\E r \in runs' : r.key = o) \/ \E d \in Schedulers : o \in batch'[d]
<1>1. ASSUME taken' = taken, faults' = faults, runs \subseteq runs',
             \A d \in Schedulers : \A o \in batch[d] : Left(o)
      PROVE  OccurrenceKept'
  BY <1>1 DEF OccurrenceKept, RunsOf
<1>2. ASSUME NEW c \in Callers, NEW run, Returns(c, "run", run), \E r \in runs' : r.key = call[c].key,
             runs \subseteq runs', faults' = faults
      PROVE  OccurrenceKept'
  <2>1. \A d \in Schedulers : \A o \in batch[d] : o # call[c].key => o \in batch'[d]
    BY <1>2, ReturnsBatch
  <2>2. \A d \in Schedulers : \A o \in batch[d] : Left(o)
    BY <1>2, <2>1
  <2>3. taken' = taken
    BY <1>2, ReturnsBatch
  <2> QED
    BY <1>1, <1>2, <2>2, <2>3
<1>3. ASSUME NEW c \in Callers, c \notin Schedulers, NEW result, NEW run, Returns(c, result, run),
             runs' = runs, faults' = faults
      PROVE  OccurrenceKept'
  BY <1>1, <1>3, ReturnsBatch
<1>4. ASSUME UNCHANGED <<runs, batch, taken, faults>>
      PROVE  OccurrenceKept'
  BY <1>1, <1>4
<1>5. ASSUME NEW c \in Callers, LockArtifact(c)
      PROVE  OccurrenceKept'
  <2>1. c \in Schedulers => call[c].art # Unknown
    BY <1>5, SubmissionAssumption, Zenon DEF LockArtifact, SchedulersSubmit
  <2> QED
    BY <1>3, <1>4, <1>5, <2>1, Zenon DEF LockArtifact
<1>6. ASSUME NEW c \in Callers, InsertRun(c)
      PROVE  OccurrenceKept'
  <2>1. c \in Schedulers => call[c].def # Unknown
    BY <1>6, Zenon DEF InsertRun, SchedulersSubmit
  <2>2. CASE ExistingRun(c)
    <3>1. runs' = runs /\ (\E r \in runs : r.key = call[c].key) /\ \E run : Returns(c, "run", run)
      BY <1>6, <2>2, Zenon DEF InsertRun, ExistingRun, RunsOf
    <3> QED
      BY <1>2, <1>6, <3>1, Zenon DEF InsertRun
  <2>3. CASE Inserted(c)
    BY <1>4, <1>6, <2>3, Zenon DEF InsertRun, Inserted
  <2>4. CASE Returns(c, "not found", NoRun) /\ call[c].def = Unknown
    BY <1>3, <1>6, <2>1, <2>4, Zenon DEF InsertRun
  <2> QED
    BY <1>6, <2>2, <2>3, <2>4, Zenon DEF InsertRun
<1>7. ASSUME NEW c \in Callers, AttachRefused(c)
      PROVE  OccurrenceKept'
  <2>1. c \notin Schedulers
    BY <1>7 DEF AttachRefused, Free, SchedulersSubmit
  <2> QED
    BY <1>3, <1>7, <2>1 DEF AttachRefused
<1>8. ASSUME NEW c \in Callers, Commit(c)
      PROVE  OccurrenceKept'
  <2>1. \E r \in runs' : r.key = call[c].key
    <3> DEFINE new == [id |-> NewId, key |-> call[c].key, def |-> call[c].def, art |-> call[c].art]
    <3>1. new \in runs' /\ new.key = call[c].key
      BY <1>8 DEF Commit, Stored
    <3> QED
      BY <3>1
  <2>2. Returns(c, "run", NewId) /\ runs \subseteq runs' /\ faults' = faults
    BY <1>8 DEF Commit, Stored
  <2> QED
    BY <1>2, <2>1, <2>2
<1>9. ASSUME NEW c \in Callers, CommitUnanswered(c) \/ Aborts(c)
      PROVE  OccurrenceKept'
  <2>1. faults' # 0
    BY <1>9 DEF CommitUnanswered, Aborts, IInv, TypeOK
  <2> QED
    BY <2>1 DEF OccurrenceKept
<1>10. ASSUME NEW c \in Schedulers, FireSchedules(c)
       PROVE  OccurrenceKept'
  <2>1. PICK due \in SUBSET Due \ {{}} :
          /\ batch' = [batch EXCEPT ![c] = {<<s, schedule[s].next>> : s \in due}]
          /\ taken' = taken \cup {<<s, schedule[s].next>> : s \in due}
    BY <1>10, Zenon DEF FireSchedules
  <2>2. batch[c] = {} /\ runs' = runs /\ faults' = faults
    BY <1>10 DEF FireSchedules
  <2>3. \A o \in {<<s, schedule[s].next>> : s \in due} : o \in batch'[c]
    BY <2>1 DEF IInv, TypeOK
  <2>4. \A d \in Schedulers : \A o \in batch[d] : o \in batch'[d]
    BY <2>1, <2>2 DEF IInv, TypeOK
  <2> QED
    BY <2>1, <2>2, <2>3, <2>4 DEF OccurrenceKept, RunsOf
<1>11. ASSUME NEW c \in Callers, Submit(c) \/ SubmitOccurrence(c)
       PROVE  UNCHANGED <<runs, batch, taken, faults>>
  BY <1>11 DEF Submit, SubmitOccurrence
<1>12. ASSUME NEW s \in Schedules, CreateSchedule(s) \/ PatchSchedule(s) \/ DeleteSchedule(s)
       PROVE  UNCHANGED <<runs, batch, taken, faults>>
  BY <1>12, Zenon DEF CreateSchedule, PatchSchedule, DeleteSchedule
<1>13. ASSUME Minute \/ UNCHANGED vars
       PROVE  UNCHANGED <<runs, batch, taken, faults>>
  BY <1>13 DEF Minute, vars
<1> QED
  BY <1>4, <1>5, <1>6, <1>7, <1>8, <1>9, <1>10, <1>11, <1>12, <1>13, SubmissionAssumption DEF Next, Steps

\* Without a fault every occurrence that was taken has its run or is still to be
\* submitted, whatever is done to its schedule meanwhile.
THEOREM OccurrencesKept == Spec => []OccurrenceKept
<1>1. Init => SchedulersSubmit /\ OccurrenceKept
  BY DEF Init, SchedulersSubmit, OccurrenceKept, Idle, NoSchedule, Callers
<1> QED
  BY <1>1, SubmitStep, KeptStep, Invariance, PTL DEF Spec

\* Where the keys of runs come from: clients, or occurrences some fireSchedules has taken when
\* they were due.
KeysTaken ==
    /\ \A o \in taken : o[2] <= now
    /\ \A c \in Schedulers : batch[c] \subseteq taken
    /\ \A c \in Callers : call[c].pc # "idle" => call[c].key \in ClientKeys \cup taken
    /\ \A run \in runs : run.key \in ClientKeys \cup taken

\* A call that ends leaves no key that was not there.
LEMMA ReturnsKeys ==
    ASSUME IInv, KeysTaken, NEW c \in Callers, NEW result, NEW run, Returns(c, result, run),
           \A r \in runs' : r \in runs \/ (call[c].pc # "idle" /\ r.key = call[c].key)
    PROVE  KeysTaken'
<1>1. UNCHANGED <<taken, now>>
  BY DEF Returns
<1>2. \A d \in Schedulers : batch'[d] \subseteq batch[d]
  BY ReturnsBatch
<1>3. \A d \in Callers : call'[d].pc # "idle" => call'[d] = call[d]
  BY ReturnsCall DEF IInv
<1> QED
  BY <1>1, <1>2, <1>3 DEF KeysTaken

LEMMA KeysStep ==
    ASSUME IInv, KeysTaken, [Next]_vars
    PROVE  KeysTaken'
<1> USE DEF IInv
<1>1. ASSUME NEW c \in Callers, NEW pc \in {"locked", "inserted"}, call' = [call EXCEPT ![c].pc = pc],
             call[c].pc # "idle", UNCHANGED <<runs, batch, taken, now>>
      PROVE  KeysTaken'
  <2>1. \A d \in Callers : call'[d].pc # "idle" => call[d].pc # "idle" /\ call'[d].key = call[d].key
    BY <1>1, PcUpdate
  <2> QED
    BY <1>1, <2>1 DEF KeysTaken
<1>2. ASSUME NEW c \in Callers, LockArtifact(c) \/ InsertRun(c)
      PROVE  KeysTaken'
  <2>1. CASE \E result, run : Returns(c, result, run)
    BY <1>2, <2>1, ReturnsKeys, Zenon DEF LockArtifact, InsertRun
  <2>2. CASE ~\E result, run : Returns(c, result, run)
    BY <1>1, <1>2, <2>2, Zenon DEF LockArtifact, InsertRun, Inserted, ExistingRun
  <2> QED
    BY <2>1, <2>2
<1>3. ASSUME NEW c \in Callers, AttachRefused(c) \/ Aborts(c)
      PROVE  KeysTaken'
  BY <1>3, ReturnsKeys DEF AttachRefused, Aborts
<1>4. ASSUME NEW c \in Callers, Commit(c) \/ CommitUnanswered(c)
      PROVE  KeysTaken'
  <2>1. Stored(c) /\ \E result, run : Returns(c, result, run)
    BY <1>4 DEF Commit, CommitUnanswered
  <2>2. \A r \in runs' : r \in runs \/ (call[c].pc # "idle" /\ r.key = call[c].key)
    BY <2>1 DEF Stored
  <2> QED
    BY <2>1, <2>2, ReturnsKeys
<1>5. ASSUME NEW c \in Callers, Submit(c)
      PROVE  KeysTaken'
  <2>1. PICK key \in ClientKeys, def \in Definitions \cup {Unknown}, art \in Artifacts \cup {NoArtifact, Unknown} :
             Begins(c, key, def, art)
    BY <1>5 DEF Submit
  <2>2. call'[c].key = key /\ \A d \in Callers \ {c} : call'[d] = call[d]
    BY <2>1 DEF Begins, TypeOK
  <2>3. UNCHANGED <<runs, batch, taken, now>>
    BY <1>5 DEF Submit
  <2> QED
    BY <2>2, <2>3 DEF KeysTaken
<1>6. ASSUME NEW c \in Callers, SubmitOccurrence(c)
      PROVE  KeysTaken'
  <2>1. PICK o \in batch[c] : Begins(c, o, schedule[o[1]].def, NoArtifact)
    BY <1>6 DEF SubmitOccurrence
  <2>2. call'[c].key = o /\ \A d \in Callers \ {c} : call'[d] = call[d]
    BY <2>1 DEF Begins, TypeOK
  <2>3. c \in Schedulers /\ UNCHANGED <<runs, batch, taken, now>>
    BY <1>6, Zenon DEF SubmitOccurrence
  <2> QED
    BY <2>1, <2>2, <2>3 DEF KeysTaken
<1>7. ASSUME NEW c \in Schedulers, FireSchedules(c)
      PROVE  KeysTaken'
  <2>1. PICK due \in SUBSET Due \ {{}} :
          /\ batch' = [batch EXCEPT ![c] = {<<s, schedule[s].next>> : s \in due}]
          /\ taken' = taken \cup {<<s, schedule[s].next>> : s \in due}
    BY <1>7, Zenon DEF FireSchedules
  <2>2. \A o \in {<<s, schedule[s].next>> : s \in due} : o[2] <= now
    BY DEF Due
  <2>3. \A d \in Schedulers : batch'[d] \subseteq taken'
    BY <2>1 DEF KeysTaken, TypeOK
  <2>4. UNCHANGED <<runs, call, now>>
    BY <1>7 DEF FireSchedules
  <2> QED
    BY <2>1, <2>2, <2>3, <2>4 DEF KeysTaken
<1>8. ASSUME UNCHANGED <<runs, call, batch, taken>>, now' \in {now, now + 1}
      PROVE  KeysTaken'
  <2>1. \A o \in taken : o[2] \in Nat
    BY DEF TypeOK, Occurrences, Times
  <2>2. now \in Nat
    BY DEF TypeOK
  <2>3. \A o \in taken : o[2] <= now'
    BY <1>8, <2>1, <2>2 DEF KeysTaken
  <2> QED
    BY <1>8, <2>3 DEF KeysTaken
<1>9. ASSUME NEW s \in Schedules, CreateSchedule(s) \/ PatchSchedule(s) \/ DeleteSchedule(s)
      PROVE  KeysTaken'
  BY <1>8, <1>9, Zenon DEF CreateSchedule, PatchSchedule, DeleteSchedule
<1>10. ASSUME Minute \/ UNCHANGED vars
       PROVE  KeysTaken'
  BY <1>8, <1>10 DEF Minute, vars
<1> QED
  BY <1>2, <1>3, <1>4, <1>5, <1>6, <1>7, <1>9, <1>10, SubmissionAssumption DEF Next, Steps

\* The runs of schedules are those of distinct occurrences that fireSchedules took when they were
\* due, whatever is done to the schedules and however the schedulers race, as long as no client
\* chooses an Idempotency-Key of the form fireSchedules uses.
THEOREM OccurrencesRunOnce ==
    ASSUME ClientKeys \cap Occurrences = {}
    PROVE  Spec => []OccurrenceRunsOnce
<1>1. Init => KeysTaken
  BY DEF Init, KeysTaken, Idle
<1>2. ASSUME IInv, KeysTaken PROVE OccurrenceRunsOnce
  <2>1. ASSUME NEW run \in runs, run.key \in Occurrences
        PROVE  run.key \in taken /\ run.key[2] <= now /\ RunsOf(run.key) = {run}
    <3>1. run.key \in taken
      BY <1>2, <2>1 DEF KeysTaken
    <3>2. run.key[2] <= now
      BY <1>2, <3>1 DEF KeysTaken
    <3>3. RunsOf(run.key) = {run}
      BY <1>2 DEF IInv, OneRun, RunsOf
    <3> QED
      BY <3>1, <3>2, <3>3
  <2> QED
    BY <2>1 DEF OccurrenceRunsOnce
<1> QED
  BY <1>1, <1>2, KeysStep, Invariance, PTL DEF Spec

=============================================================================
