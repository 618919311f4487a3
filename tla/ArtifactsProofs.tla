-------------------------- MODULE ArtifactsProofs --------------------------
(***************************************************************************)
(* Proofs that READY artifacts keep their promise and that the result of a *)
(* task names its own artifacts, for any users, workers, bodies, limits    *)
(* and faults.                                                             *)
(***************************************************************************)
EXTENDS Artifacts, FiniteSetTheorems, TLAPS

\* A step that names no prover is tried by Zenon first, then by the SMT solver.
USE ZenonT(4), SMTT(60)

Task ==
    [status : {"READY", "LEASED", "RUNNING", "SUCCEEDED"},
     owner : Workers \cup {NoId}, live : BOOLEAN,
     out : Ids \cup {NoId}, log : Ids \cup {NoId}]

Row ==
    [status : {"none", "PENDING", "READY"}, kind : Kinds, ofTask : BOOLEAN,
     declared : Bodies \cup {Nothing}, checksum : BOOLEAN, by : Actors \cup {NoId}]

\* The places of a client that has the identifier of a row.
Transfer == {"put", "sent", "ask", "complete", "head", "hash", "mark"}

\* The places of a worker that has its result together.
Ending == {"finish", "verify", "commit"}

Actor ==
    [pc : {"idle", "leased", "start", "running", "create", "insert"} \cup Transfer \cup Ending,
     kind : Kinds, art : Ids \cup {NoId}, out : Ids \cup {NoId}, log : Ids \cup {NoId}]

Typed ==
    /\ up \subseteq Actors
    /\ task \in Task
    /\ row \in [Ids -> Row]
    /\ object \in [Ids -> Bodies \cup {Nothing}]
    /\ inflight \subseteq Ids \X Bodies
    /\ actor \in [Actors -> Actor]
    /\ faults \in Nat

\* Identifiers are handed out one after the other.
UsedInOrder == \E n \in 0..MaxId : Used = 1..n

\* An identifier that is not used names nothing, and a row declares a body within the limit.
RowOK(i) ==
    /\ row[i].status = "none" => object[i] = Nothing
    /\ row[i].status # "none" => row[i].declared \in Bodies /\ Size[row[i].declared] <= Limit[row[i].kind]

\* A row is uploaded to once, and while that PUT is under way there is no object.
PutOK(put) ==
    /\ row[put[1]].status # "none" /\ object[put[1]] = Nothing
    /\ \A other \in inflight : other[1] = put[1] => other = put

\* What a client that is at s knows about the row it has.
TransferOK(a, s) ==
    s.pc \in Transfer =>
        /\ s.art \in Ids /\ row[s.art].status # "none"
        /\ s.pc = "put" => /\ row[s.art].by = a /\ object[s.art] = Nothing
                           /\ \A put \in inflight : put[1] # s.art
        /\ s.pc \in {"hash", "mark"} =>
              object[s.art] # Nothing /\ Size[object[s.art]] = Size[row[s.art].declared]
        /\ s.pc = "mark" /\ row[s.art].checksum => object[s.art] = row[s.art].declared

\* An SDK worker only ever names rows it made, and its result has a log.
NamesOwn(a, s) ==
    a \in SdkWorkers =>
        /\ s.pc \in Transfer => row[s.art].by = a
        /\ \A i \in {s.out, s.log} \ {NoId} : row[i].status # "none" /\ row[i].by = a
        /\ s.pc \in Ending => s.log # NoId

\* What Verify has found stays true until CompleteTask.
Verified(s) == s.pc = "commit" => IsArtifactOf(s.out, "output") /\ IsArtifactOf(s.log, "log")

\* All that holds of a client a that is at s.
ActorOK(a, s) == TransferOK(a, s) /\ NamesOwn(a, s) /\ Verified(s)

\* The inductive invariant.
AInv ==
    /\ Typed
    /\ UsedInOrder
    /\ \A i \in Ids : RowOK(i)
    /\ \A put \in inflight : PutOK(put)
    /\ \A a \in Actors : ActorOK(a, actor[a])
    /\ ReadyObjectMatches
    /\ ResultIsOwners

-----------------------------------------------------------------------------
(* Facts about the state                                                   *)

\* uuid.NewString() returns an identifier nothing refers to yet.
LEMMA NewIdIsFresh ==
    ASSUME AInv, NewId \in Ids
    PROVE  /\ row[NewId].status = "none" /\ object[NewId] = Nothing
           /\ \A put \in inflight : put[1] # NewId
           /\ NewId \in 1..MaxId /\ Used \cup {NewId} = 1..NewId
<1>1. PICK n \in 0..MaxId : Used = 1..n
  BY DEF AInv, UsedInOrder
<1>2. n \in Nat /\ MaxId \in Nat
  BY ArtifactsAssumption
<1>3. Cardinality(1..n) = n
  BY <1>2, FS_Interval
<1>4. NewId = n + 1
  BY <1>1, <1>3 DEF NewId
<1>5. NewId \notin Used /\ Used \cup {NewId} = 1..NewId
  BY <1>1, <1>2, <1>4
<1>6. row[NewId].status = "none"
  BY <1>5 DEF Used
<1>7. object[NewId] = Nothing
  BY <1>6 DEF AInv, RowOK
<1>8. \A put \in inflight : put[1] # NewId
  BY <1>6 DEF AInv, PutOK
<1> QED
  BY <1>5, <1>6, <1>7, <1>8 DEF Ids

\* A client that drops everything is fine.
LEMMA RestingOK ==
    ASSUME NEW a \in Actors
    PROVE  Resting \in Actor /\ ActorOK(a, Resting)
BY DEF Resting, Actor, Kinds, ActorOK, TransferOK, NamesOwn, Verified, Transfer, Ending

\* A step that changes one client, and perhaps the task, keeps the invariant when it leaves
\* the client and the task's result in order.
LEMMA Moved ==
    ASSUME AInv, NEW a \in Actors, NEW s \in Actor, actor' = [actor EXCEPT ![a] = s],
           ActorOK(a, s), UNCHANGED <<up, row, object, inflight>>, faults' \in Nat,
           task' \in Task, ResultIsOwners'
    PROVE  AInv'
<1>1. Typed'
  BY DEF AInv, Typed
<1>2. UsedInOrder' /\ \A i \in Ids : RowOK(i)'
  BY DEF AInv, UsedInOrder, Used, RowOK
<1>3. \A put \in inflight' : PutOK(put)'
  BY DEF AInv, PutOK
<1>4. ASSUME NEW b \in Actors PROVE ActorOK(b, actor[b])'
  <2>1. actor'[b] = IF b = a THEN s ELSE actor[b]
    BY DEF AInv, Typed
  <2>2. ActorOK(b, actor'[b])
    BY <2>1 DEF AInv
  <2> QED
    BY <2>2 DEF ActorOK, TransferOK, NamesOwn, Verified, IsArtifactOf
<1>5. ReadyObjectMatches'
  BY DEF AInv, ReadyObjectMatches
<1> QED
  BY <1>1, <1>2, <1>3, <1>4, <1>5 DEF AInv

\* The same when the task is left alone.
LEMMA MovedOnly ==
    ASSUME AInv, NEW a \in Actors, NEW s \in Actor, actor' = [actor EXCEPT ![a] = s],
           ActorOK(a, s), UNCHANGED <<up, task, row, object, inflight>>, faults' \in Nat
    PROVE  AInv'
<1>1. task' \in Task
  BY DEF AInv, Typed
<1>2. ResultIsOwners'
  BY DEF AInv, ResultIsOwners
<1> QED
  BY <1>1, <1>2, Moved, Zenon

\* A failed call that leaves the task alone.
LEMMA GaveUp ==
    ASSUME AInv, NEW a \in Actors, GivesUp(a),
           UNCHANGED <<up, task, row, object, inflight>>, faults' \in Nat
    PROVE  AInv'
BY RestingOK, MovedOnly, Zenon DEF GivesUp

\* A client that moves to the place p.
LEMMA Went ==
    ASSUME AInv, NEW a \in Actors, NEW p, Goes(a, p),
           [actor[a] EXCEPT !.pc = p] \in Actor, ActorOK(a, [actor[a] EXCEPT !.pc = p]),
           UNCHANGED <<up, task, row, object, inflight, faults>>
    PROVE  AInv'
<1>1. actor' = [actor EXCEPT ![a] = [actor[a] EXCEPT !.pc = p]]
  BY DEF Goes, AInv, Typed
<1>2. faults' \in Nat
  BY DEF AInv, Typed
<1> QED
  BY <1>1, <1>2, MovedOnly, Zenon

-----------------------------------------------------------------------------
(* Steps of the rows and the store                                         *)

\* Rows that are used keep what was declared, and become READY at most.
RowsGrow ==
    \A i \in Ids : row[i].status # "none" =>
        /\ row'[i].status \in {row[i].status, "READY"}
        /\ row'[i].kind = row[i].kind /\ row'[i].ofTask = row[i].ofTask /\ row'[i].by = row[i].by
        /\ row'[i].declared = row[i].declared /\ row'[i].checksum = row[i].checksum

\* Objects are never replaced.
ObjectsKept == \A i \in Ids : object[i] # Nothing => object'[i] = object[i]

\* While rows grow and objects are kept, a client that does not move stays in order if the row
\* it is about to upload to is left alone.
LEMMA ActorKept ==
    ASSUME AInv, NEW b \in Actors, actor'[b] = actor[b], RowsGrow, ObjectsKept,
           actor[b].pc = "put" =>
              object'[actor[b].art] = Nothing /\ \A put \in inflight' : put[1] # actor[b].art
    PROVE  ActorOK(b, actor[b])'
<1> DEFINE s == actor[b]
<1>1. s \in Actor /\ ActorOK(b, s)
  BY DEF AInv, Typed
<1>2. TransferOK(b, s)'
  BY <1>1 DEF ActorOK, TransferOK, RowsGrow, ObjectsKept
<1>3. NamesOwn(b, s)'
  BY <1>1 DEF ActorOK, NamesOwn, TransferOK, RowsGrow, Actor
<1>4. Verified(s)'
  BY <1>1 DEF ActorOK, Verified, IsArtifactOf, RowsGrow, Actor
<1> QED
  BY <1>2, <1>3, <1>4 DEF ActorOK

\* The result of a finished task is not touched by what happens to other rows.
LEMMA ResultKept ==
    ASSUME AInv, RowsGrow, UNCHANGED task
    PROVE  ResultIsOwners'
<1> DEFINE Named(i, kind) ==
       i # NoId => /\ row[i].status = "READY" /\ row[i].kind = kind /\ row[i].ofTask
                   /\ task.owner \in SdkWorkers => row[i].by = task.owner
<1> SUFFICES ASSUME task.status = "SUCCEEDED"
             PROVE  /\ task.owner \in SdkWorkers => task.log # NoId
                    /\ Named(task.out, "output")' /\ Named(task.log, "log")'
  BY DEF ResultIsOwners
<1>1. Named(task.out, "output") /\ Named(task.log, "log")
  BY DEF AInv, ResultIsOwners
<1>2. task.out \in Ids \cup {NoId} /\ task.log \in Ids \cup {NoId}
  BY DEF AInv, Typed, Task
<1>3. Named(task.out, "output")'
  BY <1>1, <1>2 DEF RowsGrow
<1>4. Named(task.log, "log")'
  BY <1>1, <1>2 DEF RowsGrow
<1> QED
  BY <1>3, <1>4 DEF AInv, ResultIsOwners

\* createUpload commits a row under a fresh identifier, or refuses.
LEMMA CreatesStep ==
    ASSUME AInv, NEW a \in Actors, NEW kind \in Kinds, NEW declared \in Bodies,
           NEW checksum \in BOOLEAN, Creates(a, kind, declared, checksum),
           UNCHANGED <<up, task, object, inflight, faults>>
    PROVE  AInv'
<1>1. CASE Size[declared] > Limit[kind]
  <2>1. GivesUp(a) /\ UNCHANGED row
    BY <1>1 DEF Creates
  <2>2. faults' \in Nat
    BY DEF AInv, Typed
  <2> QED
    BY <2>1, <2>2, GaveUp
<1>2. CASE ~(Size[declared] > Limit[kind])
  <2> DEFINE new == PendingRow(a, kind, declared, checksum)
             s == [[actor[a] EXCEPT !.pc = "put"] EXCEPT !.art = NewId]
  <2>1. /\ NewId \in Ids
        /\ row' = [row EXCEPT ![NewId] = new]
        /\ actor' = [actor EXCEPT ![a].pc = "put", ![a].art = NewId]
    BY <1>2 DEF Creates
  <2>2. /\ row[NewId].status = "none" /\ object[NewId] = Nothing
        /\ \A put \in inflight : put[1] # NewId
        /\ NewId \in 1..MaxId /\ Used \cup {NewId} = 1..NewId
    BY <2>1, NewIdIsFresh
  <2>3. new \in Row /\ new.status = "PENDING" /\ new.by = a /\ new.declared = declared /\ new.kind = kind
    BY DEF PendingRow, Row
  <2>4. \A i \in Ids : row'[i] = IF i = NewId THEN new ELSE row[i]
    BY <2>1 DEF AInv, Typed
  <2>5. actor[a] \in Actor /\ ActorOK(a, actor[a])
    BY DEF AInv, Typed
  <2>6. s \in Actor /\ s.pc = "put" /\ s.art = NewId /\ s.out = actor[a].out /\ s.log = actor[a].log
    BY <2>1, <2>5, Zenon DEF Actor, Transfer
  <2>7. actor' = [actor EXCEPT ![a] = s]
    BY <2>1, <2>5, Zenon DEF AInv, Typed
  <2> HIDE DEF s, new
  <2>8. Typed'
    <3>1. actor' \in [Actors -> Actor]
      BY <2>6, <2>7 DEF AInv, Typed
    <3>2. row' = [row EXCEPT ![NewId] = new] /\ row \in [Ids -> Row]
      BY <2>1 DEF AInv, Typed
    <3>3. row' \in [Ids -> Row]
      BY <2>3, <3>2, Zenon
    <3> QED
      BY <3>1, <3>3 DEF AInv, Typed
  <2>9. UsedInOrder'
    <3>1. Used' = Used \cup {NewId}
      BY <2>1, <2>3, <2>4 DEF Used
    <3>2. NewId \in 0..MaxId
      BY <2>2
    <3> QED
      BY <2>2, <3>1, <3>2 DEF UsedInOrder
  <2>10. RowsGrow
    BY <2>2, <2>4 DEF RowsGrow
  <2>11. ASSUME NEW i \in Ids PROVE RowOK(i)'
    <3>1. CASE i = NewId
      <4>1. row'[i] = new
        BY <2>4, <3>1
      <4>2. Size[declared] <= Limit[kind]
        BY <1>2, ArtifactsAssumption
      <4> QED
        BY <2>3, <4>1, <4>2 DEF RowOK
    <3>2. CASE i # NewId
      BY <2>4, <3>2 DEF AInv, RowOK
    <3> QED
      BY <3>1, <3>2
  <2>12. \A put \in inflight' : PutOK(put)'
    BY <2>2, <2>4 DEF AInv, Typed, PutOK
  <2>13. ASSUME NEW b \in Actors PROVE ActorOK(b, actor[b])'
    <3>1. CASE b = a
      <4>1. actor'[b] = s /\ row'[NewId] = new
        BY <2>1, <2>4, <2>7, <3>1, Zenon DEF AInv, Typed
      <4>2. TransferOK(b, actor[b])'
        BY <2>1, <2>2, <2>3, <2>6, <3>1, <4>1, Zenon DEF TransferOK
      <4>3. NamesOwn(b, actor[b])'
        BY <2>2, <2>3, <2>4, <2>5, <2>6, <3>1, <4>1 DEF NamesOwn, ActorOK, Actor, Ending
      <4>4. Verified(actor[b])'
        BY <2>6, <4>1 DEF Verified
      <4> QED
        BY <4>1, <4>2, <4>3, <4>4 DEF ActorOK
    <3>2. CASE b # a
      <4>1. actor'[b] = actor[b]
        BY <2>7, <3>2 DEF AInv, Typed
      <4>2. actor[b].pc = "put" =>
              object'[actor[b].art] = Nothing /\ \A put \in inflight' : put[1] # actor[b].art
        BY DEF AInv, ActorOK, TransferOK, Transfer
      <4>3. ObjectsKept
        BY DEF ObjectsKept
      <4> QED
        BY <2>10, <4>1, <4>2, <4>3, ActorKept
    <3> QED
      BY <3>1, <3>2
  <2>14. ReadyObjectMatches'
    BY <2>3, <2>4 DEF AInv, ReadyObjectMatches
  <2>15. ResultIsOwners'
    BY <2>10, ResultKept
  <2> QED
    BY <2>8, <2>9, <2>11, <2>12, <2>13, <2>14, <2>15 DEF AInv
<1> QED
  BY <1>1, <1>2

\* A PUT is under way, for a row that had none.
LEMMA PutStep ==
    ASSUME AInv, NEW a \in Actors, Put(a)
    PROVE  AInv'
<1> DEFINE art == actor[a].art
           s == [actor[a] EXCEPT !.pc = "sent"]
<1>1. PICK body \in Bodies : inflight' = inflight \cup {<<art, body>>}
  BY DEF Put
<1>2. actor[a].pc = "put" /\ Goes(a, "sent") /\ UNCHANGED <<up, task, row, object, faults>>
  BY DEF Put, At
<1>3. actor[a] \in Actor /\ ActorOK(a, actor[a])
  BY DEF AInv, Typed
<1>4. /\ art \in Ids /\ row[art].status # "none" /\ row[art].by = a /\ object[art] = Nothing
      /\ \A put \in inflight : put[1] # art
  BY <1>2, <1>3 DEF ActorOK, TransferOK, Transfer
<1>5. s \in Actor /\ s.pc = "sent" /\ s.art = art /\ s.out = actor[a].out /\ s.log = actor[a].log
  BY <1>3 DEF Actor, Transfer
<1>6. actor' = [actor EXCEPT ![a] = s]
  BY <1>2 DEF Goes, AInv, Typed
<1> HIDE DEF s
<1>7. Typed'
  BY <1>1, <1>2, <1>4, <1>5, <1>6 DEF AInv, Typed
<1>8. UsedInOrder' /\ \A i \in Ids : RowOK(i)'
  BY <1>2 DEF AInv, UsedInOrder, Used, RowOK
<1>9. \A put \in inflight' : PutOK(put)'
  BY <1>1, <1>2, <1>4 DEF AInv, Typed, PutOK
<1>10. RowsGrow /\ ObjectsKept
  BY <1>2 DEF RowsGrow, ObjectsKept
<1>11. ASSUME NEW b \in Actors PROVE ActorOK(b, actor[b])'
  <2>1. CASE b = a
    <3>1. actor'[b] = s
      BY <1>6, <2>1 DEF AInv, Typed
    <3>2. TransferOK(b, actor[b])'
      BY <1>2, <1>4, <1>5, <3>1 DEF TransferOK
    <3>3. NamesOwn(b, actor[b])'
      BY <1>2, <1>3, <1>4, <1>5, <2>1, <3>1 DEF NamesOwn, ActorOK, Ending
    <3>4. Verified(actor[b])'
      BY <1>5, <3>1 DEF Verified
    <3> QED
      BY <3>2, <3>3, <3>4 DEF ActorOK
  <2>2. CASE b # a
    <3>1. actor'[b] = actor[b]
      BY <1>6, <2>2 DEF AInv, Typed
    <3>2. actor[b].pc = "put" =>
             object'[actor[b].art] = Nothing /\ \A put \in inflight' : put[1] # actor[b].art
      BY <1>1, <1>2, <1>4, <2>2 DEF AInv, ActorOK, TransferOK, Transfer
    <3> QED
      BY <1>10, <3>1, <3>2, ActorKept
  <2> QED
    BY <2>1, <2>2
<1>12. ReadyObjectMatches'
  BY <1>2 DEF AInv, ReadyObjectMatches
<1>13. ResultIsOwners'
  BY <1>2, <1>10, ResultKept
<1> QED
  BY <1>7, <1>8, <1>9, <1>11, <1>12, <1>13 DEF AInv

\* The store takes an object where it had none.
LEMMA ArriveStep ==
    ASSUME AInv, NEW i \in Ids, Arrive(i)
    PROVE  AInv'
<1>1. PICK put \in inflight : /\ put[1] = i
                              /\ object' = [object EXCEPT ![i] = put[2]]
                              /\ inflight' = inflight \ {put}
  BY Zenon DEF Arrive
<1>2. UNCHANGED <<up, task, row, actor, faults>>
  BY DEF Arrive
<1>3. put[2] \in Bodies /\ put[2] # Nothing
  BY ArtifactsAssumption DEF AInv, Typed
<1>4. row[i].status # "none" /\ object[i] = Nothing /\ \A other \in inflight' : other[1] # i
  BY <1>1 DEF AInv, PutOK
<1>5. \A j \in Ids : object'[j] = IF j = i THEN put[2] ELSE object[j]
  BY <1>1 DEF AInv, Typed
<1>6. Typed'
  BY <1>1, <1>2, <1>3 DEF AInv, Typed
<1>7. UsedInOrder' /\ \A j \in Ids : RowOK(j)'
  BY <1>2, <1>4, <1>5 DEF AInv, UsedInOrder, Used, RowOK
<1>8. \A other \in inflight' : PutOK(other)'
  BY <1>1, <1>2, <1>4, <1>5 DEF AInv, Typed, PutOK
<1>9. RowsGrow /\ ObjectsKept
  BY <1>2, <1>4, <1>5 DEF RowsGrow, ObjectsKept
<1>10. ASSUME NEW b \in Actors PROVE ActorOK(b, actor[b])'
  <2>1. actor[b].pc = "put" =>
           object'[actor[b].art] = Nothing /\ \A other \in inflight' : other[1] # actor[b].art
    BY <1>1, <1>5 DEF AInv, ActorOK, TransferOK, Transfer
  <2> QED
    BY <1>2, <1>9, <2>1, ActorKept
<1>11. ReadyObjectMatches'
  BY <1>2, <1>4, <1>5 DEF AInv, ReadyObjectMatches
<1>12. ResultIsOwners'
  BY <1>2, <1>9, ResultKept
<1> QED
  BY <1>6, <1>7, <1>8, <1>10, <1>11, <1>12 DEF AInv

\* Where a client is after its upload is complete.
LEMMA CompletedOK ==
    ASSUME AInv, NEW a \in Actors, actor[a].pc \in Transfer, Completed(a)
    PROVE  \E s \in Actor : /\ actor' = [actor EXCEPT ![a] = s]
                            /\ ActorOK(a, s) /\ s.pc \notin Transfer \cup {"commit"}
<1> DEFINE old == actor[a]
           out1 == [old EXCEPT !.pc = "create", !.kind = "log", !.out = old.art, !.art = NoId]
           log1 == [old EXCEPT !.pc = "finish", !.log = old.art, !.art = NoId]
           http == [old EXCEPT !.pc = "running", !.art = NoId]
<1>1. old \in Actor /\ ActorOK(a, old)
  BY DEF AInv, Typed
<1>2. /\ old.art \in Ids /\ old.art # NoId /\ row[old.art].status # "none"
      /\ a \in SdkWorkers => row[old.art].by = a
  BY <1>1, ArtifactsAssumption DEF ActorOK, TransferOK, NamesOwn
<1>3. actor' = [actor EXCEPT ![a] = IF a \in Users THEN Resting
                                    ELSE IF a \in HttpWorkers THEN http
                                    ELSE IF old.kind = "output" THEN out1 ELSE log1]
  BY DEF Completed, AInv, Typed
<1>4. CASE a \in Users
  <2>1. actor' = [actor EXCEPT ![a] = Resting]
    BY <1>3, <1>4
  <2>2. Resting.pc \notin Transfer \cup {"commit"}
    BY DEF Resting, Transfer
  <2> QED
    BY <2>1, <2>2, RestingOK, Zenon
<1>5. CASE a \notin Users /\ a \in HttpWorkers
  <2>1. actor' = [actor EXCEPT ![a] = http]
    BY <1>3, <1>5
  <2>2. http \in Actor /\ http.pc = "running"
    BY <1>1, Zenon DEF Actor
  <2>3. a \notin SdkWorkers
    BY <1>5, ArtifactsAssumption
  <2> HIDE DEF http
  <2>4. ActorOK(a, http) /\ http.pc \notin Transfer \cup {"commit"}
    BY <2>2, <2>3 DEF ActorOK, TransferOK, NamesOwn, Verified, Transfer
  <2> QED
    BY <2>1, <2>2, <2>4, Zenon
<1>6. CASE a \notin Users /\ a \notin HttpWorkers /\ old.kind = "output"
  <2>1. actor' = [actor EXCEPT ![a] = out1]
    BY <1>3, <1>6
  <2>2. out1 \in Actor /\ out1.pc = "create" /\ out1.out = old.art /\ out1.log = old.log
    BY <1>1, <1>2, Zenon DEF Actor, Kinds
  <2> HIDE DEF out1
  <2>3. ActorOK(a, out1) /\ out1.pc \notin Transfer \cup {"commit"}
    BY <1>1, <1>2, <2>2 DEF ActorOK, TransferOK, NamesOwn, Verified, Transfer, Ending
  <2> QED
    BY <2>1, <2>2, <2>3, Zenon
<1>7. CASE a \notin Users /\ a \notin HttpWorkers /\ old.kind # "output"
  <2>1. actor' = [actor EXCEPT ![a] = log1]
    BY <1>3, <1>7
  <2>2. log1 \in Actor /\ log1.pc = "finish" /\ log1.log = old.art /\ log1.out = old.out
    BY <1>1, <1>2, Zenon DEF Actor, Ending
  <2> HIDE DEF log1
  <2>3. ActorOK(a, log1) /\ log1.pc \notin Transfer \cup {"commit"}
    BY <1>1, <1>2, <2>2 DEF ActorOK, TransferOK, NamesOwn, Verified, Transfer, Ending
  <2> QED
    BY <2>1, <2>2, <2>3, Zenon
<1> QED
  BY <1>4, <1>5, <1>6, <1>7

\* The row becomes READY: its object has been compared and is not replaced.
LEMMA MarkReadyStep ==
    ASSUME AInv, NEW a \in Actors, MarkReady(a)
    PROVE  AInv'
<1> DEFINE art == actor[a].art
<1>1. actor[a].pc = "mark" /\ UNCHANGED <<up, task, object, inflight, faults>>
  BY DEF MarkReady, At
<1>2. actor[a] \in Actor /\ TransferOK(a, actor[a]) /\ faults' \in Nat
  BY <1>1 DEF AInv, Typed, ActorOK
<1>3. /\ art \in Ids /\ row[art].status # "none"
      /\ object[art] # Nothing /\ Size[object[art]] = Size[row[art].declared]
      /\ row[art].checksum => object[art] = row[art].declared
  BY <1>1, <1>2 DEF TransferOK, Transfer
<1>4. CASE row[art].status # "PENDING"
  BY <1>1, <1>2, <1>4, GaveUp DEF MarkReady
<1>5. CASE row[art].status = "PENDING"
  <2> DEFINE new == [row[art] EXCEPT !.status = "READY"]
  <2>1. row' = [row EXCEPT ![art].status = "READY"] /\ Completed(a)
    BY <1>5 DEF MarkReady
  <2>2. PICK s \in Actor : /\ actor' = [actor EXCEPT ![a] = s]
                           /\ ActorOK(a, s) /\ s.pc \notin Transfer \cup {"commit"}
    BY <1>1, <2>1, CompletedOK DEF Transfer
  <2>3. row[art] \in Row
    BY <1>3 DEF AInv, Typed
  <2>4. /\ new \in Row /\ new.status = "READY" /\ new.kind = row[art].kind
        /\ new.ofTask = row[art].ofTask /\ new.declared = row[art].declared
        /\ new.checksum = row[art].checksum /\ new.by = row[art].by
    BY <2>3 DEF Row
  <2>5. row' = [row EXCEPT ![art] = new]
    BY <2>1 DEF AInv, Typed
  <2> HIDE DEF new
  <2>6. \A i \in Ids : row'[i] = IF i = art THEN new ELSE row[i]
    BY <2>5 DEF AInv, Typed
  <2>7. Typed'
    BY <1>1, <2>2, <2>4, <2>5, Zenon DEF AInv, Typed
  <2>8. RowsGrow /\ ObjectsKept
    BY <1>1, <2>4, <2>6 DEF RowsGrow, ObjectsKept
  <2>9. UsedInOrder' /\ \A i \in Ids : RowOK(i)'
    <3>1. Used' = Used
      BY <1>3, <2>4, <2>6 DEF Used
    <3>2. ASSUME NEW i \in Ids PROVE RowOK(i)'
      BY <1>1, <1>3, <2>4, <2>6 DEF AInv, RowOK
    <3> QED
      BY <3>1, <3>2 DEF AInv, UsedInOrder
  <2>10. \A put \in inflight' : PutOK(put)'
    BY <1>1, <1>3, <2>4, <2>6 DEF AInv, Typed, PutOK
  <2>11. ASSUME NEW b \in Actors PROVE ActorOK(b, actor[b])'
    <3>1. CASE b = a
      <4>1. actor'[b] = s
        BY <2>2, <3>1 DEF AInv, Typed
      <4>2. NamesOwn(b, actor[b])'
        BY <2>2, <2>8, <3>1, <4>1 DEF ActorOK, NamesOwn, RowsGrow, Actor
      <4> QED
        BY <2>2, <4>1, <4>2 DEF ActorOK, TransferOK, Verified
    <3>2. CASE b # a
      <4>1. actor'[b] = actor[b]
        BY <2>2, <3>2 DEF AInv, Typed
      <4>2. actor[b].pc = "put" =>
              object'[actor[b].art] = Nothing /\ \A put \in inflight' : put[1] # actor[b].art
        BY <1>1 DEF AInv, ActorOK, TransferOK, Transfer
      <4> QED
        BY <2>8, <4>1, <4>2, ActorKept
    <3> QED
      BY <3>1, <3>2
  <2>12. ReadyObjectMatches'
    <3>1. Size[row[art].declared] <= Limit[row[art].kind]
      BY <1>3 DEF AInv, RowOK
    <3>2. ASSUME NEW i \in Ids, row'[i].status = "READY"
          PROVE  /\ object[i] # Nothing
                 /\ Size[object[i]] = Size[row'[i].declared] /\ Size[object[i]] <= Limit[row'[i].kind]
                 /\ row'[i].checksum => object[i] = row'[i].declared
      <4>1. CASE i = art
        <5>1. row'[i] = new
          BY <2>6, <4>1
        <5> QED
          BY <1>3, <2>4, <3>1, <4>1, <5>1
      <4>2. CASE i # art
        <5>1. row'[i] = row[i]
          BY <2>6, <4>2
        <5> QED
          BY <3>2, <5>1 DEF AInv, ReadyObjectMatches
      <4> QED
        BY <4>1, <4>2
    <3> QED
      BY <1>1, <3>2 DEF ReadyObjectMatches
  <2>13. ResultIsOwners'
    BY <1>1, <2>8, ResultKept
  <2> QED
    BY <2>7, <2>9, <2>10, <2>11, <2>12, <2>13 DEF AInv
<1> QED
  BY <1>4, <1>5
-----------------------------------------------------------------------------
(* Steps of one client                                                     *)

\* Only the place of a client changes.
LEMMA AtPlace ==
    ASSUME AInv, NEW a \in Actors,
           NEW p \in {"idle", "leased", "start", "running", "create", "insert"} \cup Transfer \cup Ending
    PROVE  LET s == [actor[a] EXCEPT !.pc = p]
           IN  /\ s \in Actor /\ s.pc = p /\ s.art = actor[a].art
               /\ s.out = actor[a].out /\ s.log = actor[a].log
<1>1. actor[a] \in Actor
  BY DEF AInv, Typed
<1> QED
  BY <1>1 DEF Actor

\* A client may always go to a place where nothing is promised of it.
LEMMA WentAnywhere ==
    ASSUME AInv, NEW a \in Actors, NEW p \in {"leased", "start", "running", "create", "insert"}, Goes(a, p)
    PROVE  \E s \in Actor : actor' = [actor EXCEPT ![a] = s] /\ ActorOK(a, s)
<1> DEFINE s == [actor[a] EXCEPT !.pc = p]
<1>1. s \in Actor /\ s.pc = p /\ s.out = actor[a].out /\ s.log = actor[a].log
  BY AtPlace
<1>2. actor' = [actor EXCEPT ![a] = s]
  BY DEF Goes, AInv, Typed
<1> HIDE DEF s
<1>3. ActorOK(a, s)
  BY <1>1 DEF AInv, ActorOK, TransferOK, NamesOwn, Verified, Transfer, Ending
<1> QED
  BY <1>1, <1>2, <1>3, Zenon

\* The same, as a step that leaves everything else alone.
LEMMA WentAnywhereStep ==
    ASSUME AInv, NEW a \in Actors, NEW p \in {"leased", "start", "running", "create", "insert"}, Goes(a, p),
           UNCHANGED <<up, task, row, object, inflight, faults>>
    PROVE  AInv'
<1>1. PICK s \in Actor : actor' = [actor EXCEPT ![a] = s] /\ ActorOK(a, s)
  BY WentAnywhere
<1>2. faults' \in Nat
  BY DEF AInv, Typed
<1> QED
  BY <1>1, <1>2, MovedOnly, Zenon

\* From one place of a transfer to another, when what the new place promises is known.
LEMMA WentOn ==
    ASSUME AInv, NEW a \in Actors, actor[a].pc \in Transfer, NEW p \in Transfer \ {"put"}, Goes(a, p),
           p \in {"hash", "mark"} =>
              /\ object[actor[a].art] # Nothing
              /\ Size[object[actor[a].art]] = Size[row[actor[a].art].declared],
           p = "mark" /\ row[actor[a].art].checksum => object[actor[a].art] = row[actor[a].art].declared,
           UNCHANGED <<up, task, row, object, inflight, faults>>
    PROVE  AInv'
<1> DEFINE s == [actor[a] EXCEPT !.pc = p]
<1>1. s \in Actor /\ s.pc = p /\ s.art = actor[a].art /\ s.out = actor[a].out /\ s.log = actor[a].log
  BY AtPlace
<1>2. ActorOK(a, actor[a])
  BY DEF AInv
<1>3. TransferOK(a, s)
  <2> HIDE DEF s
  <2> QED
    BY <1>1, <1>2 DEF ActorOK, TransferOK
<1>4. NamesOwn(a, s) /\ Verified(s)
  <2> HIDE DEF s
  <2> QED
    BY <1>1, <1>2, Zenon DEF ActorOK, NamesOwn, Verified, Transfer, Ending
<1>5. ActorOK(a, s)
  BY <1>3, <1>4 DEF ActorOK
<1> QED
  BY <1>1, <1>5, Went

\* What the transfer of an upload does.
LEMMA TransferStepOK ==
    ASSUME AInv, NEW a \in Actors, TransferStep(a)
    PROVE  AInv'
<1> USE DEF At
<1> DEFINE art == actor[a].art
<1>0. faults \in Nat /\ ActorOK(a, actor[a])
  BY DEF AInv, Typed
<1>1. CASE Put(a)
  BY <1>1, PutStep
<1>2. CASE PutAnswered(a)
  <2> DEFINE p == IF a \in Workers THEN "ask" ELSE "complete"
  <2>1. Goes(a, p) /\ actor[a].pc \in Transfer /\ p \in Transfer \ {"put"} /\ p \notin {"hash", "mark"}
    BY <1>2 DEF PutAnswered, Transfer
  <2>2. UNCHANGED <<up, task, row, object, inflight, faults>>
    BY <1>2 DEF PutAnswered
  <2> QED
    BY <2>1, <2>2, WentOn
<1>3. CASE ReadRow(a)
  <2>1. actor[a].pc \in Transfer /\ UNCHANGED <<up, task, row, object, inflight, faults>>
    BY <1>3 DEF ReadRow, Transfer
  <2>2. CASE Completed(a)
    <3>1. PICK s \in Actor : actor' = [actor EXCEPT ![a] = s] /\ ActorOK(a, s)
      BY <2>1, <2>2, CompletedOK
    <3> QED
      BY <1>0, <2>1, <3>1, MovedOnly, Zenon
  <2>3. CASE Goes(a, "head")
    BY <2>1, <2>3, WentOn DEF Transfer
  <2> QED
    BY <1>3, <2>2, <2>3 DEF ReadRow
<1>4. CASE HeadObject(a)
  <2>1. actor[a].pc \in Transfer /\ UNCHANGED <<up, task, row, object, inflight, faults>>
    BY <1>4 DEF HeadObject, Transfer
  <2>2. CASE GivesUp(a)
    BY <1>0, <2>1, <2>2, GaveUp
  <2>3. CASE ~GivesUp(a)
    <3> DEFINE p == IF row[art].checksum THEN "hash" ELSE "mark"
    <3>1. Goes(a, p) /\ object[art] # Nothing /\ Size[object[art]] = Size[row[art].declared]
      BY <1>4, <2>3 DEF HeadObject
    <3>2. p \in Transfer \ {"put"} /\ (p = "mark" => ~row[art].checksum)
      BY DEF Transfer
    <3> QED
      BY <2>1, <3>1, <3>2, WentOn
  <2> QED
    BY <2>2, <2>3
<1>5. CASE Checksum(a)
  <2>1. actor[a].pc = "hash" /\ UNCHANGED <<up, task, row, object, inflight, faults>>
    BY <1>5 DEF Checksum
  <2>2. CASE GivesUp(a)
    BY <1>0, <2>1, <2>2, GaveUp
  <2>3. CASE ~GivesUp(a)
    <3>1. Goes(a, "mark") /\ object[art] = row[art].declared
      BY <1>5, <2>3 DEF Checksum
    <3>2. object[art] # Nothing /\ Size[object[art]] = Size[row[art].declared]
      BY <1>0, <2>1 DEF ActorOK, TransferOK, Transfer
    <3> QED
      BY <2>1, <3>1, <3>2, WentOn DEF Transfer
  <2> QED
    BY <2>2, <2>3
<1>6. CASE MarkReady(a)
  BY <1>6, MarkReadyStep
<1> QED
  BY <1>1, <1>2, <1>3, <1>4, <1>5, <1>6 DEF TransferStep

\* A step that leaves a task unfinished and changes one client.
LEMMA UnfinishedStep ==
    ASSUME AInv, NEW a \in Actors, NEW s \in Actor, actor' = [actor EXCEPT ![a] = s], ActorOK(a, s),
           task' \in Task, task'.status # "SUCCEEDED",
           UNCHANGED <<up, row, object, inflight>>, faults' \in Nat
    PROVE  AInv'
<1>1. ResultIsOwners'
  BY DEF ResultIsOwners
<1> QED
  BY <1>1, Moved, Zenon

\* CompleteTask makes what Verify has checked the result of the task.
LEMMA CompleteTaskStep ==
    ASSUME AInv, NEW a \in Workers, CompleteTask(a)
    PROVE  AInv'
<1> DEFINE s == actor[a]
<1>1. /\ s.pc = "commit" /\ a \in Actors /\ GivesUp(a)
      /\ UNCHANGED <<up, row, object, inflight, faults>>
  BY DEF CompleteTask, At, Actors
<1>2. s \in Actor /\ ActorOK(a, s) /\ task \in Task /\ faults' \in Nat
  BY <1>1 DEF AInv, Typed
<1>3. CASE ~(Active(a) /\ task.status = "RUNNING")
  <2>1. UNCHANGED task
    BY <1>3 DEF CompleteTask
  <2> QED
    BY <1>1, <1>2, <2>1, GaveUp
<1>4. CASE Active(a) /\ task.status = "RUNNING"
  <2>1. task' = [task EXCEPT !.status = "SUCCEEDED", !.live = FALSE, !.out = s.out, !.log = s.log]
    BY <1>4 DEF CompleteTask
  <2>2. s.out \in Ids \cup {NoId} /\ s.log \in Ids \cup {NoId}
    BY <1>2 DEF Actor
  <2>3. task' \in Task /\ task'.owner = a /\ task'.out = s.out /\ task'.log = s.log
    BY <1>2, <1>4, <2>1, <2>2, Zenon DEF Task, Active
  <2>4. IsArtifactOf(s.out, "output") /\ IsArtifactOf(s.log, "log") /\ NamesOwn(a, s)
    BY <1>1, <1>2 DEF ActorOK, Verified
  <2>5. ResultIsOwners'
    BY <1>1, <2>3, <2>4 DEF ResultIsOwners, IsArtifactOf, NamesOwn, Ending
  <2> QED
    BY <1>1, <1>2, <2>3, <2>5, RestingOK, Moved, Zenon DEF GivesUp
<1> QED
  BY <1>3, <1>4

\* A worker turns to its next upload.
LEMMA UploadStep ==
    ASSUME AInv, NEW a \in Workers, NEW kind \in Kinds, Upload(a, kind)
    PROVE  AInv'
<1> DEFINE s == [[actor[a] EXCEPT !.pc = "create"] EXCEPT !.kind = kind]
<1>0. a \in Actors /\ faults \in Nat /\ actor[a] \in Actor /\ ActorOK(a, actor[a])
  BY DEF AInv, Typed, Actors
<1>1. /\ actor' = [actor EXCEPT ![a].pc = "create", ![a].kind = kind]
      /\ UNCHANGED <<up, task, row, object, inflight, faults>>
  BY DEF Upload
<1>2. actor' = [actor EXCEPT ![a] = s]
  BY <1>0, <1>1, Zenon DEF AInv, Typed
<1>3. s \in Actor /\ s.pc = "create" /\ s.out = actor[a].out /\ s.log = actor[a].log
  BY <1>0, Zenon DEF Actor
<1> HIDE DEF s
<1>4. ActorOK(a, s)
  BY <1>0, <1>3, Zenon DEF ActorOK, TransferOK, NamesOwn, Verified, Transfer, Ending
<1>5. UNCHANGED <<up, task, row, object, inflight>> /\ faults' \in Nat
  BY <1>0, <1>1
<1> QED
  BY <1>0, <1>2, <1>3, <1>4, <1>5, MovedOnly, Zenon

\* The worker protocol.
LEMMA WorkerStepOK ==
    ASSUME AInv, NEW a \in Workers, WorkerStep(a)
    PROVE  AInv'
<1> USE DEF At
<1>0. /\ a \in Actors /\ faults \in Nat /\ task \in Task
      /\ actor[a] \in Actor /\ ActorOK(a, actor[a])
  BY DEF AInv, Typed, Actors
<1>1. CASE DownloadInput(a)
  BY <1>0, <1>1, GaveUp, WentAnywhereStep DEF DownloadInput
<1>2. CASE Start(a)
  <2>1. CASE Active(a)
    <3>1. /\ task' = [task EXCEPT !.status = "RUNNING"] /\ Goes(a, "running")
          /\ UNCHANGED <<up, row, object, inflight, faults>>
      BY <1>2, <2>1 DEF Start
    <3>2. task' \in Task /\ task'.status # "SUCCEEDED"
      BY <1>0, <3>1 DEF Task
    <3>3. PICK s \in Actor : actor' = [actor EXCEPT ![a] = s] /\ ActorOK(a, s)
      BY <1>0, <3>1, WentAnywhere
    <3> QED
      BY <1>0, <3>1, <3>2, <3>3, UnfinishedStep, Zenon
  <2>2. CASE ~Active(a)
    BY <1>0, <1>2, <2>2, GaveUp DEF Start
  <2> QED
    BY <2>1, <2>2
<1>3. CASE AskUpload(a)
  BY <1>0, <1>3, GaveUp, WentAnywhereStep DEF AskUpload
<1>4. CASE InsertUpload(a)
  <2>1. actor[a].kind \in Kinds /\ Result \in Bodies
    BY <1>0, ArtifactsAssumption DEF Actor
  <2> QED
    BY <1>0, <1>4, <2>1, CreatesStep, Zenon DEF InsertUpload
<1>5. CASE AskComplete(a)
  <2>1. actor[a].pc \in Transfer /\ UNCHANGED <<up, task, row, object, inflight, faults>>
    BY <1>5 DEF AskComplete, Transfer
  <2>2. GivesUp(a) \/ Goes(a, "complete")
    BY <1>5 DEF AskComplete
  <2> QED
    BY <1>0, <2>1, <2>2, GaveUp, WentOn DEF Transfer
<1>6. CASE Finish(a)
  <2> DEFINE s == [actor[a] EXCEPT !.pc = "verify"]
  <2>1. actor[a].pc = "finish" /\ UNCHANGED <<up, task, row, object, inflight, faults>>
    BY <1>6 DEF Finish
  <2>2. s \in Actor /\ s.pc = "verify" /\ s.out = actor[a].out /\ s.log = actor[a].log
    BY <1>0, AtPlace DEF Ending
  <2>3. ActorOK(a, s)
    <3> HIDE DEF s
    <3> QED
      BY <1>0, <2>1, <2>2 DEF ActorOK, TransferOK, NamesOwn, Verified, Transfer, Ending
  <2>4. GivesUp(a) \/ Goes(a, "verify")
    BY <1>6 DEF Finish
  <2> QED
    BY <1>0, <2>1, <2>2, <2>3, <2>4, GaveUp, Went
<1>7. CASE Verify(a)
  <2> DEFINE s == [actor[a] EXCEPT !.pc = "commit"]
  <2>1. actor[a].pc = "verify" /\ UNCHANGED <<up, task, row, object, inflight, faults>>
    BY <1>7 DEF Verify
  <2>2. CASE GivesUp(a)
    BY <1>0, <2>1, <2>2, GaveUp
  <2>3. CASE ~GivesUp(a)
    <3>1. /\ IsArtifactOf(actor[a].out, "output") /\ IsArtifactOf(actor[a].log, "log")
          /\ Goes(a, "commit")
      BY <1>7, <2>3 DEF Verify
    <3>2. s \in Actor /\ s.pc = "commit" /\ s.out = actor[a].out /\ s.log = actor[a].log
      BY <1>0, AtPlace DEF Ending
    <3>3. ActorOK(a, s)
      <4> HIDE DEF s
      <4> QED
        BY <1>0, <2>1, <3>1, <3>2 DEF ActorOK, TransferOK, NamesOwn, Verified, Transfer, Ending
    <3> QED
      BY <1>0, <2>1, <3>1, <3>2, <3>3, Went
  <2> QED
    BY <2>2, <2>3
<1>8. CASE CompleteTask(a)
  BY <1>8, CompleteTaskStep
<1>9. CASE SmallOutput(a)
  BY <1>9, UploadStep DEF SmallOutput, UploadLog, Kinds
<1>10. CASE NameOutput(a)
  <2>1. PICK out \in Used \cup {NoId} : actor' = [actor EXCEPT ![a].pc = "finish", ![a].out = out]
    BY <1>10, Zenon DEF NameOutput
  <2> DEFINE s == [[actor[a] EXCEPT !.pc = "finish"] EXCEPT !.out = out]
  <2>2. a \notin SdkWorkers /\ UNCHANGED <<up, task, row, object, inflight, faults>>
    BY <1>10, ArtifactsAssumption DEF NameOutput
  <2>3. actor' = [actor EXCEPT ![a] = s]
    BY <1>0, <2>1, Zenon DEF AInv, Typed
  <2>4. s \in Actor /\ s.pc = "finish"
    BY <1>0, <2>1, Zenon DEF Actor, Ending, Used
  <2> HIDE DEF s
  <2>5. ActorOK(a, s)
    BY <2>2, <2>4 DEF ActorOK, TransferOK, NamesOwn, Verified, Transfer
  <2>6. UNCHANGED <<up, task, row, object, inflight>> /\ faults' \in Nat
    BY <1>0, <2>2
  <2> QED
    BY <1>0, <2>3, <2>4, <2>5, <2>6, MovedOnly, Zenon
<1> QED
  BY <1>1, <1>2, <1>3, <1>4, <1>5, <1>6, <1>7, <1>8, <1>9, <1>10 DEF WorkerStep

\* A user completes any upload.
LEMMA AnyCompleteStep ==
    ASSUME AInv, NEW a \in Users, AnyComplete(a)
    PROVE  AInv'
<1>1. PICK i \in Used : actor' = [actor EXCEPT ![a].pc = "complete", ![a].art = i]
  BY Zenon DEF AnyComplete
<1> DEFINE s == [[actor[a] EXCEPT !.pc = "complete"] EXCEPT !.art = i]
<1>2. a \in Actors /\ a \notin SdkWorkers /\ UNCHANGED <<up, task, row, object, inflight, faults>>
  BY ArtifactsAssumption DEF AnyComplete, Actors, Workers
<1>3. actor[a] \in Actor /\ i \in Ids /\ row[i].status # "none" /\ faults' \in Nat
  BY <1>2 DEF AInv, Typed, Used
<1>4. actor' = [actor EXCEPT ![a] = s]
  BY <1>1, <1>2, <1>3, Zenon DEF AInv, Typed
<1>5. s \in Actor /\ s.pc = "complete" /\ s.art = i
  BY <1>3, Zenon DEF Actor, Transfer
<1> HIDE DEF s
<1>6. ActorOK(a, s)
  BY <1>2, <1>3, <1>5 DEF ActorOK, TransferOK, NamesOwn, Verified
<1>7. UNCHANGED <<up, task, row, object, inflight>>
  BY <1>2
<1> QED
  BY <1>2, <1>3, <1>4, <1>5, <1>6, <1>7, MovedOnly, Zenon

\* A step of time or of the scheduler that leaves the task unfinished.
LEMMA TaskStep ==
    ASSUME AInv, task' \in Task, task'.status # "SUCCEEDED",
           UNCHANGED <<up, row, object, inflight, actor>>, faults' \in Nat
    PROVE  AInv'
<1>1. Typed' /\ UsedInOrder' /\ \A i \in Ids : RowOK(i)'
  BY DEF AInv, Typed, UsedInOrder, Used, RowOK
<1>2. ASSUME NEW put \in inflight' PROVE PutOK(put)'
  BY <1>2 DEF AInv, PutOK
<1>3. ReadyObjectMatches'
  BY DEF AInv, ReadyObjectMatches
<1>4. ResultIsOwners'
  BY DEF ResultIsOwners
<1>5. ASSUME NEW a \in Actors PROVE ActorOK(a, actor[a])'
  <2>1. ActorOK(a, actor[a])
    BY DEF AInv
  <2>2. TransferOK(a, actor[a])' /\ NamesOwn(a, actor[a])'
    BY <2>1, Zenon DEF ActorOK, TransferOK, NamesOwn
  <2>3. Verified(actor[a])'
    BY <2>1 DEF ActorOK, Verified, IsArtifactOf
  <2> QED
    BY <2>2, <2>3 DEF ActorOK
<1> QED
  BY <1>1, <1>2, <1>3, <1>4, <1>5 DEF AInv

\* Every step of the program keeps the invariant.
LEMMA NextAInv == AInv /\ [Next]_vars => AInv'
<1> SUFFICES ASSUME AInv, [Next]_vars PROVE AInv'
  OBVIOUS
<1>0. faults \in Nat /\ task \in Task
  BY DEF AInv, Typed
<1>1. ASSUME NEW a \in Workers, Lease(a) PROVE AInv'
  <2>1. /\ task' = [task EXCEPT !.status = "LEASED", !.owner = a, !.live = TRUE]
        /\ Goes(a, "leased") /\ UNCHANGED <<up, row, object, inflight, faults>>
    BY <1>1 DEF Lease
  <2>2. task' \in Task /\ task'.status # "SUCCEEDED"
    BY <1>0, <2>1, Zenon DEF Task
  <2>3. PICK s \in Actor : actor' = [actor EXCEPT ![a] = s] /\ ActorOK(a, s)
    BY <2>1, WentAnywhere DEF Actors
  <2> QED
    BY <1>0, <2>1, <2>2, <2>3, UnfinishedStep, Zenon DEF Actors
<1>2. ASSUME NEW a \in Workers, Fail(a) PROVE AInv'
  <2>1. /\ GivesUp(a) /\ faults' \in Nat /\ a \in Actors
        /\ UNCHANGED <<up, row, object, inflight>>
    BY <1>0, <1>2 DEF Fail, Actors
  <2>2. CASE Active(a)
    <3>1. task' = [task EXCEPT !.status = "READY", !.owner = NoId, !.live = FALSE]
      BY <1>2, <2>2 DEF Fail
    <3>2. task' \in Task /\ task'.status # "SUCCEEDED"
      BY <1>0, <3>1, Zenon DEF Task
    <3> QED
      BY <2>1, <3>2, RestingOK, UnfinishedStep, Zenon DEF GivesUp
  <2>3. CASE ~Active(a)
    BY <1>2, <2>1, <2>3, GaveUp DEF Fail
  <2> QED
    BY <2>2, <2>3
<1>3. ASSUME NEW a \in Users, CreateUpload(a) PROVE AInv'
  <2>1. PICK declared \in Bodies, checksum \in BOOLEAN : Creates(a, "input", declared, checksum)
    BY <1>3 DEF CreateUpload
  <2> QED
    BY <1>3, <2>1, CreatesStep DEF CreateUpload, Actors, Kinds
<1>4. ASSUME NEW a \in Actors, Abandon(a) PROVE AInv'
  <2>1. /\ GivesUp(a) /\ faults' \in Nat
        /\ UNCHANGED <<up, task, row, object, inflight>>
    BY <1>0, <1>4 DEF Abandon
  <2> QED
    BY <2>1, GaveUp
<1>5. CASE LeaseExpires
  <2>1. /\ task' = [task EXCEPT !.live = FALSE] /\ task.status # "SUCCEEDED"
        /\ UNCHANGED <<up, row, object, inflight, actor>> /\ faults' \in Nat
    BY <1>0, <1>5 DEF LeaseExpires
  <2>2. task' \in Task /\ task'.status # "SUCCEEDED"
    BY <1>0, <2>1, Zenon DEF Task
  <2> QED
    BY <2>1, <2>2, TaskStep
<1>6. CASE Recover
  <2>1. /\ task' = [task EXCEPT !.status = "READY", !.owner = NoId]
        /\ UNCHANGED <<up, row, object, inflight, actor>> /\ faults' \in Nat
    BY <1>0, <1>6 DEF Recover
  <2>2. task' \in Task /\ task'.status # "SUCCEEDED"
    BY <1>0, <2>1, Zenon DEF Task
  <2> QED
    BY <2>1, <2>2, TaskStep
<1>7. CASE UNCHANGED vars
  <2>0. UNCHANGED <<up, task, row, object, inflight, actor, faults>>
    BY <1>7 DEF vars
  <2>1. Typed' /\ UsedInOrder' /\ \A i \in Ids : RowOK(i)'
    BY <2>0 DEF AInv, Typed, UsedInOrder, Used, RowOK
  <2>2. ASSUME NEW put \in inflight' PROVE PutOK(put)'
    BY <2>0, <2>2 DEF AInv, PutOK
  <2>3. ReadyObjectMatches'
    BY <2>0 DEF AInv, ReadyObjectMatches
  <2>4. ResultIsOwners'
    BY <2>0 DEF AInv, ResultIsOwners
  <2>5. ASSUME NEW a \in Actors PROVE ActorOK(a, actor[a])'
    <3>1. ActorOK(a, actor[a])
      BY DEF AInv
    <3>2. TransferOK(a, actor[a])' /\ NamesOwn(a, actor[a])'
      BY <2>0, <3>1 DEF ActorOK, TransferOK, NamesOwn
    <3>3. Verified(actor[a])'
      BY <2>0, <3>1 DEF ActorOK, Verified, IsArtifactOf
    <3> QED
      BY <3>2, <3>3 DEF ActorOK
  <2> QED
    BY <2>1, <2>2, <2>3, <2>4, <2>5 DEF AInv
<1>8. ASSUME NEW a \in Workers, UploadOutput(a) \/ UploadLog(a) PROVE AInv'
  BY <1>8, UploadStep DEF UploadOutput, UploadLog, Kinds
<1> QED
  BY <1>1, <1>2, <1>3, <1>4, <1>5, <1>6, <1>7, <1>8, WorkerStepOK, TransferStepOK,
     AnyCompleteStep, ArriveStep DEF Next

\* A fresh run has at most its input, READY with its object in the store.
LEMMA InitAInv == Init => AInv
<1> SUFFICES ASSUME Init PROVE AInv
  OBVIOUS
<1> DEFINE first == IF up \cap Workers # {} THEN 1 ELSE 0
<1>1. /\ NoRow \in Row /\ NoRow.status = "none"
      /\ InputRow \in Row /\ InputRow.status = "READY" /\ InputRow.declared = Result
      /\ InputRow.kind = "input"
  BY ArtifactsAssumption DEF NoRow, InputRow, Row, Kinds
<1>2. \A i \in Ids : row[i] = IF i = 1 /\ up \cap Workers # {} THEN InputRow ELSE NoRow
  BY DEF Init
<1>3. \A i \in Ids : object[i] = IF i = 1 /\ up \cap Workers # {} THEN Result ELSE Nothing
  BY <1>1, <1>2 DEF Init
<1>4. Typed
  <2>1. task \in Task /\ up \subseteq Actors /\ inflight \subseteq Ids \X Bodies /\ faults \in Nat
    BY ArtifactsAssumption DEF Init, Task
  <2>2. row \in [Ids -> Row] /\ object \in [Ids -> Bodies \cup {Nothing}]
    BY <1>1, <1>2, <1>3, ArtifactsAssumption DEF Init
  <2>3. actor \in [Actors -> Actor]
    BY RestingOK DEF Init
  <2> QED
    BY <2>1, <2>2, <2>3 DEF Typed
<1>5. UsedInOrder
  <2>1. MaxId \in Nat
    BY ArtifactsAssumption
  <2>2. CASE up \cap Workers # {} /\ 1 <= MaxId
    <3>1. Used = 1..1
      BY <1>1, <1>2, <2>1, <2>2 DEF Used, Ids
    <3> QED
      BY <2>1, <2>2, <3>1 DEF UsedInOrder
  <2>3. CASE ~(up \cap Workers # {} /\ 1 <= MaxId)
    <3>1. Used = 1..0
      BY <1>1, <1>2, <2>1, <2>3 DEF Used, Ids
    <3> QED
      BY <2>1, <3>1 DEF UsedInOrder
  <2> QED
    BY <2>2, <2>3
<1>6. \A i \in Ids : RowOK(i)
  BY <1>1, <1>2, <1>3, ArtifactsAssumption DEF RowOK, Kinds
<1>7. \A a \in Actors : ActorOK(a, actor[a])
  BY RestingOK DEF Init
<1>8. ReadyObjectMatches
  BY <1>1, <1>2, <1>3, ArtifactsAssumption DEF ReadyObjectMatches, Kinds
<1>9. ResultIsOwners /\ \A put \in inflight : PutOK(put)
  BY DEF Init, ResultIsOwners
<1> QED
  BY <1>4, <1>5, <1>6, <1>7, <1>8, <1>9 DEF AInv

\* The invariant holds in every reachable state.
LEMMA ArtifactInvariance == Spec => []AInv
BY InitAInv, NextAInv, PTL DEF Spec

-----------------------------------------------------------------------------
(* Theorems                                                                *)

\* Manager.Complete marks an artifact READY only when the object in the store has the declared
\* size and checksum, and no PUT that arrives later replaces it: for any number of users and
\* workers completing the same row, any bodies and any limits.
THEOREM ReadyIsKept == Spec => []ReadyObjectMatches
BY ArtifactInvariance, PTL DEF AInv

\* CompleteTask records READY artifacts of the task, and those of an SDK worker are its own,
\* however leases are lost between CompleteTask and the checks of the gRPC handler before it.
THEOREM ResultBelongs == Spec => []ResultIsOwners
BY ArtifactInvariance, PTL DEF AInv
=============================================================================
