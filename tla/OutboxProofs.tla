---------------------------- MODULE OutboxProofs ----------------------------
(***************************************************************************)
(* Proofs that the outbox loses no event, keeps the order of transactions  *)
(* that did not overlap and, with batches of one, sends an event from one  *)
(* publisher at a time, for any number of events, runs and publishers and  *)
(* any batch size and timeouts the configuration admits.                   *)
(***************************************************************************)
EXTENDS Outbox, FiniteSetTheorems, TLAPS

\* A step that names no prover is tried by Zenon first, then by the SMT solver.
USE ZenonT(4), SMTT(60)

\* A publisher is on an event of its batch exactly while it waits for an answer.
PubInv ==
    \A p \in Publishers :
        /\ sending[p] = NoEvent <=> waiting[p] = "none"
        /\ sending[p] # NoEvent => sending[p] \in batch[p]

\* The database's clock is ahead of every time it has given.
ClockInv ==
    \A e \in Events :
        /\ createdAt[e] < Now /\ committedAt[e] < Now
        /\ committedAt[e] > 0 => createdAt[e] > 0 /\ createdAt[e] < committedAt[e]

\* What has ever been claimed: events a publisher holds or an abandoned call
\* may deliver, and those in Kafka.
Claimed ==
    {e \in Events : e \in late \/ e \in Logged \/ \E p \in Publishers : e \in batch[p]}

\* The rows of a run that were committed before e began.
Predecessors(e) == {d \in Committed : Run[d] = Run[e] /\ committedAt[d] < createdAt[e]}

\* An event is claimed after its predecessors were published.
HeadInv == \A e \in Claimed : e \in Committed /\ Predecessors(e) \subseteq published

OInv == TypeOK /\ PubInv /\ ClockInv /\ HeadInv /\ NeverLost /\ SerialOrder

-----------------------------------------------------------------------------
(* The clock.                                                              *)

\* The clock is a positive number.
LEMMA NowType == Now \in Nat \ {0}
<1> DEFINE B == {e \in Events : createdAt[e] > 0}
<1>1. B \in SUBSET Events /\ Committed \in SUBSET Events
  BY DEF Committed
<1>2. IsFiniteSet(B) /\ IsFiniteSet(Committed)
  BY <1>1, FS_Subset, EventsAssumption
<1>3. Cardinality(B) \in Nat /\ Cardinality(Committed) \in Nat
  BY <1>2, FS_CardinalityType
<1> QED
  BY <1>3 DEF Now

\* A begin moves it on.
LEMMA NowBegin ==
    ASSUME TypeOK, NEW e \in Events, Begin(e)
    PROVE  Now' = Now + 1
<1> DEFINE B == {d \in Events : createdAt[d] > 0}
<1>1. B' = B \cup {e} /\ e \notin B /\ Committed' = Committed
  <2>1. createdAt' = [createdAt EXCEPT ![e] = Now] /\ createdAt[e] = 0 /\ committedAt' = committedAt
    BY DEF Begin
  <2>2. createdAt'[e] > 0 /\ \A d \in Events \ {e} : createdAt'[d] = createdAt[d]
    BY <2>1, NowType DEF TypeOK
  <2> QED
    BY <2>1, <2>2 DEF Committed
<1>2. B \in SUBSET Events /\ Committed \in SUBSET Events
  BY DEF Committed
<1>3. IsFiniteSet(B) /\ IsFiniteSet(Committed)
  BY <1>2, FS_Subset, EventsAssumption
<1>4. Cardinality(B) \in Nat /\ Cardinality(Committed) \in Nat
  BY <1>3, FS_CardinalityType
<1>5. Cardinality(B \cup {e}) = Cardinality(B) + 1
  BY <1>1, <1>3, FS_AddElement, Zenon
<1>6. Now = Cardinality(B) + Cardinality(Committed) + 1 /\ Now' = Cardinality(B') + Cardinality(Committed') + 1
  BY DEF Now
<1> QED
  BY <1>1, <1>4, <1>5, <1>6

\* A commit moves it on.
LEMMA NowCommit ==
    ASSUME TypeOK, NEW e \in Events, Commit(e)
    PROVE  Now' = Now + 1 /\ Committed' = Committed \cup {e}
<1> DEFINE B == {d \in Events : createdAt[d] > 0}
<1>1. B' = B /\ Committed' = Committed \cup {e} /\ e \notin Committed
  <2>1. committedAt' = [committedAt EXCEPT ![e] = Now] /\ createdAt' = createdAt /\ e \notin Committed
    BY DEF Commit
  <2>2. committedAt'[e] > 0 /\ \A d \in Events \ {e} : committedAt'[d] = committedAt[d]
    BY <2>1, NowType DEF TypeOK
  <2> QED
    BY <2>1, <2>2 DEF Committed
<1>2. B \in SUBSET Events /\ Committed \in SUBSET Events
  BY DEF Committed
<1>3. IsFiniteSet(B) /\ IsFiniteSet(Committed)
  BY <1>2, FS_Subset, EventsAssumption
<1>4. Cardinality(B) \in Nat /\ Cardinality(Committed) \in Nat
  BY <1>3, FS_CardinalityType
<1>5. Cardinality(Committed \cup {e}) = Cardinality(Committed) + 1
  BY <1>1, <1>3, FS_AddElement, Zenon
<1>6. Now = Cardinality(B) + Cardinality(Committed) + 1 /\ Now' = Cardinality(B') + Cardinality(Committed') + 1
  BY DEF Now
<1>7. Cardinality(B') = Cardinality(B) /\ Cardinality(Committed') = Cardinality(Committed) + 1
  BY <1>1, <1>5
<1>8. Now' = Now + 1
  <2> HIDE DEF B
  <2> QED
    BY <1>4, <1>6, <1>7
<1> QED
  BY <1>1, <1>8

\* A step that begins and commits nothing leaves clock and rows as they are.
LEMMA NowSame ==
    ASSUME UNCHANGED <<createdAt, committedAt>>
    PROVE  Now' = Now /\ Committed' = Committed /\ \A e \in Events : Predecessors(e)' = Predecessors(e)
<1>1. Committed' = Committed
  BY DEF Committed
<1>2. {e \in Events : createdAt[e] > 0}' = {e \in Events : createdAt[e] > 0}
  OBVIOUS
<1>3. Now' = Now
  BY <1>1, <1>2 DEF Now
<1>4. \A e \in Events : Predecessors(e)' = Predecessors(e)
  BY <1>1 DEF Predecessors
<1> QED
  BY <1>1, <1>3, <1>4

-----------------------------------------------------------------------------
(* Kafka.                                                                  *)

\* A delivery records the event behind what is there, and moves nothing.
LEMMA DeliverLog ==
    ASSUME TypeOK, NEW e \in Events, Deliver(e)
    PROVE  /\ log' \in [Runs -> Seq(Events)]
           /\ late' = late \ {e}
           /\ Logged' = Logged \cup {e}
           /\ \A c, d \in Events : Ahead(c, d) => Ahead(c, d)'
           /\ \A d \in Logged : e \notin Logged /\ Run[d] = Run[e] => Ahead(d, e)'
<1>1. CASE e \in Logged
  <2>1. log' = log /\ late' = late \ {e}
    BY <1>1 DEF Deliver
  <2> QED
    BY <1>1, <2>1, Zenon DEF TypeOK, Logged, Ahead
<1>2. CASE e \notin Logged
  <2> DEFINE part == log[Run[e]]
  <2>1. log' = [log EXCEPT ![Run[e]] = Append(part, e)] /\ late' = late \ {e}
    BY <1>2 DEF Deliver
  <2>2. Run[e] \in Runs /\ \A d \in Events : Run[d] \in Runs
    BY DEF Runs
  <2>3. part \in Seq(Events)
    BY <2>2 DEF TypeOK
  <2>4. /\ Append(part, e) \in Seq(Events) /\ Len(Append(part, e)) = Len(part) + 1
        /\ \A i \in 1 .. Len(part) : Append(part, e)[i] = part[i]
        /\ Append(part, e)[Len(part) + 1] = e /\ Len(part) \in Nat
    BY <2>3
  <2>5. log' \in [Runs -> Seq(Events)]
    BY <2>1, <2>4, Zenon DEF TypeOK
  <2>6. log'[Run[e]] = Append(part, e) /\ \A r \in Runs : r # Run[e] => log'[r] = log[r]
    BY <2>1, <2>2 DEF TypeOK
  <2>7. Logged' = Logged \cup {e}
    <3>1. \A d \in Events : Run[d] # Run[e] => (d \in Logged' <=> d \in Logged) /\ d # e
      BY <2>2, <2>6 DEF Logged
    <3>2. \A d \in Events : Run[d] = Run[e] => (d \in Logged' <=> d \in Logged \/ d = e)
      <4> SUFFICES ASSUME NEW d \in Events, Run[d] = Run[e]
                   PROVE  d \in Logged' <=> d \in Logged \/ d = e
        OBVIOUS
      <4>a. d \in Logged <=> \E i \in 1 .. Len(part) : part[i] = d
        BY DEF Logged
      <4>b. d \in Logged' <=> \E i \in 1 .. Len(log'[Run[e]]) : log'[Run[e]][i] = d
        BY DEF Logged
      <4>c. d \in Logged' <=> \E i \in 1 .. Len(Append(part, e)) : Append(part, e)[i] = d
        BY <2>6, <4>b
      <4> HIDE DEF part
      <4>1. ASSUME NEW i \in 1 .. Len(Append(part, e)), Append(part, e)[i] = d
            PROVE  (\E k \in 1 .. Len(part) : part[k] = d) \/ d = e
        <5>1. i \in 1 .. Len(part) \/ i = Len(part) + 1
          BY <2>4, <4>1
        <5> QED
          BY <2>4, <4>1, <5>1
      <4>2. ASSUME NEW i \in 1 .. Len(part), part[i] = d
            PROVE  \E k \in 1 .. Len(Append(part, e)) : Append(part, e)[k] = d
        <5>1. i \in 1 .. Len(Append(part, e)) /\ Append(part, e)[i] = d
          BY <2>4, <4>2
        <5> QED
          BY <5>1
      <4>3. \E k \in 1 .. Len(Append(part, e)) : Append(part, e)[k] = e
        <5>1. Len(part) + 1 \in 1 .. Len(Append(part, e))
          BY <2>4
        <5> QED
          BY <2>4, <5>1
      <4> QED
        BY <4>a, <4>c, <4>1, <4>2, <4>3
    <3> QED
      BY <3>1, <3>2, Zenon DEF Logged
  <2>8. ASSUME NEW c \in Events, NEW d \in Events, Ahead(c, d)
        PROVE  Ahead(c, d)'
    <3>1. PICK i, j \in 1 .. Len(log[Run[d]]) : i < j /\ log[Run[d]][i] = c /\ log[Run[d]][j] = d
      BY <2>8 DEF Ahead
    <3>2. CASE Run[d] # Run[e]
      <4>1. log'[Run[d]] = log[Run[d]]
        BY <2>2, <2>6, <3>2
      <4> QED
        BY <3>1, <4>1 DEF Ahead
    <3>3. CASE Run[d] = Run[e]
      <4>1. log'[Run[d]] = Append(part, e) /\ log[Run[d]] = part
        BY <2>6, <3>3
      <4>2. i \in 1 .. Len(part) + 1 /\ j \in 1 .. Len(part) + 1 /\ i < j
            /\ Append(part, e)[i] = c /\ Append(part, e)[j] = d
        BY <2>4, <3>1, <4>1
      <4> QED
        BY <2>4, <4>1, <4>2 DEF Ahead
    <3> QED
      BY <3>2, <3>3
  <2>9. ASSUME NEW d \in Logged, Run[d] = Run[e]
        PROVE  Ahead(d, e)'
    <3>1. PICK i \in 1 .. Len(part) : part[i] = d
      BY <2>9 DEF Logged
    <3>2. Len(part) + 1 \in 1 .. Len(Append(part, e)) /\ i \in 1 .. Len(Append(part, e)) /\ i < Len(part) + 1
      BY <2>4, <3>1
    <3>3. Append(part, e)[i] = d /\ Append(part, e)[Len(part) + 1] = e
      BY <2>4, <3>1
    <3> HIDE DEF part
    <3>4. \E k, j \in 1 .. Len(log'[Run[e]]) : k < j /\ log'[Run[e]][k] = d /\ log'[Run[e]][j] = e
      BY <2>6, <3>2, <3>3
    <3> QED
      BY <3>4 DEF Ahead
  <2> QED
    BY <2>1, <2>5, <2>7, <2>8, <2>9
<1> QED
  BY <1>1, <1>2

-----------------------------------------------------------------------------
(* What a step of a publisher keeps.                                       *)

\* Rows that did not change keep their times behind the clock.
LEMMA ClockKept ==
    ASSUME ClockInv, UNCHANGED <<createdAt, committedAt>>
    PROVE  ClockInv'
BY NowSame DEF ClockInv

\* A step that claims nothing new and takes back no acknowledgement keeps the
\* predecessors of claimed events published.
LEMMA HeadKept ==
    ASSUME HeadInv, UNCHANGED <<createdAt, committedAt>>,
           published \subseteq published', Claimed' \subseteq Claimed
    PROVE  HeadInv'
<1> SUFFICES ASSUME NEW e \in Claimed'
             PROVE  e \in Committed' /\ Predecessors(e)' \subseteq published'
  BY DEF HeadInv
<1>1. e \in Claimed /\ e \in Events
  BY DEF Claimed
<1>2. Committed' = Committed /\ Predecessors(e)' = Predecessors(e)
  BY <1>1, NowSame
<1> QED
  BY <1>1, <1>2 DEF HeadInv

\* What is in Kafka stays in its order when nothing is delivered.
LEMMA OrderKept ==
    ASSUME SerialOrder, UNCHANGED <<createdAt, committedAt, log>>
    PROVE  SerialOrder' /\ Logged' = Logged
BY DEF SerialOrder, Committed, Logged, Ahead

\* A claimed event is delivered behind all its predecessors, which are
\* published and so in Kafka.
LEMMA OrderDelivered ==
    ASSUME OInv, NEW e \in Claimed, Deliver(e), UNCHANGED <<createdAt, committedAt>>
    PROVE  SerialOrder'
<1>1. e \in Events /\ TypeOK
  BY DEF Claimed, OInv
<1>2. Committed' = Committed
  BY NowSame
<1> SUFFICES ASSUME NEW c \in Committed, NEW d \in Committed, Run[c] = Run[d],
                    committedAt[c] < createdAt[d], d \in Logged'
             PROVE  Ahead(c, d)'
  BY <1>2 DEF SerialOrder
<1>3. c \in Events /\ d \in Events
  BY DEF Committed
<1>4. CASE d \in Logged
  <2>1. Ahead(c, d)
    BY <1>4 DEF OInv, SerialOrder
  <2> QED
    BY <1>1, <1>3, <2>1, DeliverLog
<1>5. CASE d \notin Logged
  <2>1. d = e
    BY <1>1, <1>5, DeliverLog
  <2>2. c \in published
    BY <2>1 DEF OInv, HeadInv, Predecessors
  <2>3. c \in Logged
    BY <2>2 DEF OInv, NeverLost
  <2> QED
    BY <1>1, <1>5, <2>1, <2>3, DeliverLog
<1> QED
  BY <1>4, <1>5

-----------------------------------------------------------------------------
(* The inductive step, action by action.                                   *)

\* A transaction that begins has no committed row and is later than all that
\* have one.
LEMMA BeginStep ==
    ASSUME OInv, NEW x \in Events, Begin(x)
    PROVE  OInv'
<1>1. TypeOK /\ Now \in Nat \ {0} /\ Now' = Now + 1
  BY NowType, NowBegin DEF OInv
<1>2. /\ createdAt[x] = 0 /\ createdAt' = [createdAt EXCEPT ![x] = Now]
      /\ UNCHANGED <<committedAt, published, claimToken, claimLeft, batch, sending, waiting,
                     timeLeft, late, log>>
  BY DEF Begin, pub
<1>3. /\ \A e \in Events \ {x} : createdAt'[e] = createdAt[e]
      /\ createdAt'[x] = Now /\ createdAt' \in [Events -> Nat]
  BY <1>1, <1>2 DEF TypeOK
<1>4. x \notin Committed /\ Committed' = Committed /\ Logged' = Logged /\ Claimed' = Claimed
  <2>1. committedAt[x] = 0
    <3>1. committedAt[x] > 0 => createdAt[x] > 0
      BY DEF OInv, ClockInv
    <3>2. committedAt[x] \in Nat
      BY <1>1 DEF TypeOK
    <3> QED
      BY <1>2, <3>1, <3>2
  <2>2. x \notin Committed
    BY <2>1 DEF Committed
  <2> QED
    BY <1>2, <2>2 DEF Committed, Logged, Claimed
<1>5. TypeOK'
  BY <1>1, <1>2, <1>3 DEF TypeOK
<1>6. PubInv' /\ NeverLost'
  BY <1>2, <1>4 DEF OInv, PubInv, NeverLost
<1>7. ClockInv'
  <2> SUFFICES ASSUME NEW e \in Events
               PROVE  /\ createdAt'[e] < Now' /\ committedAt'[e] < Now'
                      /\ committedAt'[e] > 0 =>
                            createdAt'[e] > 0 /\ createdAt'[e] < committedAt'[e]
    BY DEF ClockInv
  <2>1. /\ createdAt[e] < Now /\ committedAt[e] < Now
        /\ committedAt[e] > 0 => createdAt[e] > 0 /\ createdAt[e] < committedAt[e]
    BY DEF OInv, ClockInv
  <2>2. createdAt[e] \in Nat /\ committedAt[e] \in Nat
    BY <1>1 DEF TypeOK
  <2>3. e = x => committedAt[e] = 0
    BY <1>4, <2>2 DEF Committed
  <2> QED
    BY <1>1, <1>2, <1>3, <2>1, <2>2, <2>3
<1>8. HeadInv'
  <2> SUFFICES ASSUME NEW e \in Claimed
               PROVE  e \in Committed /\ Predecessors(e)' \subseteq published
    BY <1>2, <1>4 DEF HeadInv
  <2>1. e \in Committed /\ Predecessors(e) \subseteq published
    BY DEF OInv, HeadInv
  <2>2. createdAt'[e] = createdAt[e]
    BY <1>3, <1>4, <2>1 DEF Committed
  <2>3. Predecessors(e)' = Predecessors(e)
    BY <1>2, <1>4, <2>2 DEF Predecessors
  <2> QED
    BY <2>1, <2>3
<1>9. SerialOrder'
  <2>1. \A e \in Committed : createdAt'[e] = createdAt[e]
    BY <1>3, <1>4 DEF Committed
  <2>2. \A c, d \in Committed : Ahead(c, d)' = Ahead(c, d)
    BY <1>2 DEF Ahead
  <2> QED
    BY <1>2, <1>4, <2>1, <2>2 DEF OInv, SerialOrder
<1> QED
  BY <1>5, <1>6, <1>7, <1>8, <1>9 DEF OInv

\* A transaction that commits is later than every row that was begun, so it
\* precedes none of them.
LEMMA CommitStep ==
    ASSUME OInv, NEW x \in Events, Commit(x)
    PROVE  OInv'
<1>1. TypeOK /\ Now \in Nat \ {0} /\ Now' = Now + 1 /\ Committed' = Committed \cup {x}
  BY NowType, NowCommit DEF OInv
<1>2. /\ createdAt[x] > 0 /\ x \notin Committed
      /\ committedAt' = [committedAt EXCEPT ![x] = Now]
      /\ UNCHANGED <<createdAt, published, claimToken, claimLeft, batch, sending, waiting,
                     timeLeft, late, log>>
  BY DEF Commit, pub
<1>3. /\ \A e \in Events \ {x} : committedAt'[e] = committedAt[e]
      /\ committedAt'[x] = Now /\ committedAt' \in [Events -> Nat]
  BY <1>1, <1>2 DEF TypeOK
<1>4. Logged' = Logged /\ Claimed' = Claimed
  BY <1>2 DEF Logged, Claimed
<1>5. TypeOK'
  BY <1>1, <1>2, <1>3 DEF TypeOK
<1>6. PubInv' /\ NeverLost'
  BY <1>2, <1>4 DEF OInv, PubInv, NeverLost
<1>7. ClockInv'
  <2> SUFFICES ASSUME NEW e \in Events
               PROVE  /\ createdAt'[e] < Now' /\ committedAt'[e] < Now'
                      /\ committedAt'[e] > 0 =>
                            createdAt'[e] > 0 /\ createdAt'[e] < committedAt'[e]
    BY DEF ClockInv
  <2>1. /\ createdAt[e] < Now /\ committedAt[e] < Now
        /\ committedAt[e] > 0 => createdAt[e] > 0 /\ createdAt[e] < committedAt[e]
    BY DEF OInv, ClockInv
  <2>2. createdAt[e] \in Nat /\ committedAt[e] \in Nat
    BY <1>1 DEF TypeOK
  <2> QED
    BY <1>1, <1>2, <1>3, <2>1, <2>2
<1>8. \A e \in Events : Predecessors(e)' = Predecessors(e)
  <2> SUFFICES ASSUME NEW e \in Events, NEW d \in Events
               PROVE  d \in Predecessors(e)' <=> d \in Predecessors(e)
    BY <1>1 DEF Predecessors, Committed
  <2>1. CASE d = x
    <3>1. ~(committedAt'[d] < createdAt'[e])
      <4>1. createdAt[e] < Now /\ createdAt[e] \in Nat
        BY <1>1 DEF OInv, ClockInv, TypeOK
      <4> QED
        BY <1>1, <1>2, <1>3, <2>1, <4>1
    <3> QED
      BY <1>2, <2>1, <3>1 DEF Predecessors
  <2>2. CASE d # x
    BY <1>1, <1>2, <1>3, <2>2 DEF Predecessors
  <2> QED
    BY <2>1, <2>2
<1>9. HeadInv'
  <2> SUFFICES ASSUME NEW e \in Claimed
               PROVE  e \in Committed' /\ Predecessors(e)' \subseteq published
    BY <1>2, <1>4 DEF HeadInv
  <2>1. e \in Events
    BY DEF Claimed
  <2> QED
    BY <1>1, <1>8, <2>1 DEF OInv, HeadInv
<1>10. SerialOrder'
  <2> SUFFICES ASSUME NEW c \in Committed', NEW d \in Committed', Run[c] = Run[d],
                      committedAt'[c] < createdAt'[d], d \in Logged
               PROVE  Ahead(c, d)'
    BY <1>4 DEF SerialOrder
  <2>1. c \in Events /\ d \in Events
    BY DEF Committed
  <2>2. d \in Committed
    BY <2>1 DEF OInv, HeadInv, Claimed
  <2>3. c \in Predecessors(d)'
    BY DEF Predecessors
  <2>4. c \in Predecessors(d)
    BY <1>8, <2>1, <2>3
  <2>5. Ahead(c, d)
    BY <2>2, <2>4 DEF OInv, SerialOrder, Predecessors
  <2> QED
    BY <1>2, <2>5 DEF Ahead
<1> QED
  BY <1>5, <1>6, <1>7, <1>9, <1>10 DEF OInv

\* A late copy is one of a claimed event.
LEMMA LateStep ==
    ASSUME OInv, NEW e \in Events, LateDelivery(e)
    PROVE  OInv'
<1>1. /\ TypeOK /\ e \in late /\ Deliver(e)
      /\ UNCHANGED <<createdAt, committedAt, published, claimToken, claimLeft, batch, sending,
                     waiting, timeLeft>>
  BY DEF OInv, LateDelivery, db, pub
<1>2. log' \in [Runs -> Seq(Events)] /\ late' = late \ {e} /\ Logged' = Logged \cup {e}
  BY <1>1, DeliverLog
<1>3. Claimed' \subseteq Claimed /\ e \in Claimed
  BY <1>1, <1>2 DEF Claimed
<1>4. TypeOK'
  BY <1>1, <1>2 DEF TypeOK
<1>5. PubInv' /\ NeverLost'
  BY <1>1, <1>2 DEF OInv, PubInv, NeverLost
<1>6. ClockInv'
  BY <1>1, ClockKept DEF OInv
<1>7. HeadInv'
  BY <1>1, <1>3, HeadKept DEF OInv
<1>8. SerialOrder'
  BY <1>1, <1>3, OrderDelivered
<1> QED
  BY <1>4, <1>5, <1>6, <1>7, <1>8 DEF OInv

\* A claimed event is the head of its run: what committed before it began
\* was created before it and is published.
LEMMA ClaimStep ==
    ASSUME OInv, NEW p \in Publishers, Claim(p)
    PROVE  OInv'
<1>1. /\ TypeOK /\ batch[p] = {} /\ batch' = [batch EXCEPT ![p] = Candidates]
      /\ claimToken' = [e \in Events |-> IF e \in Candidates THEN p ELSE claimToken[e]]
      /\ claimLeft' = [e \in Events |-> IF e \in Candidates THEN ClaimTTL ELSE claimLeft[e]]
      /\ UNCHANGED <<createdAt, committedAt, published, sending, waiting, timeLeft, late, log>>
  BY DEF OInv, Claim, ClaimPeriod
<1>2. Candidates \subseteq Claimable /\ Claimable \subseteq Committed /\ Committed \subseteq Events
  BY DEF Candidates, Claimable, Committed
<1>3. Logged' = Logged /\ Committed' = Committed /\ Claimed' \subseteq Claimed \cup Candidates
  BY <1>1, <1>2 DEF Logged, Committed, Claimed, TypeOK
<1>4. TypeOK'
  <2>1. claimToken' \in [Events -> Publishers \cup {Nobody, Orphan}]
    BY <1>1 DEF TypeOK
  <2>2. claimLeft' \in [Events -> 0 .. ClaimTTL]
    BY <1>1, TimeoutAssumption DEF TypeOK
  <2>3. batch' \in [Publishers -> SUBSET Events]
    BY <1>1, <1>2 DEF TypeOK
  <2> QED
    BY <1>1, <2>1, <2>2, <2>3 DEF TypeOK
<1>5. PubInv' /\ NeverLost'
  BY <1>1, <1>3 DEF OInv, PubInv, NeverLost, TypeOK
<1>6. ClockInv'
  BY <1>1, ClockKept DEF OInv
<1>7. \A e \in Candidates : Predecessors(e) \subseteq published
  <2> SUFFICES ASSUME NEW e \in Candidates, NEW d \in Predecessors(e)
               PROVE  d \in published
    OBVIOUS
  <2>1. d \in Committed /\ Run[d] = Run[e] /\ committedAt[d] < createdAt[e] /\ d \in Events /\ e \in Events
    BY <1>2 DEF Predecessors
  <2>2. createdAt[d] < committedAt[d]
    BY <2>1 DEF OInv, ClockInv, Committed
  <2>3. createdAt[d] \in Nat /\ committedAt[d] \in Nat /\ createdAt[e] \in Nat
    BY <1>1, <2>1 DEF TypeOK
  <2>4. Before(d, e)
    BY <2>1, <2>2, <2>3 DEF Before
  <2> QED
    BY <1>2, <2>1, <2>4 DEF Claimable
<1>8. HeadInv'
  <2> SUFFICES ASSUME NEW e \in Claimed'
               PROVE  e \in Committed /\ Predecessors(e) \subseteq published
    <3>1. \A e \in Claimed' : e \in Events
      BY DEF Claimed
    <3> QED
      BY <1>1, <1>3, <3>1, NowSame DEF HeadInv
  <2> QED
    BY <1>2, <1>3, <1>7 DEF OInv, HeadInv
<1>9. SerialOrder'
  BY <1>1, OrderKept DEF OInv
<1> QED
  BY <1>4, <1>5, <1>6, <1>8, <1>9 DEF OInv

\* A publisher starts on an event of its batch.
LEMMA SendStep ==
    ASSUME OInv, NEW p \in Publishers, NEW e \in Events, Send(p, e)
    PROVE  OInv'
<1>1. /\ TypeOK /\ e \in batch[p] /\ sending' = [sending EXCEPT ![p] = e]
      /\ waiting' = [waiting EXCEPT ![p] = "kafka"]
      /\ timeLeft' = [timeLeft EXCEPT ![p] = PublishTimeout]
      /\ UNCHANGED <<createdAt, committedAt, published, claimToken, claimLeft, batch, late, log>>
  BY DEF OInv, Send, db
<1>2. Logged' = Logged /\ Claimed' = Claimed
  BY <1>1 DEF Logged, Claimed
<1>3. TypeOK'
  BY <1>1, TimeoutAssumption DEF TypeOK
<1>4. PubInv'
  BY <1>1, NoEventAssumption DEF OInv, PubInv, TypeOK
<1>5. NeverLost'
  BY <1>1, <1>2 DEF OInv, NeverLost, TypeOK
<1>6. ClockInv' /\ HeadInv' /\ SerialOrder'
  BY <1>1, <1>2, ClockKept, HeadKept, OrderKept DEF OInv
<1> QED
  BY <1>3, <1>4, <1>5, <1>6 DEF OInv

\* What a publisher that waits is on.
LEMMA OnEvent ==
    ASSUME OInv, NEW p \in Publishers, waiting[p] # "none"
    PROVE  sending[p] \in Events /\ sending[p] \in batch[p] /\ sending[p] \in Claimed
<1>1. sending[p] # NoEvent /\ sending[p] \in batch[p]
  BY DEF OInv, PubInv
<1>2. batch[p] \subseteq Events
  BY DEF OInv, TypeOK
<1> QED
  BY <1>1, <1>2 DEF Claimed

\* Kafka has the event before its publisher turns to the acknowledgement.
LEMMA DeliveredStep ==
    ASSUME OInv, NEW p \in Publishers, Delivered(p)
    PROVE  OInv'
<1>1. /\ TypeOK /\ waiting[p] = "kafka" /\ Deliver(sending[p])
      /\ waiting' = [waiting EXCEPT ![p] = "ack"]
      /\ timeLeft' = [timeLeft EXCEPT ![p] = 0]
      /\ UNCHANGED <<createdAt, committedAt, published, claimToken, claimLeft, batch, sending>>
  BY DEF OInv, Delivered, db
<1>2. sending[p] \in Events /\ sending[p] \in Claimed
  BY <1>1, OnEvent
<1>3. /\ log' \in [Runs -> Seq(Events)] /\ late' = late \ {sending[p]}
      /\ Logged' = Logged \cup {sending[p]}
  BY <1>1, <1>2, DeliverLog
<1>4. Claimed' \subseteq Claimed
  BY <1>1, <1>2, <1>3 DEF Claimed
<1>5. TypeOK'
  BY <1>1, <1>3, TimeoutAssumption DEF TypeOK
<1>6. PubInv'
  BY <1>1 DEF OInv, PubInv, TypeOK
<1>7. NeverLost'
  BY <1>1, <1>3 DEF OInv, NeverLost, TypeOK
<1>8. ClockInv' /\ HeadInv'
  BY <1>1, <1>4, ClockKept, HeadKept DEF OInv
<1>9. SerialOrder'
  BY <1>1, <1>2, OrderDelivered
<1> QED
  BY <1>5, <1>6, <1>7, <1>8, <1>9 DEF OInv

\* A publisher that gives up leaves the rows and the other publishers alone.
LEMMA AbandonFrame ==
    ASSUME OInv, NEW p \in Publishers, NEW released \in BOOLEAN, Abandon(p, released)
    PROVE  /\ UNCHANGED <<createdAt, committedAt, published>>
           /\ claimToken' \in [Events -> Publishers \cup {Nobody, Orphan}]
           /\ claimLeft' \in [Events -> 0 .. ClaimTTL]
           /\ batch' \in [Publishers -> SUBSET Events]
           /\ sending' \in [Publishers -> Events \cup {NoEvent}]
           /\ waiting' \in [Publishers -> {"none", "kafka", "ack"}]
           /\ timeLeft' \in [Publishers -> 0 .. PublishTimeout]
           /\ batch'[p] = {} /\ sending'[p] = NoEvent /\ waiting'[p] = "none"
           /\ \A q \in Publishers \ {p} :
                 batch'[q] = batch[q] /\ sending'[q] = sending[q] /\ waiting'[q] = waiting[q]
           /\ PubInv' /\ ClockInv'
<1>1. TypeOK
  BY DEF OInv
<1>2. /\ UNCHANGED <<createdAt, committedAt, published>>
      /\ claimToken' \in [Events -> Publishers \cup {Nobody, Orphan}]
      /\ claimLeft' \in [Events -> 0 .. ClaimTTL]
  BY <1>1, TimeoutAssumption DEF Abandon, ClaimsAfter, TypeOK
<1>3. /\ batch' \in [Publishers -> SUBSET Events]
      /\ sending' \in [Publishers -> Events \cup {NoEvent}]
      /\ waiting' \in [Publishers -> {"none", "kafka", "ack"}]
      /\ timeLeft' \in [Publishers -> 0 .. PublishTimeout]
  BY <1>1, TimeoutAssumption DEF Abandon, TypeOK
<1>4. /\ batch'[p] = {} /\ sending'[p] = NoEvent /\ waiting'[p] = "none"
      /\ \A q \in Publishers \ {p} :
            batch'[q] = batch[q] /\ sending'[q] = sending[q] /\ waiting'[q] = waiting[q]
  BY <1>1 DEF Abandon, TypeOK
<1>5. PubInv'
  BY <1>4 DEF OInv, PubInv
<1>6. ClockInv'
  BY <1>2, ClockKept DEF OInv
<1> QED
  BY <1>2, <1>3, <1>4, <1>5, <1>6

\* Giving up without a delivery.
LEMMA AbandonStep ==
    ASSUME OInv, NEW p \in Publishers, NEW released \in BOOLEAN, Abandon(p, released),
           UNCHANGED <<late, log>>
    PROVE  OInv'
<1>1. Logged' = Logged /\ Claimed' \subseteq Claimed
  BY AbandonFrame, Zenon DEF Logged, Claimed
<1>2. TypeOK'
  BY AbandonFrame DEF OInv, TypeOK
<1>3. NeverLost'
  BY <1>1, AbandonFrame DEF OInv, NeverLost
<1>4. HeadInv' /\ SerialOrder'
  BY <1>1, AbandonFrame, HeadKept, OrderKept DEF OInv
<1> QED
  BY <1>2, <1>3, <1>4, AbandonFrame DEF OInv

\* The message of a failed call is lost, is in Kafka, or will be there later.
LEMMA SendFailsStep ==
    ASSUME OInv, NEW p \in Publishers, NEW released \in BOOLEAN, SendFails(p, released)
    PROVE  OInv'
<1>1. waiting[p] = "kafka" /\ Abandon(p, released) /\ TypeOK
  BY DEF SendFails, OInv
<1>2. sending[p] \in Events /\ sending[p] \in Claimed
  BY <1>1, OnEvent
<1>3. CASE UNCHANGED <<late, log>>
  BY <1>1, <1>3, AbandonStep
<1>4. CASE Deliver(sending[p])
  <2>1. /\ log' \in [Runs -> Seq(Events)] /\ late' = late \ {sending[p]}
        /\ Logged' = Logged \cup {sending[p]}
    BY <1>1, <1>2, <1>4, DeliverLog
  <2>2. Claimed' \subseteq Claimed
    BY <1>1, <1>2, <2>1, AbandonFrame, Zenon DEF Claimed
  <2>3. TypeOK'
    BY <1>1, <2>1, AbandonFrame DEF TypeOK
  <2>4. NeverLost'
    BY <1>1, <2>1, AbandonFrame, Zenon DEF OInv, NeverLost
  <2>5. HeadInv'
    BY <1>1, <2>2, AbandonFrame, HeadKept DEF OInv
  <2>6. SerialOrder'
    BY <1>1, <1>2, <1>4, AbandonFrame, OrderDelivered
  <2> QED
    BY <1>1, <2>3, <2>4, <2>5, <2>6, AbandonFrame DEF OInv
<1>5. CASE late' = late \cup ({sending[p]} \ Logged) /\ UNCHANGED log
  <2>1. Logged' = Logged
    BY <1>5 DEF Logged
  <2>2. Claimed' \subseteq Claimed
    BY <1>1, <1>2, <1>5, <2>1, AbandonFrame DEF Claimed
  <2>3. TypeOK'
    BY <1>1, <1>2, <1>5, AbandonFrame DEF TypeOK
  <2>4. NeverLost'
    BY <1>1, <2>1, AbandonFrame DEF OInv, NeverLost
  <2>5. HeadInv' /\ SerialOrder'
    BY <1>1, <1>5, <2>2, AbandonFrame, HeadKept, OrderKept DEF OInv
  <2> QED
    BY <1>1, <2>3, <2>4, <2>5, AbandonFrame DEF OInv
<1> QED
  BY <1>3, <1>4, <1>5 DEF SendFails

\* Only an event that is in Kafka is acknowledged.
LEMMA AckStep ==
    ASSUME OInv, NEW p \in Publishers, Ack(p)
    PROVE  OInv'
<1>1. /\ TypeOK /\ waiting[p] = "ack" /\ published' = published \cup {sending[p]}
      /\ claimToken' = [claimToken EXCEPT ![sending[p]] = Nobody]
      /\ claimLeft' = [claimLeft EXCEPT ![sending[p]] = 0]
      /\ batch' = [batch EXCEPT ![p] = @ \ {sending[p]}]
      /\ sending' = [sending EXCEPT ![p] = NoEvent]
      /\ waiting' = [waiting EXCEPT ![p] = "none"]
      /\ UNCHANGED <<createdAt, committedAt, timeLeft, late, log>>
  BY DEF OInv, Ack
<1>2. sending[p] \in Events
  BY <1>1, OnEvent
<1>3. /\ batch'[p] = batch[p] \ {sending[p]} /\ sending'[p] = NoEvent /\ waiting'[p] = "none"
      /\ \A q \in Publishers \ {p} :
            batch'[q] = batch[q] /\ sending'[q] = sending[q] /\ waiting'[q] = waiting[q]
  BY <1>1 DEF TypeOK
<1>4. Logged' = Logged /\ Claimed' \subseteq Claimed
  BY <1>1, <1>3 DEF Logged, Claimed
<1>5. TypeOK'
  <2>1. claimToken' \in [Events -> Publishers \cup {Nobody, Orphan}]
    BY <1>1, Zenon DEF TypeOK
  <2>2. claimLeft' \in [Events -> 0 .. ClaimTTL]
    <3>1. 0 \in 0 .. ClaimTTL
      BY TimeoutAssumption
    <3>2. claimLeft \in [Events -> 0 .. ClaimTTL]
      BY <1>1 DEF TypeOK
    <3>3. claimLeft' = [claimLeft EXCEPT ![sending[p]] = 0]
      BY <1>1
    <3> QED
      BY <3>1, <3>2, <3>3, Zenon
  <2>3. /\ batch' \in [Publishers -> SUBSET Events]
        /\ sending' \in [Publishers -> Events \cup {NoEvent}]
        /\ waiting' \in [Publishers -> {"none", "kafka", "ack"}]
    BY <1>1 DEF TypeOK
  <2> QED
    BY <1>1, <1>2, <2>1, <2>2, <2>3 DEF TypeOK
<1>6. PubInv'
  BY <1>3 DEF OInv, PubInv
<1>7. NeverLost'
  BY <1>1, <1>3, <1>4 DEF OInv, NeverLost
<1>8. ClockInv' /\ HeadInv' /\ SerialOrder'
  BY <1>1, <1>4, ClockKept, HeadKept, OrderKept DEF OInv
<1> QED
  BY <1>5, <1>6, <1>7, <1>8 DEF OInv

\* Time moves claims and timeouts only.
LEMMA TickStep ==
    ASSUME OInv, Tick
    PROVE  OInv'
<1>1. /\ TypeOK
      /\ claimLeft' = [e \in Events |-> IF claimLeft[e] > 0 THEN claimLeft[e] - 1 ELSE 0]
      /\ timeLeft' = [p \in Publishers |-> IF timeLeft[p] > 0 THEN timeLeft[p] - 1 ELSE 0]
      /\ UNCHANGED <<createdAt, committedAt, published, claimToken, batch, sending, waiting,
                     late, log>>
  BY DEF OInv, Tick
<1>2. Logged' = Logged /\ Claimed' = Claimed
  BY <1>1 DEF Logged, Claimed
<1>3. claimLeft' \in [Events -> 0 .. ClaimTTL] /\ timeLeft' \in [Publishers -> 0 .. PublishTimeout]
  BY <1>1, TimeoutAssumption DEF TypeOK
<1>4. TypeOK'
  BY <1>1, <1>3 DEF TypeOK
<1>5. PubInv' /\ NeverLost'
  BY <1>1, <1>2 DEF OInv, PubInv, NeverLost
<1>6. ClockInv' /\ HeadInv' /\ SerialOrder'
  BY <1>1, <1>2, ClockKept, HeadKept, OrderKept DEF OInv
<1> QED
  BY <1>4, <1>5, <1>6 DEF OInv

\* Nothing is committed, claimed or in Kafka at the start.
LEMMA InitOInv == Init => OInv
<1> SUFFICES ASSUME Init
             PROVE  OInv
  OBVIOUS
<1>1. Committed = {} /\ Logged = {} /\ Claimed = {}
  <2>1. Logged = {}
    <3>1. \A e \in Events : log[Run[e]] = << >>
      BY DEF Init, Runs
    <3> QED
      BY <3>1 DEF Logged
  <2> QED
    BY <2>1 DEF Init, Committed, Claimed
<1>2. TypeOK
  BY TimeoutAssumption DEF Init, TypeOK
<1>3. PubInv /\ NeverLost
  BY DEF Init, PubInv, NeverLost
<1>4. ClockInv
  BY NowType DEF Init, ClockInv
<1>5. HeadInv /\ SerialOrder
  BY <1>1 DEF HeadInv, SerialOrder
<1> QED
  BY <1>2, <1>3, <1>4, <1>5 DEF OInv

\* Every step keeps the invariant.
LEMMA NextOInv == OInv /\ [Next]_vars => OInv'
<1> SUFFICES ASSUME OInv, [Next]_vars
             PROVE  OInv'
  OBVIOUS
<1>1. CASE UNCHANGED vars
  <2>1. Logged' = Logged /\ Claimed' = Claimed
    BY <1>1 DEF vars, db, pub, Logged, Claimed
  <2>2. TypeOK'
    BY <1>1 DEF OInv, TypeOK, vars, db, pub
  <2>4. PubInv' /\ NeverLost'
    BY <1>1, <2>1 DEF OInv, PubInv, NeverLost, vars, db, pub
  <2>3. ClockInv' /\ HeadInv' /\ SerialOrder'
    BY <1>1, <2>1, ClockKept, HeadKept, OrderKept DEF OInv, vars, db, pub
  <2> QED
    BY <2>2, <2>3, <2>4 DEF OInv
<1>2. ASSUME NEW e \in Events, Begin(e) \/ Commit(e) \/ LateDelivery(e)
      PROVE  OInv'
  BY <1>2, BeginStep, CommitStep, LateStep
<1>3. ASSUME NEW p \in Publishers, Claim(p) \/ (\E e \in Events : Send(p, e)) \/ Delivered(p) \/ Ack(p)
      PROVE  OInv'
  BY <1>3, ClaimStep, SendStep, DeliveredStep, AckStep
<1>4. ASSUME NEW p \in Publishers, ClaimLost(p) \/ Crash(p)
      PROVE  OInv'
  <2>1. \E released \in BOOLEAN : Abandon(p, released) /\ UNCHANGED <<late, log>>
    BY <1>4, Zenon DEF ClaimLost, Crash
  <2> QED
    BY <2>1, AbandonStep
<1>5. ASSUME NEW p \in Publishers, NEW released \in BOOLEAN,
             SendFails(p, released) \/ AckFails(p, released)
      PROVE  OInv'
  <2>1. AckFails(p, released) => Abandon(p, released) /\ UNCHANGED <<late, log>>
    BY DEF AckFails
  <2> QED
    BY <1>5, <2>1, AbandonStep, SendFailsStep
<1>6. CASE Tick
  BY <1>6, TickStep
<1> QED
  BY <1>1, <1>2, <1>3, <1>4, <1>5, <1>6 DEF Next

\* The invariant holds throughout.
THEOREM OutboxInvariance == Spec => []OInv
BY InitOInv, NextOInv, PTL DEF Spec

\* Every column and every publisher variable keeps its type.
THEOREM OutboxTypeCorrect == Spec => []TypeOK
<1>1. OInv => TypeOK
  BY DEF OInv
<1> QED
  BY <1>1, OutboxInvariance, PTL

\* No event is marked published before Kafka has it, for any number of events
\* and publishers: a crash or a lost answer can only repeat an event.
THEOREM NothingLost == Spec => []NeverLost
<1>1. OInv => NeverLost
  BY DEF OInv
<1> QED
  BY <1>1, OutboxInvariance, PTL

\* Events of a run whose transactions did not overlap reach Kafka in their
\* order, for any number of publishers, any batch size and any timeouts.
THEOREM OrderPreserved == Spec => []SerialOrder
<1>1. OInv => SerialOrder
  BY DEF OInv
<1> QED
  BY <1>1, OutboxInvariance, PTL

-----------------------------------------------------------------------------
(* One sender, with batches of one event.                                  *)

\* A publisher has one event at most.  While it has not started on it its claim
\* is fresh; while it sends, its claim outlasts its publish call.
SInv ==
    \A p \in Publishers :
        /\ \A d, e \in batch[p] : d = e
        /\ waiting[p] = "none" =>
              \A e \in batch[p] : claimToken[e] = p /\ claimLeft[e] = ClaimTTL
        /\ waiting[p] = "kafka" =>
              /\ claimToken[sending[p]] = p
              /\ claimLeft[sending[p]] >= (ClaimTTL - PublishTimeout) + timeLeft[p]

\* A batch of one event is one event: two heads are never equally old.
LEMMA OneCandidate ==
    ASSUME TypeOK, BatchSize = 1, NEW c \in Candidates, NEW d \in Candidates
    PROVE  c = d
<1>1. c \in Claimable /\ d \in Claimable /\ Claimable \subseteq Events
  BY DEF Candidates, Claimable, Committed
<1>2. ASSUME NEW e \in Candidates, NEW f \in Claimable
      PROVE  ~Before(f, e)
  <2> DEFINE older == {g \in Claimable : Before(g, e)}
  <2>1. Cardinality(older) < 1
    BY <1>2 DEF Candidates
  <2>2. older \in SUBSET Events
    BY <1>1
  <2>3. IsFiniteSet(older)
    BY <2>2, FS_Subset, EventsAssumption
  <2>4. Cardinality(older) \in Nat
    BY <2>3, FS_CardinalityType
  <2>5. Cardinality(older) = 0
    <3> HIDE DEF older
    <3> QED
      BY <2>1, <2>4
  <2>6. older = {}
    BY <2>3, <2>5, FS_EmptySet
  <2> QED
    BY <1>2, <2>6
<1>3. ~Before(c, d) /\ ~Before(d, c)
  BY <1>1, <1>2
<1>4. /\ createdAt[c] \in Nat /\ createdAt[d] \in Nat /\ Id[c] \in Nat /\ Id[d] \in Nat
      /\ Id[c] = Id[d] => c = d
  BY <1>1, IdAssumption DEF TypeOK
<1> QED
  BY <1>3, <1>4 DEF Before

\* A claim takes an event no publisher has a live claim on.
LEMMA ClaimSInv ==
    ASSUME OInv, SInv, BatchSize = 1, NEW p \in Publishers, Claim(p)
    PROVE  SInv'
<1>1. /\ TypeOK /\ PubInv /\ batch[p] = {} /\ batch' = [batch EXCEPT ![p] = Candidates]
      /\ claimToken' = [e \in Events |-> IF e \in Candidates THEN p ELSE claimToken[e]]
      /\ claimLeft' = [e \in Events |-> IF e \in Candidates THEN ClaimTTL ELSE claimLeft[e]]
      /\ UNCHANGED <<sending, waiting, timeLeft>>
  BY DEF OInv, Claim, ClaimPeriod
<1>2. /\ Candidates \subseteq Events
      /\ \A e \in Candidates : claimToken[e] = Nobody \/ claimLeft[e] = 0
  BY DEF Candidates, Claimable, Committed
<1> SUFFICES ASSUME NEW q \in Publishers
             PROVE  /\ \A d, e \in batch'[q] : d = e
                    /\ waiting'[q] = "none" =>
                          \A e \in batch'[q] : claimToken'[e] = q /\ claimLeft'[e] = ClaimTTL
                    /\ waiting'[q] = "kafka" =>
                          /\ claimToken'[sending'[q]] = q
                          /\ claimLeft'[sending'[q]] >= (ClaimTTL - PublishTimeout) + timeLeft'[q]
  BY DEF SInv
<1>3. CASE q = p
  <2>1. batch'[q] = Candidates
    BY <1>1, <1>3 DEF TypeOK
  <2>2. waiting[q] # "kafka"
    BY <1>1, <1>3 DEF PubInv
  <2>3. \A d, e \in Candidates : d = e
    BY <1>1, OneCandidate
  <2> QED
    BY <1>1, <1>2, <1>3, <2>1, <2>2, <2>3
<1>4. CASE q # p
  <2>1. batch'[q] = batch[q] /\ batch[q] \subseteq Events
    BY <1>1, <1>4 DEF TypeOK
  <2>2. ASSUME NEW e \in Events, claimToken[e] = q, claimLeft[e] > 0
        PROVE  claimToken'[e] = q /\ claimLeft'[e] = claimLeft[e]
    <3>1. e \notin Candidates
      BY <1>2, <2>2, TokenAssumption
    <3> QED
      BY <1>1, <2>2, <3>1
  <2>3. CASE waiting[q] = "none"
    BY <1>1, <2>1, <2>2, <2>3, TimeoutAssumption DEF SInv
  <2>4. CASE waiting[q] = "kafka"
    <3>1. sending[q] \in Events
      BY <2>4, OnEvent
    <3>2. /\ claimToken[sending[q]] = q
          /\ claimLeft[sending[q]] >= (ClaimTTL - PublishTimeout) + timeLeft[q]
      BY <2>4 DEF SInv
    <3>3. timeLeft[q] \in Nat /\ claimLeft[sending[q]] \in Nat
      BY <1>1, <3>1, TimeoutAssumption DEF TypeOK
    <3>4. claimLeft[sending[q]] > 0
      BY <3>2, <3>3, TimeoutAssumption
    <3>5. claimToken'[sending[q]] = q /\ claimLeft'[sending[q]] = claimLeft[sending[q]]
      BY <2>2, <3>1, <3>2, <3>4
    <3> QED
      BY <1>1, <2>1, <2>4, <3>2, <3>5 DEF SInv
  <2>5. CASE waiting[q] \notin {"none", "kafka"}
    BY <1>1, <2>1, <2>5 DEF SInv
  <2> QED
    BY <2>3, <2>4, <2>5
<1> QED
  BY <1>3, <1>4

\* A publish call begins with a fresh claim.
LEMMA SendSInv ==
    ASSUME OInv, SInv, NEW p \in Publishers, NEW e \in Events, Send(p, e)
    PROVE  SInv'
<1>1. /\ TypeOK /\ PubInv /\ e \in batch[p] /\ sending[p] = NoEvent
      /\ sending' = [sending EXCEPT ![p] = e]
      /\ waiting' = [waiting EXCEPT ![p] = "kafka"]
      /\ timeLeft' = [timeLeft EXCEPT ![p] = PublishTimeout]
      /\ UNCHANGED <<claimToken, claimLeft, batch>>
  BY DEF OInv, Send, db
<1>2. claimToken[e] = p /\ claimLeft[e] = ClaimTTL
  BY <1>1 DEF PubInv, SInv
<1>3. sending'[p] = e /\ waiting'[p] = "kafka" /\ timeLeft'[p] = PublishTimeout
  BY <1>1 DEF TypeOK
<1>4. \A q \in Publishers \ {p} :
         sending'[q] = sending[q] /\ waiting'[q] = waiting[q] /\ timeLeft'[q] = timeLeft[q]
  BY <1>1 DEF TypeOK
<1>5. ClaimTTL >= (ClaimTTL - PublishTimeout) + PublishTimeout
  BY TimeoutAssumption
<1> QED
  BY <1>1, <1>2, <1>3, <1>4, <1>5 DEF SInv

\* A publisher that gives up frees its own claims only.
LEMMA AbandonSInv ==
    ASSUME OInv, SInv, NEW p \in Publishers, NEW released \in BOOLEAN, Abandon(p, released)
    PROVE  SInv'
<1>1. TypeOK
  BY DEF OInv
<1>2. /\ \A q \in Publishers \ {p} : timeLeft'[q] = timeLeft[q]
      /\ \A e \in Events : claimToken[e] \in Publishers \ {p} =>
            claimToken'[e] = claimToken[e] /\ claimLeft'[e] = claimLeft[e]
  BY <1>1, TokenAssumption DEF Abandon, ClaimsAfter, TypeOK
<1> SUFFICES ASSUME NEW q \in Publishers
             PROVE  /\ \A d, e \in batch'[q] : d = e
                    /\ waiting'[q] = "none" =>
                          \A e \in batch'[q] : claimToken'[e] = q /\ claimLeft'[e] = ClaimTTL
                    /\ waiting'[q] = "kafka" =>
                          /\ claimToken'[sending'[q]] = q
                          /\ claimLeft'[sending'[q]] >= (ClaimTTL - PublishTimeout) + timeLeft'[q]
  BY DEF SInv
<1>3. CASE q = p
  BY <1>3, AbandonFrame
<1>4. CASE q # p
  <2>1. batch'[q] = batch[q] /\ sending'[q] = sending[q] /\ waiting'[q] = waiting[q]
    BY <1>4, AbandonFrame
  <2>2. batch[q] \subseteq Events /\ (waiting[q] = "kafka" => sending[q] \in Events)
    BY <1>1, OnEvent DEF TypeOK
  <2> QED
    BY <1>2, <1>4, <2>1, <2>2 DEF SInv
<1> QED
  BY <1>3, <1>4

\* An acknowledgement clears the claim of its own publisher.
LEMMA AckSInv ==
    ASSUME OInv, SInv, NEW p \in Publishers, Ack(p)
    PROVE  SInv'
<1>1. /\ TypeOK /\ waiting[p] = "ack" /\ claimToken[sending[p]] = p
      /\ claimToken' = [claimToken EXCEPT ![sending[p]] = Nobody]
      /\ claimLeft' = [claimLeft EXCEPT ![sending[p]] = 0]
      /\ batch' = [batch EXCEPT ![p] = @ \ {sending[p]}]
      /\ sending' = [sending EXCEPT ![p] = NoEvent]
      /\ waiting' = [waiting EXCEPT ![p] = "none"]
      /\ UNCHANGED timeLeft
  BY DEF OInv, Ack, MayAck
<1>2. sending[p] \in Events /\ sending[p] \in batch[p]
  BY <1>1, OnEvent
<1>3. batch'[p] = {} /\ waiting'[p] = "none"
  BY <1>1, <1>2 DEF TypeOK, SInv
<1>4. \A q \in Publishers \ {p} :
         batch'[q] = batch[q] /\ sending'[q] = sending[q] /\ waiting'[q] = waiting[q]
  BY <1>1 DEF TypeOK
<1>5. \A e \in Events : claimToken[e] # p =>
         claimToken'[e] = claimToken[e] /\ claimLeft'[e] = claimLeft[e]
  BY <1>1 DEF TypeOK
<1> SUFFICES ASSUME NEW q \in Publishers, q # p
             PROVE  /\ \A d, e \in batch[q] : d = e
                    /\ waiting[q] = "none" =>
                          \A e \in batch[q] : claimToken'[e] = q /\ claimLeft'[e] = ClaimTTL
                    /\ waiting[q] = "kafka" =>
                          /\ claimToken'[sending[q]] = q
                          /\ claimLeft'[sending[q]] >= (ClaimTTL - PublishTimeout) + timeLeft[q]
  BY <1>1, <1>3, <1>4 DEF SInv
<1>6. batch[q] \subseteq Events /\ (waiting[q] = "kafka" => sending[q] \in Events)
  BY <1>1, OnEvent DEF TypeOK
<1> QED
  BY <1>5, <1>6 DEF SInv

\* Claim and publish call age together.
LEMMA TickSInv ==
    ASSUME OInv, SInv, Tick
    PROVE  SInv'
<1>1. \A p \in Publishers : waiting[p] = "kafka" => timeLeft[p] > 0
  BY DEF Tick
<1>2. \A p \in Publishers : waiting[p] = "none" => batch[p] = {}
  BY DEF Tick
<1>3. /\ TypeOK
      /\ claimLeft' = [e \in Events |-> IF claimLeft[e] > 0 THEN claimLeft[e] - 1 ELSE 0]
      /\ timeLeft' = [p \in Publishers |-> IF timeLeft[p] > 0 THEN timeLeft[p] - 1 ELSE 0]
      /\ UNCHANGED <<claimToken, batch, sending, waiting>>
  BY DEF OInv, Tick
<1>4. ASSUME NEW p \in Publishers, waiting[p] = "kafka"
      PROVE  claimLeft'[sending[p]] >= (ClaimTTL - PublishTimeout) + timeLeft'[p]
  <2>1. sending[p] \in Events
    BY <1>4, OnEvent
  <2>2. /\ claimLeft[sending[p]] >= (ClaimTTL - PublishTimeout) + timeLeft[p]
        /\ timeLeft[p] > 0
    <3>1. claimLeft[sending[p]] >= (ClaimTTL - PublishTimeout) + timeLeft[p]
      BY <1>4 DEF SInv
    <3> QED
      BY <1>4, <1>1, <3>1
  <2>3. timeLeft[p] \in Nat /\ claimLeft[sending[p]] \in Nat
    BY <1>3, <2>1, TimeoutAssumption DEF TypeOK
  <2>4. timeLeft'[p] = timeLeft[p] - 1 /\ claimLeft'[sending[p]] = claimLeft[sending[p]] - 1
    BY <1>3, <2>1, <2>2, <2>3, TimeoutAssumption
  <2> QED
    BY <2>2, <2>3, <2>4, TimeoutAssumption
<1>5. ASSUME NEW p \in Publishers
      PROVE  /\ \A d, e \in batch[p] : d = e
             /\ waiting[p] = "none" => batch[p] = {}
             /\ waiting[p] = "kafka" => claimToken[sending[p]] = p
  BY <1>5, <1>2 DEF SInv
<1>6. UNCHANGED <<claimToken, batch, sending, waiting>>
  BY <1>3
<1> SUFFICES ASSUME NEW p \in Publishers
             PROVE  /\ \A d, e \in batch'[p] : d = e
                    /\ waiting'[p] = "none" =>
                          \A e \in batch'[p] : claimToken'[e] = p /\ claimLeft'[e] = ClaimTTL
                    /\ waiting'[p] = "kafka" =>
                          /\ claimToken'[sending'[p]] = p
                          /\ claimLeft'[sending'[p]] >= (ClaimTTL - PublishTimeout) + timeLeft'[p]
  BY DEF SInv
<1>7. /\ \A d, e \in batch[p] : d = e
      /\ waiting[p] = "none" => batch[p] = {}
      /\ waiting[p] = "kafka" => claimToken[sending[p]] = p
  BY <1>5
<1>8. waiting[p] = "kafka" => claimLeft'[sending[p]] >= (ClaimTTL - PublishTimeout) + timeLeft'[p]
  BY <1>4
<1> QED
  BY <1>6, <1>7, <1>8, Zenon

\* Every step keeps the invariant of the claims.
LEMMA NextSInv == BatchSize = 1 /\ OInv /\ SInv /\ [Next]_vars => SInv'
<1> SUFFICES ASSUME BatchSize = 1, OInv, SInv, [Next]_vars
             PROVE  SInv'
  OBVIOUS
<1>1. CASE UNCHANGED <<claimToken, claimLeft, batch, sending, waiting, timeLeft>>
  BY <1>1 DEF SInv
<1>2. ASSUME NEW p \in Publishers, Delivered(p)
      PROVE  SInv'
  <2>1. /\ TypeOK /\ waiting' = [waiting EXCEPT ![p] = "ack"]
        /\ timeLeft' = [timeLeft EXCEPT ![p] = 0]
        /\ UNCHANGED <<claimToken, claimLeft, batch, sending>>
    BY <1>2 DEF OInv, Delivered, db
  <2>2. waiting'[p] = "ack"
    BY <2>1 DEF TypeOK
  <2>3. \A q \in Publishers \ {p} : waiting'[q] = waiting[q] /\ timeLeft'[q] = timeLeft[q]
    BY <2>1 DEF TypeOK
  <2> QED
    BY <2>1, <2>2, <2>3 DEF SInv
<1>3. ASSUME NEW p \in Publishers, Claim(p) \/ (\E e \in Events : Send(p, e)) \/ Ack(p)
      PROVE  SInv'
  BY <1>3, ClaimSInv, SendSInv, AckSInv
<1>4. ASSUME NEW p \in Publishers, NEW released \in BOOLEAN, Abandon(p, released)
      PROVE  SInv'
  BY <1>4, AbandonSInv
<1>5. CASE Tick
  BY <1>5, TickSInv
<1>6. UNCHANGED vars => UNCHANGED <<claimToken, claimLeft, batch, sending, waiting, timeLeft>>
  BY DEF vars, db, pub
<1>7. \A e \in Events : Begin(e) \/ Commit(e) \/ LateDelivery(e) =>
         UNCHANGED <<claimToken, claimLeft, batch, sending, waiting, timeLeft>>
  BY DEF Begin, Commit, LateDelivery, db, pub
<1>8. \A p \in Publishers :
         ClaimLost(p) \/ Crash(p) \/ (\E r \in BOOLEAN : SendFails(p, r) \/ AckFails(p, r)) =>
            \E released \in BOOLEAN : Abandon(p, released)
  BY Zenon DEF ClaimLost, Crash, SendFails, AckFails
<1> QED
  BY <1>1, <1>2, <1>3, <1>4, <1>5, <1>6, <1>7, <1>8 DEF Next

\* With batches of one event and the publish timeout below the claim TTL, no
\* two publishers send the same event at once, for any number of publishers
\* and any timeouts.
THEOREM OneSenderAtATime == BatchSize = 1 => (Spec => []OneSender)
<1> SUFFICES ASSUME BatchSize = 1
             PROVE  Spec => []OneSender
  OBVIOUS
<1>1. Init => SInv
  BY DEF Init, SInv
<1>2. OInv /\ SInv /\ [Next]_vars => SInv'
  BY NextSInv
<1>3. SInv => OneSender
  BY DEF SInv, OneSender
<1> QED
  BY <1>1, <1>2, <1>3, OutboxInvariance, PTL DEF Spec

=============================================================================
