------------------------------ MODULE Outbox -------------------------------
(***************************************************************************)
(* The transactional outbox: transactions insert events, publishers (one   *)
(* per scheduler replica) claim the head event of each run, send it to     *)
(* Kafka and acknowledge it.                                               *)
(*                                                                         *)
(* created_at is now(), the time at which the inserting transaction began, *)
(* and id is a random UUID.  A claim is one statement and an               *)
(* acknowledgement is another; no lock is held while a message is sent.    *)
(*                                                                         *)
(* Time passes in ticks.  A publisher spends time only while it waits for  *)
(* Kafka, at most PublishTimeout per event, or for an acknowledgement.     *)
(***************************************************************************)
EXTENDS Integers, Sequences, FiniteSets

CONSTANTS
    Events,          \* outbox rows
    Run,             \* event -> its ordering_key
    Id,              \* event -> its id, as UUIDs are ordered
    Publishers,
    Nobody,          \* claim_token NULL
    Orphan,          \* a claim_token no publisher uses any more
    NoEvent,
    BatchSize,
    ClaimTTL,
    PublishTimeout

ASSUME IdAssumption ==
    Id \in [Events -> Nat] /\ \A d, e \in Events : Id[d] = Id[e] => d = e
ASSUME TokenAssumption ==
    Nobody \notin Publishers /\ Orphan \notin Publishers \cup {Nobody}
ASSUME EventsAssumption == IsFiniteSet(Events)
ASSUME NoEventAssumption == NoEvent \notin Events
ASSUME TimeoutAssumption ==
    /\ BatchSize \in Nat \ {0} /\ PublishTimeout \in Nat \ {0} /\ ClaimTTL \in Nat
    /\ PublishTimeout < ClaimTTL

VARIABLES
    createdAt,       \* event -> when its transaction began, 0 before that
    committedAt,     \* event -> when its transaction committed, 0 before that
    published,       \* events whose published_at is set
    claimToken,      \* event -> claim_token
    claimLeft,       \* event -> ticks until claim_expires_at
    batch,           \* publisher -> claimed events it has not finished with
    sending,         \* publisher -> the event it is on, or NoEvent
    waiting,         \* publisher -> "kafka", "ack" or "none"
    timeLeft,        \* publisher -> ticks until its publish call times out
    late,            \* events whose first copy an abandoned call may deliver
    log              \* ordering key -> its messages in Kafka, first copies only

db == <<createdAt, committedAt, published, claimToken, claimLeft>>
pub == <<batch, sending, waiting, timeLeft>>
vars == <<db, pub, late, log>>

Committed == {e \in Events : committedAt[e] > 0}
Runs == {Run[e] : e \in Events}
Logged == {e \in Events : \E i \in 1 .. Len(log[Run[e]]) : log[Run[e]][i] = e}

\* (created_at, id) order of two rows.
Before(d, e) ==
    \/ createdAt[d] < createdAt[e]
    \/ createdAt[d] = createdAt[e] /\ Id[d] < Id[e]

Init ==
    /\ createdAt = [e \in Events |-> 0]
    /\ committedAt = [e \in Events |-> 0]
    /\ published = {}
    /\ claimToken = [e \in Events |-> Nobody]
    /\ claimLeft = [e \in Events |-> 0]
    /\ batch = [p \in Publishers |-> {}]
    /\ sending = [p \in Publishers |-> NoEvent]
    /\ waiting = [p \in Publishers |-> "none"]
    /\ timeLeft = [p \in Publishers |-> 0]
    /\ late = {}
    /\ log = [r \in Runs |-> << >>]

-----------------------------------------------------------------------------
(* Transactions that insert an event                                       *)

\* The database's clock: it advances with every begin and every commit.
Now == Cardinality({e \in Events : createdAt[e] > 0}) + Cardinality(Committed) + 1

\* now() is fixed for the transaction when it begins.
Begin(e) ==
    /\ createdAt[e] = 0
    /\ createdAt' = [createdAt EXCEPT ![e] = Now]
    /\ UNCHANGED <<committedAt, published, claimToken, claimLeft, pub, late, log>>

Commit(e) ==
    /\ createdAt[e] > 0
    /\ e \notin Committed
    /\ committedAt' = [committedAt EXCEPT ![e] = Now]
    /\ UNCHANGED <<createdAt, published, claimToken, claimLeft, pub, late, log>>

-----------------------------------------------------------------------------
(* The publisher                                                           *)

\* Mutant: the NOT EXISTS (earlier ...) clause is missing.
AnyUnclaimed ==
    {e \in Committed \ published : claimToken[e] = Nobody \/ claimLeft[e] = 0}

\* Mutant: a claimed event is claimable before its claim has expired.
HeadsIgnoringClaims ==
    {e \in Committed \ published :
        ~\E d \in Committed \ published : Run[d] = Run[e] /\ Before(d, e)}

\* Mutant: the claims of a dead publisher never expire.
UnclaimedHeads ==
    {e \in Committed \ published :
        /\ claimToken[e] = Nobody
        /\ ~\E d \in Committed \ published : Run[d] = Run[e] /\ Before(d, e)}

\* The unpublished heads of their runs that no live claim covers.
Claimable ==
    {e \in Committed \ published :
        /\ claimToken[e] = Nobody \/ claimLeft[e] = 0
        /\ ~\E d \in Committed \ published : Run[d] = Run[e] /\ Before(d, e)}

\* The oldest claimable events, BatchSize of them at most.
Candidates ==
    {e \in Claimable :
        Cardinality({d \in Claimable : Before(d, e)}) < BatchSize}

\* How long a claim covers every event of its batch.
ClaimPeriod == ClaimTTL

Claim(p) ==
    /\ batch[p] = {}
    /\ Candidates # {}
    /\ batch' = [batch EXCEPT ![p] = Candidates]
    /\ claimToken' = [e \in Events |->
                         IF e \in Candidates THEN p ELSE claimToken[e]]
    /\ claimLeft' = [e \in Events |->
                        IF e \in Candidates THEN ClaimPeriod ELSE claimLeft[e]]
    /\ UNCHANGED <<createdAt, committedAt, published, sending, waiting, timeLeft,
                   late, log>>

\* The next event of the batch is sent, without another look at its claim.
Send(p, e) ==
    /\ e \in batch[p]
    /\ sending[p] = NoEvent
    /\ sending' = [sending EXCEPT ![p] = e]
    /\ waiting' = [waiting EXCEPT ![p] = "kafka"]
    /\ timeLeft' = [timeLeft EXCEPT ![p] = PublishTimeout]
    /\ UNCHANGED <<db, batch, late, log>>

\* Mutant: an asynchronous writer reports success before it has written.
DeliverAsync(e) ==
    /\ late' = late \cup ({e} \ Logged)
    /\ UNCHANGED log

\* Kafka appends e; further copies of it are not recorded.
Deliver(e) ==
    /\ log' = IF e \in Logged THEN log ELSE [log EXCEPT ![Run[e]] = Append(@, e)]
    /\ late' = late \ {e}

\* The publish call returns success: all replicas have the message.
Delivered(p) ==
    /\ waiting[p] = "kafka"
    /\ Deliver(sending[p])
    /\ waiting' = [waiting EXCEPT ![p] = "ack"]
    /\ timeLeft' = [timeLeft EXCEPT ![p] = 0]
    /\ UNCHANGED <<db, batch, sending>>

\* The claims of p when its batch is abandoned: released, or left to expire
\* because the release failed or p crashed.
ClaimsAfter(p, released) ==
    [e \in Events |->
        IF claimToken[e] = p THEN IF released THEN Nobody ELSE Orphan
        ELSE claimToken[e]]

\* The batch is abandoned.
Abandon(p, released) ==
    /\ claimToken' = ClaimsAfter(p, released)
    /\ claimLeft' = [e \in Events |->
                        IF claimToken'[e] = Nobody THEN 0 ELSE claimLeft[e]]
    /\ batch' = [batch EXCEPT ![p] = {}]
    /\ sending' = [sending EXCEPT ![p] = NoEvent]
    /\ waiting' = [waiting EXCEPT ![p] = "none"]
    /\ timeLeft' = [timeLeft EXCEPT ![p] = 0]
    /\ UNCHANGED <<createdAt, committedAt, published>>

\* The publish call returns an error or times out, or the publisher dies while
\* it waits.  The message may be lost, may have been appended although the
\* answer was lost, or may be appended later.
SendFails(p, released) ==
    /\ waiting[p] = "kafka"
    /\ Abandon(p, released)
    /\ \/ UNCHANGED <<late, log>>
       \/ Deliver(sending[p])
       \/ late' = late \cup ({sending[p]} \ Logged) /\ UNCHANGED log

LateDelivery(e) ==
    /\ e \in late
    /\ Deliver(e)
    /\ UNCHANGED <<db, pub>>

\* The row still carries the token of p's claim.
MayAck(p) == sending[p] \notin published /\ claimToken[sending[p]] = p

Ack(p) ==
    /\ waiting[p] = "ack"
    /\ MayAck(p)
    /\ published' = published \cup {sending[p]}
    /\ claimToken' = [claimToken EXCEPT ![sending[p]] = Nobody]
    /\ claimLeft' = [claimLeft EXCEPT ![sending[p]] = 0]
    /\ batch' = [batch EXCEPT ![p] = @ \ {sending[p]}]
    /\ sending' = [sending EXCEPT ![p] = NoEvent]
    /\ waiting' = [waiting EXCEPT ![p] = "none"]
    /\ UNCHANGED <<createdAt, committedAt, timeLeft, late, log>>

\* The claim was lost to another publisher.
ClaimLost(p) ==
    /\ waiting[p] = "ack"
    /\ ~MayAck(p)
    /\ Abandon(p, TRUE)
    /\ UNCHANGED <<late, log>>

\* The acknowledgement fails, or the publisher dies before it.
AckFails(p, released) ==
    /\ waiting[p] = "ack"
    /\ Abandon(p, released)
    /\ UNCHANGED <<late, log>>

\* The publisher dies before it has sent the next event of its batch.
Crash(p) ==
    /\ batch[p] # {}
    /\ waiting[p] = "none"
    /\ Abandon(p, FALSE)
    /\ UNCHANGED <<late, log>>

-----------------------------------------------------------------------------
(* Time                                                                    *)

\* A publish call that has used up its timeout returns before time goes on,
\* and a publisher with events to send is sending one.
Tick ==
    /\ \A p \in Publishers :
          /\ waiting[p] = "kafka" => timeLeft[p] > 0
          /\ batch[p] # {} => waiting[p] # "none"
    /\ \E e \in Events : claimToken[e] # Nobody /\ claimLeft[e] > 0
    /\ claimLeft' = [e \in Events |->
                        IF claimLeft[e] > 0 THEN claimLeft[e] - 1 ELSE 0]
    /\ timeLeft' = [p \in Publishers |->
                       IF timeLeft[p] > 0 THEN timeLeft[p] - 1 ELSE 0]
    /\ UNCHANGED <<createdAt, committedAt, published, claimToken, batch, sending,
                   waiting, late, log>>

Next ==
    \/ \E e \in Events : Begin(e) \/ Commit(e) \/ LateDelivery(e)
    \/ \E p \in Publishers :
          \/ Claim(p)
          \/ \E e \in Events : Send(p, e)
          \/ Delivered(p)
          \/ Ack(p)
          \/ ClaimLost(p)
          \/ Crash(p)
          \/ \E released \in BOOLEAN : SendFails(p, released) \/ AckFails(p, released)
    \/ Tick

Spec == Init /\ [][Next]_vars

(***************************************************************************)
(* Fairness.  runOutbox polls for ever, time passes, and a publisher that  *)
(* keeps trying is neither killed at the same place every time nor refused *)
(* by Kafka or PostgreSQL every time.                                      *)
(***************************************************************************)
Fairness ==
    /\ WF_vars(\E p \in Publishers : Claim(p))
    /\ WF_vars(Tick)
    /\ \A p \in Publishers :
          /\ SF_vars(\E e \in Events : Send(p, e))
          /\ SF_vars(Delivered(p))
          /\ SF_vars(Ack(p))
          /\ WF_vars(ClaimLost(p))

FairSpec == Spec /\ Fairness

-----------------------------------------------------------------------------
\* Every column and every publisher variable holds a value of its type.
TypeOK ==
    /\ createdAt \in [Events -> Nat]
    /\ committedAt \in [Events -> Nat]
    /\ published \subseteq Events
    /\ claimToken \in [Events -> Publishers \cup {Nobody, Orphan}]
    /\ claimLeft \in [Events -> 0 .. ClaimTTL]
    /\ batch \in [Publishers -> SUBSET Events]
    /\ sending \in [Publishers -> Events \cup {NoEvent}]
    /\ waiting \in [Publishers -> {"none", "kafka", "ack"}]
    /\ timeLeft \in [Publishers -> 0 .. PublishTimeout]
    /\ late \subseteq Events
    /\ log \in [Runs -> Seq(Events)]

\* "A crash after publish but before database acknowledgement causes a
\* duplicate, never a lost event": what is marked published is in Kafka, and a
\* publisher that is about to acknowledge has really delivered the event.
NeverLost ==
    /\ published \subseteq Logged
    /\ \A p \in Publishers : waiting[p] = "ack" => sending[p] \in Logged

\* d is in Kafka ahead of e.
Ahead(d, e) ==
    LET partition == log[Run[e]]
    IN  \E i, j \in 1 .. Len(partition) :
           i < j /\ partition[i] = d /\ partition[j] = e

\* Within a run, an event whose transaction had committed before another's
\* began is first published ahead of it, whichever publishers send them and
\* whatever claims expire in between ("claim only that key's head event").
SerialOrder ==
    \A d, e \in Committed :
        Run[d] = Run[e] /\ committedAt[d] < createdAt[e] /\ e \in Logged => Ahead(d, e)

\* "The publish timeout must remain shorter than the claim TTL; otherwise two
\* publishers could concurrently send": with the shorter timeout no two
\* publishers send the same event at once.
OneSender ==
    \A p, q \in Publishers :
        p # q /\ waiting[p] = "kafka" /\ waiting[q] = "kafka" => sending[p] # sending[q]

\* Every committed event is published and acknowledged in the end, whatever
\* crashes, lost answers and expired claims come before ("Claims expire so
\* another publisher can recover abandoned work").
EventuallyPublished ==
    \A e \in Events : committedAt[e] > 0 ~> e \in published
=============================================================================
