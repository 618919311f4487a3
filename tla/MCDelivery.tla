----------------------------- MODULE MCDelivery -----------------------------
(* One run of two independent tasks, or of one, and two consumer slots.    *)
EXTENDS Delivery, TLC

CONSTANTS a, b, w1, w2, s1, s2

TwoTasks == {a, b}
OneTask == {a}
Independent == [t \in Tasks |-> {}]
TwoAttempts == [t \in Tasks |-> 2]
OwnIds == (s1 :> w1) @@ (s2 :> w2)
OneId == [s \in Slots |-> w1]
=============================================================================
