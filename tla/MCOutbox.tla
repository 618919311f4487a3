------------------------------ MODULE MCOutbox ------------------------------
(* Two runs, one with two events and one with one, and two publishers.     *)
EXTENDS Outbox, TLC

CONSTANTS e1, e2, f1, p1, p2

TwoRuns == {e1, e2, f1}
TwoRunsKey == (e1 :> "r1") @@ (e2 :> "r1") @@ (f1 :> "r2")
TwoRunsId == (e1 :> 1) @@ (e2 :> 2) @@ (f1 :> 3)
OneRun == {e1, e2}
OneRunKey == [e \in OneRun |-> "r1"]
OneRunId == (e1 :> 2) @@ (e2 :> 1)
PublisherSymmetry == Permutations({p1, p2})
=============================================================================
