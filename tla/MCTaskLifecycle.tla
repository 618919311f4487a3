-------------------------- MODULE MCTaskLifecycle --------------------------
(* Small instances of TaskLifecycle for TLC. *)
EXTENDS TaskLifecycle, TLC

CONSTANTS a, b, c, w1, w2

\* A join: c waits for both a and b.
JoinTasks == {a, b, c}
JoinDependsOn == a :> {} @@ b :> {} @@ c :> {a, b}
JoinAttempts == a :> 2 @@ b :> 1 @@ c :> 1

WorkerSymmetry == Permutations({w1, w2})
=============================================================================
