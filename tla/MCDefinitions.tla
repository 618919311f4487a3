---------------------------- MODULE MCDefinitions ----------------------------
(* One caller submits every DAG of up to three tasks with at most two         *)
(* dependencies each, and single tasks at the limits of every field; three    *)
(* callers race over the versions of one workflow.                            *)
EXTENDS Definitions

CONSTANTS c1, c2, c3

Task(handler, deps, attempts, timeout) ==
    [handler |-> handler, dependsOn |-> deps, maximumAttempts |-> attempts, timeoutSeconds |-> timeout]

DependsOn == UNION {[1..n -> {"a", "b", "c"}] : n \in 0..2}

DagsOf3 == UNION {[keys -> {Task("a", deps, 0, 0) : deps \in DependsOn}] : keys \in SUBSET {"a", "b", "c"}}

Singles == {[key \in {k} |-> Task(h, <<>>, n, t)] :
              k \in {"a", "9"}, h \in {"a", "9"},
              n \in {-1, 0, 1, MaxAttempts, MaxAttempts + 1}, t \in {-1, 0, 1, MaxTimeout, MaxTimeout + 1}}

TooMany == {[key \in {"a", "b", "c", "d"} |-> Task("a", <<>>, 1, 1)]}

Small == {[key \in {k} |-> Task("a", <<>>, 1, 1)] : k \in {"a", "b"}}

MCDags == [all |-> DagsOf3 \cup Singles \cup TooMany, small |-> Small]

MCDeployments ==
    {[callers |-> {c1}, menu |-> "all", requests |-> 1],
     [callers |-> {c1, c2, c3}, menu |-> "small", requests |-> 4]}

=============================================================================
