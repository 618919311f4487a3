----------------------------- MODULE MCArtifacts -----------------------------
(* Two users; two SDK workers; an SDK worker and an HTTP worker.              *)
EXTENDS Artifacts

CONSTANTS u1, u2, w1, w2, h1

MCSize == [right |-> 1, other |-> 1, long |-> 2, huge |-> 3]
MCLimit == [kind \in Kinds |-> IF kind = "log" THEN 1 ELSE 2]
MCDeployments == {{u1, u2}, {w1, w2}, {w1, h1}}

=============================================================================
