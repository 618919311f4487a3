------------------------------ MODULE MCAccess ------------------------------
(* Small instances of Access.                                              *)
EXTENDS Access

MCUserRow ==
    [ann |-> [tenant |-> "t1", role |-> "admin"], bob |-> [tenant |-> "t1", role |-> "viewer"],
     zoe |-> [tenant |-> "t2", role |-> "admin"], pat |-> NoRow]
MCDefault == [rate |-> 1, burst |-> 2, batch |-> 100, claim |-> 30, publish |-> 10, presign |-> 900]

Unset == [k \in {} |-> 0]
Production ==
    [dev |-> "", failOpen |-> "", numbers |-> Unset, malformed |-> {},
     secrets |-> {"internalToken", "issuer", "jwks", "pepper"}]
Numbers(rate, burst) == [rate |-> rate, burst |-> burst]

\* Environments that Load refuses, and the ones whose flags decide about the limiter.
Flags == {[Production EXCEPT !.dev = d, !.failOpen = f] : d, f \in {"", "bad", "true", "false"}}
Refusable ==
    {[Production EXCEPT !.secrets = @ \ {s}] : s \in Production.secrets}
    \cup {[Production EXCEPT !.secrets = @ \cup {"accessKey"}], [Production EXCEPT !.malformed = {"rate"}]}
    \cup {[Production EXCEPT !.numbers = [k \in {n} |-> 0]] :
             n \in {"rate", "burst", "batch", "claim", "publish", "presign"}}
    \cup {[Production EXCEPT !.numbers = [publish |-> 30]], [Production EXCEPT !.numbers = [presign |-> 3601]]}
Limits == {[Production EXCEPT !.numbers = Numbers(r, b)] : r \in {1, 3}, b \in {1, 2}}

Caller(routes, users, keys, other) == [routes |-> routes, users |-> users, keys |-> keys, other |-> other]

\* Keys made before.
Made == [tenant : {"t1"}, secret : {1}, scopes : {Scopes}, expires : {NoRow, 1},
         revoked : {FALSE}, used : {FALSE}]

MCDeployments ==
    [keys |-> [envs |-> {[Production EXCEPT !.numbers = Numbers(1, 2)]}, time |-> 1, restarts |-> 0, changes |-> FALSE, rows |-> Made,
               callers |-> [c1 |-> Caller({"rotateKey", "revokeKey"}, {"ann"}, FALSE, {}),
                            c2 |-> Caller({"rotateKey", "worker", "view"}, {"zoe"}, TRUE, {})]],
     limits |-> [envs |-> Limits \cup Refusable, time |-> 5, restarts |-> 1, changes |-> FALSE, rows |-> {NoRow},
                 callers |-> [c1 |-> Caller({"cancel"}, {"ann"}, FALSE, {}),
                              c2 |-> Caller({"createWorkflow"}, {"ann"}, FALSE, {})]],
     flags |-> [envs |-> Flags, time |-> 1, restarts |-> 1, changes |-> FALSE, rows |-> {NoRow},
                callers |-> [c1 |-> Caller({"createKey", "worker"}, {"ann"}, FALSE, {"internal"}),
                             c2 |-> Caller({"view"}, {"pat"}, FALSE, {"none"})]],
     live |-> [envs |-> {[Production EXCEPT !.numbers = Numbers(1, 6)]}, time |-> 0, restarts |-> 1, changes |-> TRUE, rows |-> {NoRow},
               callers |-> [c1 |-> Caller({"stream"}, {"bob"}, FALSE, {}),
                            c2 |-> Caller({"view"}, {"bob"}, FALSE, {})]]]
=============================================================================
