----------------------------- MODULE RunRegistry -----------------------------
(***************************************************************************)
(* What submission promises: an idempotency key names at most one run of a *)
(* tenant, for ever, and every answer to a submission with that key names  *)
(* that run.  Submission is shown to implement this specification.         *)
(***************************************************************************)
CONSTANTS Key,         \* idempotency keys of one tenant
          Run          \* identifiers of runs

VARIABLES registered,  \* pairs <<key, run>> that are committed
          answered     \* pairs <<key, run>> a caller was told

registry == <<registered, answered>>

RegistryInit == registered = {} /\ answered = {}

\* A run is registered under a key that has none; its caller may be told, or
\* may have lost the connection.
Register(k, run) ==
    /\ \A pair \in registered : pair[1] # k /\ pair[2] # run
    /\ registered' = registered \cup {<<k, run>>}
    /\ answered' \in {answered, answered \cup {<<k, run>>}}

\* A caller who submits the key again is told the run it has.
Repeat(k, run) ==
    /\ <<k, run>> \in registered
    /\ answered' = answered \cup {<<k, run>>}
    /\ UNCHANGED registered

RegistryNext == \E k \in Key, run \in Run : Register(k, run) \/ Repeat(k, run)

RegistrySpec == RegistryInit /\ [][RegistryNext]_registry

=============================================================================
