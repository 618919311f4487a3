\* Requests of two callers: API keys that are rotated and revoked under way, token buckets under
\* several limits, every combination of the development flags, and a dashboard on the live stream.
SPECIFICATION Spec
CONSTANTS
    Tenants = {"t1", "t2"}
    Users = {"ann", "bob", "zoe", "pat"}
    UserRow <- MCUserRow
    Keys = {"k1"}
    Scopes = {"runs:read", "workers:execute"}
    DevTenant = "t1"
    DevRole = "admin"
    Default <- MCDefault
    TicksPerSecond = 2
    MaxTime = 5
    MaxSecret = 2
    MaxChanges = 2
    NoRow = NoRow
    Callers = {"c1", "c2"}
    Deployments <- MCDeployments
INVARIANTS
    DeadTokenRefused
    ReachedOwn
    RateBound
    RetryIsEnough
    
\* A process whose configuration is refused exits.
CHECK_DEADLOCK FALSE
