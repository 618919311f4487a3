------------------------------- MODULE Access -------------------------------
(***************************************************************************)
(* What a request passes on its way to a handler: the configuration        *)
(* (internal/config), authentication (internal/auth) with API keys that    *)
(* are created, rotated, revoked and expire (internal/storage/api_keys.go),*)
(* the tenant's token bucket in Redis (internal/ratelimit), the role or    *)
(* scope of the route (internal/api/server.go), and the live stream        *)
(* (internal/api/stream.go, internal/live) with the dashboard it serves    *)
(* (web/src).                                                              *)
(*                                                                         *)
(* Each SQL statement, Redis script and subscription is a step of its own. *)
(* An API key's secret is a number: the n-th secret made for the key.      *)
(* Routes stand for the classes Handler() registers.                       *)
(***************************************************************************)
EXTENDS Integers, FiniteSets, FiniteSetsExt

CONSTANTS Tenants,
          Users, UserRow,     \* OIDC subjects, and their rows of users (NoRow for none)
          Keys, Scopes,       \* API keys, and the scopes a key may have
          DevTenant, DevRole, \* RUNMESH_DEV_TENANT_ID, RUNMESH_DEV_ROLE
          Default,            \* Load's defaults for the numbers
          TicksPerSecond,     \* resolution of the clock
          MaxTime, MaxSecret, MaxChanges, \* bounds
          NoRow,              \* no row, and no principal
          Callers, Deployments \* who is there together, and in which environments

APIKey ==
    [tenant : Tenants, secret : Nat, scopes : SUBSET Scopes, expires : Nat \cup {NoRow}, revoked : BOOLEAN, used : BOOLEAN]

ASSUME AccessAssumption ==
    /\ UserRow \in [Users -> [tenant : Tenants, role : {"viewer", "operator", "developer", "admin"}] \cup {NoRow}]
    /\ DevTenant \in Tenants /\ Keys \cap Tenants = {} /\ NoRow \notin APIKey
    /\ {TicksPerSecond, MaxTime, MaxSecret, MaxChanges} \subseteq Nat /\ TicksPerSecond > 0
    /\ {"rate", "burst"} \subseteq DOMAIN Default /\ \A k \in DOMAIN Default : Default[k] \in Int

VARIABLES up,      \* the deployment's name
          cfg,     \* the configuration, NoRow when the process has exited
          now,     \* the clock, in ticks
          row,     \* rows of api_keys
          req,     \* the request of each caller
          redis,   \* is Redis up
          bucket,  \* the tenants' token buckets
          dash,    \* durable changes, the streams their hints are on their way to, and the dashboard
          restarts, \* of Redis
          admits,  \* history: requests of each tenant let through since each tick
          reached  \* history: the last credential and what it was let at, until a request arrives

vars == <<up, cfg, now, row, req, redis, bucket, dash, restarts, admits, reached>>

-----------------------------------------------------------------------------
(* Configuration.  A variable is unset (""), malformed ("bad") or a value. *)

envBool(v, fallback) == IF v = "" THEN fallback ELSE v = "true"

\* envInt and envDuration; a malformed number makes Load fail.
envNumber(e, k) == IF k \in DOMAIN e.numbers THEN e.numbers[k] ELSE Default[k]

\* Load: the configuration, or NoRow and the process exits.
Load(e) ==
    LET dev == envBool(e.dev, FALSE)
        failOpen == envBool(e.failOpen, dev)
        N(k) == envNumber(e, k)
    IN  IF /\ e.malformed = {}
           /\ dev \/ {"internalToken", "issuer", "jwks", "pepper"} \subseteq e.secrets
           /\ N("rate") > 0 /\ N("burst") > 0
           /\ N("batch") > 0 /\ N("claim") > 0 /\ N("publish") > 0 /\ N("publish") < N("claim")
           /\ dev \/ ~failOpen
           /\ N("presign") > 0 /\ N("presign") <= 3600
           /\ (("accessKey" \in e.secrets) <=> ("secretKey" \in e.secrets))
        THEN [dev |-> dev, failOpen |-> failOpen, rate |-> N("rate"), burst |-> N("burst")]
        ELSE NoRow

NoRetry == -1
NoBucket == [tokens |-> 0, updated |-> -1, retry |-> NoRetry]
NoCred == [kind |-> "none", id |-> "", n |-> 0]
Idle == [pc |-> "idle", route |-> "", cred |-> NoCred, target |-> NoRow, who |-> NoRow, dead |-> FALSE]

Init ==
    /\ up \in DOMAIN Deployments
    /\ \E e \in Deployments[up].envs : cfg = Load(e)
    /\ now = 0
    /\ row \in [Keys -> Deployments[up].rows]
    /\ req = [c \in Callers |-> Idle]
    /\ redis = TRUE
    /\ bucket = [t \in Tenants |-> NoBucket]
    /\ dash = [version |-> 0, owed |-> 0, hint |-> {}, due |-> FALSE, seen |-> 0, lost |-> FALSE]
    /\ restarts = 0
    /\ admits = [t \in Tenants |-> [s \in 0..MaxTime |-> 0]]
    /\ reached = NoRow

-----------------------------------------------------------------------------
(* Routes: the role a person needs and the scope an API key needs.         *)

roleLevel == [viewer |-> 1, operator |-> 2, developer |-> 3, admin |-> 4]
HumanRoutes == {"createKey", "rotateKey", "revokeKey"}
Role == [view |-> "viewer", stream |-> "viewer", cancel |-> "operator", createWorkflow |-> "developer"]
Scope == [view |-> "runs:read", stream |-> "runs:read", cancel |-> "runs:execute", createWorkflow |-> "workflows:write"]
PublicRoutes == HumanRoutes \cup DOMAIN Role
WorkerRoutes == {"worker"}

\* What a deployment may consist of.
ASSUME DeploymentsAssumption ==
    \A d \in DOMAIN Deployments :
        /\ Deployments[d].rows \subseteq APIKey \cup {NoRow} /\ Deployments[d].time \in 0..MaxTime
        /\ \A e \in Deployments[d].envs : \A k \in DOMAIN e.numbers : e.numbers[k] \in Int
        /\ \A c \in DOMAIN Deployments[d].callers :
              LET who == Deployments[d].callers[c] IN
              /\ who.users \subseteq Users /\ who.other \subseteq {"internal", "none"}
              /\ who.routes \subseteq PublicRoutes \cup WorkerRoutes

RequireHumanRole(p, role) == p.kind # "api_key" /\ roleLevel[p.role] >= roleLevel[role]

Require(p, role, scope) ==
    IF p.kind = "api_key" THEN scope \in p.scopes ELSE roleLevel[p.role] >= roleLevel[role]

Permits(p, route) ==
    IF route \in HumanRoutes THEN RequireHumanRole(p, "admin") ELSE Require(p, Role[route], Scope[route])

-----------------------------------------------------------------------------
(* Requests.                                                               *)

At(c, pc) == cfg # NoRow /\ req[c].pc = pc
Goes(c, pc) == req' = [req EXCEPT ![c].pc = pc]

\* The answer is sent.
Answers(c) == req' = [req EXCEPT ![c] = Idle]

\* 401, 403, 404, 429 or 503; the dashboard shows an error until the next poll.
Rejects(c) == Answers(c) /\ dash' = [dash EXCEPT !.lost = @ \/ req[c].route = "view"]

Exists(k) == row[k] # NoRow
Expired(k) == row[k].expires # NoRow /\ row[k].expires <= now

\* A secret that was rotated away, revoked or has expired.
Dead(cred) ==
    cred.kind = "key" /\ \/ cred.n # row[cred.id].secret
                         \/ row[cred.id].revoked
                         \/ Expired(cred.id)

\* What callers hold: identity tokens, secrets ever made, the development worker token.
Held(c) ==
    LET who == Deployments[up].callers[c] IN
    {[kind |-> "user", id |-> u, n |-> 0] : u \in who.users}
    \cup {[kind |-> "key", id |-> made[1], n |-> made[2]] : made \in {k \in Keys : who.keys /\ Exists(k)} \X (1..MaxSecret)}
    \cup {[kind |-> kind, id |-> "", n |-> 0] : kind \in who.other}

Issued(cred) == cred.kind = "key" => cred.n <= row[cred.id].secret

\* What a route's path names.
Targets(route) ==
    CASE route = "worker" -> Tenants
      [] route \in {"rotateKey", "revokeKey"} -> {k \in Keys : Exists(k)}
      [] OTHER -> {NoRow}

\* The dashboard refreshes when its timer fires or by polling; others ask when they like.
Arrive(c) ==
    /\ At(c, "idle") /\ c \in DOMAIN Deployments[up].callers
    /\ \E route \in Deployments[up].callers[c].routes, cred \in {h \in Held(c) : Issued(h)} :
       \E target \in Targets(route) :
          /\ req' = [req EXCEPT ![c] = [pc |-> "authenticate", route |-> route, cred |-> cred,
                                        target |-> target, who |-> NoRow, dead |-> Dead(cred)]]
          /\ \E due \in (IF route = "view" THEN {FALSE} ELSE {}) \cup {dash.due} : dash' = [dash EXCEPT !.due = due]
    /\ reached' = NoRow
    /\ UNCHANGED <<up, cfg, now, row, redis, bucket, restarts, admits>>

DevPrincipal == [tenant |-> DevTenant, role |-> DevRole, kind |-> "development", scopes |-> {"workers:execute"}]

\* Mutant: a revoked key is told by its expiry.
APIKeyUnlessExpired(cred) ==
    IF cred.n = row[cred.id].secret /\ ~Expired(cred.id)
    THEN [tenant |-> row[cred.id].tenant, role |-> "viewer", kind |-> "api_key", scopes |-> row[cred.id].scopes]
    ELSE NoRow

authenticateAPIKey(cred) ==
    IF ~row[cred.id].revoked /\ cred.n = row[cred.id].secret /\ ~Expired(cred.id)
    THEN [tenant |-> row[cred.id].tenant, role |-> "viewer", kind |-> "api_key", scopes |-> row[cred.id].scopes]
    ELSE NoRow

authenticateOIDC(cred) ==
    IF cfg.dev \/ UserRow[cred.id] = NoRow THEN NoRow
    ELSE [tenant |-> UserRow[cred.id].tenant, role |-> UserRow[cred.id].role, kind |-> "oidc", scopes |-> {}]

Authenticated(cred) ==
    CASE cred.kind = "key" -> authenticateAPIKey(cred)
      [] cred.kind = "user" -> authenticateOIDC(cred)
      [] OTHER -> NoRow

\* authenticateRequest, and AuthenticateWorker up to the scope.
Principal(r) ==
    IF cfg.dev /\ (r.route \in PublicRoutes \/ r.cred.kind = "internal")
    THEN DevPrincipal ELSE Authenticated(r.cred)

\* The request goes on with its principal; workers are not rate limited.
Admit(c, p) ==
    IF req[c].route \in WorkerRoutes /\ "workers:execute" \notin p.scopes THEN Rejects(c)
    ELSE /\ req' = [req EXCEPT ![c].who = p, ![c].pc = IF req[c].route \in WorkerRoutes THEN "handle" ELSE "limit"]
         /\ UNCHANGED dash

Authenticate(c) ==
    /\ At(c, "authenticate")
    /\ LET p == Principal(req[c]) IN
       CASE p = NoRow -> Rejects(c)
         [] p # NoRow /\ p.kind = "api_key" -> req' = [req EXCEPT ![c].who = p, ![c].pc = "touch"] /\ UNCHANGED dash
         [] OTHER -> Admit(c, p)
    /\ UNCHANGED <<up, cfg, now, row, redis, bucket, restarts, admits, reached>>

\* UPDATE api_keys SET last_used_at: a statement of its own, whatever secret the row has by now.
Touch(c) ==
    /\ At(c, "touch")
    /\ row' = [row EXCEPT ![req[c].cred.id].used = TRUE]
    /\ Admit(c, req[c].who)
    /\ UNCHANGED <<up, cfg, now, redis, bucket, restarts, admits, reached>>

-----------------------------------------------------------------------------
(* The token bucket.  Tokens are counted in parts of 1/TicksPerSecond, so  *)
(* that a tick adds cfg.rate parts.                                        *)

One == TicksPerSecond
Milliseconds(ticks) == (ticks * 1000) \div TicksPerSecond
Ceil(a, b) == (a + b - 1) \div b

\* Mutant: the bucket is kept for the time it takes to refill one token.
ExpireAfterOne == Ceil(1000, cfg.rate)

\* PEXPIRE.
Expire == Ceil(cfg.burst * 2000, cfg.rate)

Absent(b) == b.updated = -1 \/ Milliseconds(now - b.updated) >= Expire

Tokens(b) ==
    IF Absent(b) THEN cfg.burst * One
    ELSE Min({cfg.burst * One, b.tokens + (now - b.updated) * cfg.rate})

\* Mutant: rounded down.
RetryAfterFloor(tokens) == Ceil((One - tokens) * 1000, One * cfg.rate) \div 1000

\* retry_ms, rounded to seconds and at least one.
RetryAfter(tokens) ==
    Max({1, (Ceil((One - tokens) * 1000, One * cfg.rate) + 500) \div 1000})

\* tokenBucketScript: one atomic step of Redis.
Allow(t) ==
    LET tokens == Tokens(bucket[t]) IN
    bucket' = [bucket EXCEPT ![t] =
        IF tokens >= One THEN [tokens |-> tokens - One, updated |-> now, retry |-> NoRetry]
        ELSE [tokens |-> tokens, updated |-> now, retry |-> RetryAfter(tokens)]]

\* Limiter.Middleware: when Redis does not answer, failOpen decides.
Limit(c) ==
    /\ At(c, "limit")
    /\ LET t == req[c].who.tenant
           through == IF redis THEN Tokens(bucket[t]) >= One ELSE cfg.failOpen
       IN  /\ IF redis THEN Allow(t) ELSE UNCHANGED bucket
           /\ IF through THEN Goes(c, "handle") /\ UNCHANGED dash ELSE Rejects(c)
           /\ admits' = IF through /\ ~cfg.dev
                         THEN [admits EXCEPT ![t] = [s \in 0..MaxTime |-> IF s <= now THEN @[s] + 1 ELSE @[s]]]
                         ELSE admits
    /\ UNCHANGED <<up, cfg, now, row, redis, restarts, reached>>

\* Redis restarts without its keys; hints published meanwhile are lost.
RedisFails ==
    /\ cfg # NoRow /\ redis /\ restarts < Deployments[up].restarts
    /\ redis' = FALSE /\ restarts' = restarts + 1
    /\ bucket' = [t \in Tenants |-> NoBucket]
    /\ dash' = [dash EXCEPT !.lost = TRUE]
    /\ UNCHANGED <<up, cfg, now, row, req, admits, reached>>

RedisRestarts ==
    /\ ~redis /\ redis' = TRUE
    /\ UNCHANGED <<up, cfg, now, row, req, bucket, dash, restarts, admits, reached>>

Tick ==
    /\ cfg # NoRow /\ now < Deployments[up].time /\ now' = now + 1
    /\ UNCHANGED <<up, cfg, row, req, redis, bucket, dash, restarts, admits, reached>>

-----------------------------------------------------------------------------
(* Handlers.                                                               *)

\* The request is at its handler and may use it.
Serves(c, routes) == At(c, "handle") /\ req[c].route \in routes /\ Permits(req[c].who, req[c].route)

Reaches(c, resource) ==
    reached' = IF cfg.dev THEN reached ELSE [cred |-> req[c].cred, resource |-> resource]

Forbidden(c) ==
    /\ At(c, "handle") /\ req[c].route \in PublicRoutes /\ ~Permits(req[c].who, req[c].route)
    /\ Rejects(c)
    /\ UNCHANGED <<up, cfg, now, row, redis, bucket, restarts, admits, reached>>

\* A read of the durable state, and handlers that other modules describe.
Handle(c) ==
    /\ Serves(c, {"view", "cancel", "createWorkflow"})
    /\ Answers(c)
    /\ dash' = IF req[c].route = "view" THEN [dash EXCEPT !.seen = dash.version] ELSE dash
    /\ UNCHANGED <<up, cfg, now, row, redis, bucket, restarts, admits, reached>>

CreateAPIKey(c) ==
    /\ Serves(c, {"createKey"})
    /\ \E k \in {k \in Keys : ~Exists(k)}, scopes \in (SUBSET Scopes) \ {{}}, expires \in {NoRow} \cup (now + 1)..Deployments[up].time :
          row' = [row EXCEPT ![k] = [tenant |-> req[c].who.tenant, secret |-> 1, scopes |-> scopes,
                                     expires |-> expires, revoked |-> FALSE, used |-> FALSE]]
    /\ Answers(c)
    /\ UNCHANGED <<up, cfg, now, redis, bucket, dash, restarts, admits, reached>>

\* 422 for a bad name, scope or expiry, 500 when the INSERT fails.
CreateFails(c) ==
    /\ Serves(c, {"createKey"})
    /\ Answers(c)
    /\ UNCHANGED <<up, cfg, now, row, redis, bucket, dash, restarts, admits, reached>>

\* WHERE id=$1 AND tenant_id=$2.
Owned(c, k) == row[k].tenant = req[c].who.tenant

\* Mutant: the key is selected by its id.
RotateAnyTenants(c) ==
    /\ Serves(c, {"rotateKey"})
    /\ LET k == req[c].target IN
       /\ row[k].secret < MaxSecret
       /\ row' = [row EXCEPT ![k].secret = @ + 1, ![k].revoked = FALSE, ![k].used = FALSE]
       /\ Reaches(c, k)
    /\ Answers(c)
    /\ UNCHANGED <<up, cfg, now, redis, bucket, dash, restarts, admits>>

\* RotateAPIKey: a new secret for a key that may be revoked; it keeps its expiry.
RotateAPIKey(c) ==
    /\ Serves(c, {"rotateKey"})
    /\ LET k == req[c].target IN
       IF Owned(c, k)
       THEN /\ row[k].secret < MaxSecret
            /\ row' = [row EXCEPT ![k].secret = @ + 1, ![k].revoked = FALSE, ![k].used = FALSE]
            /\ Reaches(c, k)
       ELSE UNCHANGED <<row, reached>>
    /\ Answers(c)
    /\ UNCHANGED <<up, cfg, now, redis, bucket, dash, restarts, admits>>

RevokeAPIKey(c) ==
    /\ Serves(c, {"revokeKey"})
    /\ LET k == req[c].target IN
       IF Owned(c, k) /\ ~row[k].revoked
       THEN row' = [row EXCEPT ![k].revoked = TRUE] /\ Reaches(c, k)
       ELSE UNCHANGED <<row, reached>>
    /\ Answers(c)
    /\ UNCHANGED <<up, cfg, now, redis, bucket, dash, restarts, admits>>

\* authorizeTask, then the operation on the task.
WorkerCall(c) ==
    /\ At(c, "handle") /\ req[c].route = "worker"
    /\ IF req[c].target = req[c].who.tenant THEN Reaches(c, req[c].target) ELSE UNCHANGED reached
    /\ Answers(c)
    /\ UNCHANGED <<up, cfg, now, row, redis, bucket, dash, restarts, admits>>

-----------------------------------------------------------------------------
(* The live stream of one tenant, and its dashboard.                       *)

\* A change committed with an outbox event, whose hint follows the acknowledgement.
Change ==
    /\ cfg # NoRow /\ Deployments[up].changes /\ dash.version < MaxChanges
    /\ dash' = [dash EXCEPT !.version = @ + 1, !.owed = @ + 1]
    /\ UNCHANGED <<up, cfg, now, row, req, redis, bucket, restarts, admits, reached>>

Subscribers == {c \in Callers : req[c].pc \in {"upgrade", "open"}}

\* Broker.Publish: heard by those subscribed now.
Publish ==
    /\ dash.owed > 0
    /\ dash' = IF redis THEN [dash EXCEPT !.owed = @ - 1, !.hint = @ \cup Subscribers]
                        ELSE [dash EXCEPT !.owed = @ - 1, !.lost = TRUE]
    /\ UNCHANGED <<up, cfg, now, row, req, redis, bucket, restarts, admits, reached>>

\* The scheduler stops between the acknowledgement and the hint.
HintLost ==
    /\ dash.owed > 0
    /\ dash' = [dash EXCEPT !.owed = @ - 1, !.lost = TRUE]
    /\ UNCHANGED <<up, cfg, now, row, req, redis, bucket, restarts, admits, reached>>

\* Broker.Subscribe waits for the confirmation.
Subscribe(c) ==
    /\ Serves(c, {"stream"})
    /\ IF redis THEN Goes(c, "upgrade") /\ UNCHANGED dash ELSE Rejects(c)
    /\ UNCHANGED <<up, cfg, now, row, redis, bucket, restarts, admits, reached>>

\* Mutant: without a first message.
UpgradeSilently(c) ==
    /\ At(c, "upgrade")
    /\ Goes(c, "open") /\ dash' = [dash EXCEPT !.lost = FALSE]
    /\ UNCHANGED <<up, cfg, now, row, redis, bucket, restarts, admits, reached>>

\* Upgrade and "stream.connected", which makes the dashboard refresh like any message.
Upgrade(c) ==
    /\ At(c, "upgrade")
    /\ Goes(c, "open") /\ dash' = [dash EXCEPT !.due = TRUE, !.lost = FALSE]
    /\ UNCHANGED <<up, cfg, now, row, redis, bucket, restarts, admits, reached>>

\* A hint is written to the socket and starts the dashboard's timer.
Deliver(c) ==
    /\ At(c, "open") /\ c \in dash.hint
    /\ dash' = [dash EXCEPT !.hint = @ \ {c}, !.due = TRUE]
    /\ UNCHANGED <<up, cfg, now, row, req, redis, bucket, restarts, admits, reached>>

\* The upgrade, a write or a ping fails: the subscription is closed, the dashboard connects again.
Close(c) ==
    /\ At(c, "upgrade") \/ At(c, "open")
    /\ Answers(c)
    /\ dash' = [dash EXCEPT !.hint = @ \ {c}]
    /\ UNCHANGED <<up, cfg, now, row, redis, bucket, restarts, admits, reached>>

Next ==
    \/ \E c \in Callers :
          \/ Arrive(c) \/ Authenticate(c) \/ Touch(c) \/ Limit(c) \/ Forbidden(c) \/ Handle(c)
          \/ CreateAPIKey(c) \/ CreateFails(c) \/ RotateAPIKey(c) \/ RevokeAPIKey(c) \/ WorkerCall(c)
          \/ Subscribe(c) \/ Upgrade(c) \/ Deliver(c) \/ Close(c)
    \/ Change \/ Publish \/ HintLost
    \/ RedisFails \/ RedisRestarts \/ Tick

Spec == Init /\ [][Next]_vars

-----------------------------------------------------------------------------
(* Properties.                                                             *)

\* A request that arrives with a secret that was rotated away, revoked or has expired is never
\* given a principal, whatever is rotated, re-enabled or revoked while it is authenticated.
DeadTokenRefused ==
    \A c \in Callers : req[c].dead /\ (~cfg.dev \/ req[c].route \in WorkerRoutes) =>
        req[c].pc = "authenticate"

TenantOf(cred) == IF cred.kind = "key" THEN row[cred.id].tenant ELSE UserRow[cred.id].tenant

\* Outside development a key is rotated or revoked only by a person who is an administrator of its
\* tenant, and a worker reaches only tasks of the tenant of its key.
ReachedOwn ==
    reached # NoRow =>
        LET cred == reached.cred IN
        IF reached.resource \in Keys
        THEN cred.kind = "user" /\ UserRow[cred.id].role = "admin" /\ row[reached.resource].tenant = TenantOf(cred)
        ELSE cred.kind = "key" /\ reached.resource = TenantOf(cred)

\* In every window of time a production tenant gets at most a burst and what the rate adds, a burst
\* more for each time Redis lost its buckets: neither the expiry of idle buckets, nor a limiter that
\* cannot be reached, nor concurrent requests let more through.
RateBound ==
    cfg # NoRow /\ ~cfg.dev =>
        \A t \in Tenants, s \in 0..now :
            admits[t][s] * One <= (1 + restarts) * cfg.burst * One + (now - s) * cfg.rate

\* A tenant that waits as long as Retry-After told it, and sends nothing meanwhile, is let through.
RetryIsEnough ==
    cfg # NoRow => \A t \in Tenants :
        LET b == bucket[t] IN
        b.retry # NoRetry /\ now >= b.updated + b.retry * TicksPerSecond => Tokens(b) >= One

\* A dashboard whose stream is open and that is behind a change is about to refresh: the hint is
\* owed, on its way, or the refresh is pending, unless a hint was lost or a refresh was refused.
HintReachesDashboard ==
    \A c \in Callers : req[c].pc = "open" /\ ~dash.lost /\ dash.seen < dash.version =>
        dash.owed > 0 \/ c \in dash.hint \/ dash.due \/ \E d \in Callers : req[d].route = "view"

=============================================================================
