---------------------------- MODULE AccessProofs ----------------------------
(***************************************************************************)
(* Proofs about the way of a request to its handler, for any tenants,      *)
(* users, keys, callers, deployments, rates and bursts: dead secrets,      *)
(* tenancy, the token bucket and the hints of the live stream.             *)
(***************************************************************************)
EXTENDS Access, TLAPS

\* A step that names no prover is tried by Zenon first, then by the SMT solver.
USE ZenonT(4), SMTT(60)

Config == [dev : BOOLEAN, failOpen : BOOLEAN, rate : Nat \ {0}, burst : Nat \ {0}]

Cred == [kind : {"none", "internal", "key", "user"}, id : Keys \cup Users \cup {""}, n : Nat]

Principals ==
    [tenant : Tenants, role : {"viewer", "operator", "developer", "admin", DevRole},
     kind : {"api_key", "oidc", "development"}, scopes : SUBSET (Scopes \cup {"workers:execute"})]

Request ==
    [pc : {"idle", "authenticate", "touch", "limit", "handle", "upgrade", "open"},
     route : PublicRoutes \cup WorkerRoutes \cup {""}, cred : Cred,
     target : Keys \cup Tenants \cup {NoRow}, who : Principals \cup {NoRow}, dead : BOOLEAN]

Typed ==
    /\ up \in DOMAIN Deployments
    /\ cfg # NoRow => cfg \in Config /\ (cfg.dev \/ ~cfg.failOpen)
    /\ now \in 0..MaxTime
    /\ row \in [Keys -> APIKey \cup {NoRow}]
    /\ req \in [Callers -> Request]

-----------------------------------------------------------------------------
(* Requests                                                                *)

\* The credential is a secret that was made for its key, or a user's token.
CredOK(cred) ==
    /\ cred.kind = "key" => cred.id \in Keys /\ Exists(cred.id) /\ cred.n <= row[cred.id].secret
    /\ cred.kind = "user" => cred.id \in Users

\* The principal is who the credential belongs to.
WhoIs(cred, who) ==
    \/ cred.kind = "key" /\ who.kind = "api_key" /\ who.tenant = row[cred.id].tenant
    \/ /\ cred.kind = "user" /\ who.kind = "oidc" /\ UserRow[cred.id] # NoRow
       /\ who.tenant = UserRow[cred.id].tenant /\ who.role = UserRow[cred.id].role /\ who.scopes = {}

\* All that holds of a request r.
RequestOK(r) ==
    /\ r.pc = "idle" => r = Idle
    /\ r.pc # "idle" =>
          /\ CredOK(r.cred)
          /\ r.dead => Dead(r.cred)
          /\ r.dead /\ (~cfg.dev \/ r.route \in WorkerRoutes) => r.pc = "authenticate"
          /\ r.route = "worker" => r.target \in Tenants
          /\ r.route \in {"rotateKey", "revokeKey"} => r.target \in Keys /\ Exists(r.target)
          /\ r.pc # "authenticate" => r.who \in Principals /\ (~cfg.dev => WhoIs(r.cred, r.who))
          /\ r.pc = "touch" => r.cred.kind = "key"
          /\ r.pc = "limit" => r.route # "worker"
          /\ r.pc = "handle" /\ r.route = "worker" => "workers:execute" \in r.who.scopes
          /\ r.pc \in {"upgrade", "open"} => r.route = "stream"

\* What has been reached was reached with an issued credential, and is still there.
ReachedOK ==
    reached # NoRow =>
        /\ reached.cred \in Cred /\ CredOK(reached.cred)
        /\ reached.resource \in Keys => Exists(reached.resource)

\* The inductive invariant for requests.
RInv == Typed /\ (\A c \in Callers : RequestOK(req[c])) /\ ReachedOK /\ ReachedOwn

-----------------------------------------------------------------------------
(* The token bucket                                                        *)

Bucket == [tokens : Int, updated : Int, retry : Int]

\* A bucket that is there was filled in the past, and tells a rejected tenant to wait.
BucketOK(b) ==
    b = NoBucket \/ /\ b \in Bucket
                    /\ 0 <= b.tokens /\ b.tokens <= cfg.burst * One
                    /\ 0 <= b.updated /\ b.updated <= now
                    /\ b.retry = NoRetry \/ b.retry >= 1

\* What was let through since s and what may still be let through at once stay within the bound.
WindowOK(t, s) ==
    admits[t][s] * One + Tokens(bucket[t]) <= (1 + restarts) * cfg.burst * One + (now - s) * cfg.rate

\* The inductive invariant for the token bucket.
TInv ==
    /\ restarts \in Nat
    /\ bucket \in [Tenants -> Bucket]
    /\ admits \in [Tenants -> [0..MaxTime -> Nat]]
    /\ \A t \in Tenants : \A s \in 0..MaxTime : s > now => admits[t][s] = 0
    /\ cfg # NoRow =>
          \A t \in Tenants : BucketOK(bucket[t]) /\ (~cfg.dev => \A s \in 0..now : WindowOK(t, s))

-----------------------------------------------------------------------------
(* The dashboard                                                           *)

Dash == [version : Nat, owed : Nat, hint : SUBSET Callers, due : BOOLEAN, seen : Nat, lost : BOOLEAN]

\* The inductive invariant for the dashboard.
DInv == dash \in Dash /\ HintReachesDashboard

-----------------------------------------------------------------------------
(* Requests: what steps keep                                               *)

\* A row stays, with its tenant and its expiry; a secret is replaced by a later one, and a
\* revocation is lifted only with a new secret.
KeysGrow ==
    \A k \in Keys : Exists(k) =>
        /\ row'[k] # NoRow /\ row'[k].tenant = row[k].tenant /\ row'[k].expires = row[k].expires
        /\ row'[k].secret >= row[k].secret
        /\ row'[k].secret = row[k].secret /\ row[k].revoked => row'[k].revoked

\* A credential stays one that was issued, for the same tenant.
LEMMA CredKept ==
    ASSUME Typed, Typed', KeysGrow, NEW cred \in Cred, CredOK(cred)
    PROVE  CredOK(cred)' /\ (cred.kind = "key" => row'[cred.id].tenant = row[cred.id].tenant)
<1>1. CASE cred.kind = "key"
  <2>1. /\ cred.id \in Keys /\ Exists(cred.id) /\ cred.n <= row[cred.id].secret
        /\ row[cred.id] \in APIKey /\ row'[cred.id] \in APIKey \cup {NoRow} /\ row'[cred.id] # NoRow
    BY <1>1 DEF CredOK, Typed, Exists, KeysGrow
  <2>2. cred.n \in Nat /\ row[cred.id].secret \in Nat /\ row'[cred.id].secret \in Nat
    BY <2>1, Zenon DEF Cred, APIKey
  <2> QED
    BY <1>1, <2>1, <2>2 DEF CredOK, Exists, KeysGrow
<1>2. CASE cred.kind # "key"
  BY <1>2 DEF CredOK
<1> QED
  BY <1>1, <1>2

\* A dead secret stays dead: a rotation that lifts a revocation makes another secret.
LEMMA DeadStays ==
    ASSUME Typed, Typed', KeysGrow, now' >= now, NEW cred \in Cred, CredOK(cred), Dead(cred)
    PROVE  Dead(cred)'
<1> DEFINE k == cred.id
<1>1. /\ cred.kind = "key" /\ k \in Keys /\ Exists(k) /\ cred.n <= row[k].secret
      /\ row[k] \in APIKey /\ row'[k] \in APIKey \cup {NoRow} /\ row'[k] # NoRow
  BY DEF Dead, CredOK, Typed, Exists, KeysGrow
<1>2. /\ cred.n \in Nat /\ row[k].secret \in Nat /\ row'[k].secret \in Nat /\ row'[k].secret >= row[k].secret
  BY <1>1, Zenon DEF Cred, APIKey, KeysGrow
<1>6. now \in Nat /\ now' \in Nat
  BY AccessAssumption DEF Typed
<1>3. CASE cred.n # row[k].secret
  BY <1>1, <1>2, <1>3 DEF Dead
<1>4. CASE row[k].revoked
  <2>1. row'[k].secret = row[k].secret => row'[k].revoked
    BY <1>1, <1>4 DEF KeysGrow
  <2>2. row'[k].secret # row[k].secret => cred.n # row'[k].secret
    BY <1>1, <1>2
  <2> QED
    BY <1>1, <2>1, <2>2 DEF Dead
<1>5. CASE Expired(k)
  <2>1. row[k].expires # NoRow /\ row[k].expires <= now /\ row'[k].expires = row[k].expires
    BY <1>1, <1>5 DEF Expired, KeysGrow
  <2>2. row[k].expires \in Nat
    BY <1>1, <2>1 DEF APIKey
  <2>3. Expired(k)'
    BY <1>6, <2>1, <2>2 DEF Expired
  <2> QED
    BY <1>1, <2>3 DEF Dead
<1> QED
  BY <1>1, <1>3, <1>4, <1>5 DEF Dead

\* A request that is in order stays so.
LEMMA RequestKept ==
    ASSUME Typed, Typed', KeysGrow, now' >= now, cfg' = cfg, NEW r \in Request, RequestOK(r)
    PROVE  RequestOK(r)'
<1>1. r.cred \in Cred
  BY Zenon DEF Request
<1>2. CASE r.pc = "idle"
  BY <1>2 DEF RequestOK
<1>3. CASE r.pc # "idle"
  <2>1. CredOK(r.cred) /\ (r.dead => Dead(r.cred))
    BY <1>3 DEF RequestOK
  <2>2. CredOK(r.cred)' /\ (r.cred.kind = "key" => row'[r.cred.id].tenant = row[r.cred.id].tenant)
    BY <1>1, <2>1, CredKept
  <2>3. r.dead => Dead(r.cred)'
    BY <1>1, <2>1, DeadStays
  <2>4. WhoIs(r.cred, r.who) => WhoIs(r.cred, r.who)'
    BY <2>2 DEF WhoIs
  <2>5. r.route \in {"rotateKey", "revokeKey"} => r.target \in Keys /\ row'[r.target] # NoRow
    BY <1>3 DEF RequestOK, KeysGrow
  <2> QED
    BY <1>3, <2>2, <2>3, <2>4, <2>5 DEF RequestOK, Exists
<1> QED
  BY <1>2, <1>3

\* What has been reached stays as it was.
LEMMA ReachedKept ==
    ASSUME RInv, Typed', KeysGrow, reached' \in {NoRow, reached}
    PROVE  ReachedOK' /\ ReachedOwn'
<1>1. CASE reached' = NoRow
  BY <1>1 DEF ReachedOK, ReachedOwn
<1>2. CASE reached' = reached /\ reached # NoRow
  <2>1. /\ CredOK(reached.cred) /\ reached.cred \in Cred /\ ReachedOwn
        /\ reached.resource \in Keys => Exists(reached.resource)
    BY <1>2 DEF RInv, ReachedOK
  <2>2. /\ CredOK(reached.cred)'
        /\ reached.cred.kind = "key" => row'[reached.cred.id].tenant = row[reached.cred.id].tenant
    BY <1>2, <2>1, CredKept DEF RInv
  <2>3. reached.resource \in Keys => /\ row'[reached.resource] # NoRow
                                     /\ row'[reached.resource].tenant = row[reached.resource].tenant
    BY <2>1 DEF KeysGrow
  <2>4. ReachedOK'
    BY <1>2, <2>1, <2>2, <2>3 DEF ReachedOK, Exists
  <2>5. TenantOf(reached.cred)' = TenantOf(reached.cred)
    BY <1>2, <2>2 DEF TenantOf
  <2>6. ReachedOwn'
    BY <1>2, <2>1, <2>3, <2>5 DEF ReachedOwn
  <2> QED
    BY <2>4, <2>6
<1> QED
  BY <1>1, <1>2

\* The request of c becomes r, which is in order.
LEMMA CallerStep ==
    ASSUME RInv, Typed', KeysGrow, now' >= now, cfg' = cfg, NEW c \in Callers, NEW r \in Request,
           req' = [req EXCEPT ![c] = r], RequestOK(r), ReachedOK', ReachedOwn'
    PROVE  RInv'
<1>1. ASSUME NEW d \in Callers PROVE RequestOK(req[d])'
  <2>1. req[d] \in Request /\ RequestOK(req[d]) /\ Typed /\ req'[d] = IF d = c THEN r ELSE req[d]
    BY DEF RInv, Typed
  <2>2. req'[d] \in Request /\ RequestOK(req'[d])
    BY <2>1
  <2> QED
    BY <2>1, <2>2, RequestKept
<1> QED
  BY <1>1 DEF RInv

\* A step of nobody.
LEMMA QuietStep ==
    ASSUME RInv, Typed', KeysGrow, now' >= now, UNCHANGED <<cfg, req, reached>>
    PROVE  RInv'
<1>1. ASSUME NEW d \in Callers PROVE RequestOK(req[d])'
  <2>1. req[d] \in Request /\ RequestOK(req[d]) /\ Typed
    BY DEF RInv, Typed
  <2> QED
    BY <2>1, RequestKept
<1>2. ReachedOK' /\ ReachedOwn'
  BY ReachedKept
<1> QED
  BY <1>1, <1>2 DEF RInv

-----------------------------------------------------------------------------
(* Requests: the steps                                                     *)

\* Nothing happens to the keys.
LEMMA SameKeys ==
    ASSUME Typed, row' = row
    PROVE  KeysGrow
<1>1. ASSUME NEW k \in Keys, Exists(k) PROVE row[k].secret \in Nat
  BY <1>1 DEF Typed, Exists, APIKey
<1> QED
  BY <1>1 DEF KeysGrow, Exists

\* A step that reaches nothing.
LEMMA KeysStep ==
    ASSUME RInv, NEW c \in Callers, NEW r \in Request, req' = [req EXCEPT ![c] = r], RequestOK(r),
           UNCHANGED <<up, cfg, now>>, row' \in [Keys -> APIKey \cup {NoRow}], KeysGrow,
           reached' \in {NoRow, reached}
    PROVE  RInv'
<1>1. Typed'
  BY DEF RInv, Typed
<1>2. now' >= now
  BY AccessAssumption DEF RInv, Typed
<1>3. ReachedOK' /\ ReachedOwn'
  BY <1>1, <1>2, ReachedKept
<1> QED
  BY <1>1, <1>2, <1>3, CallerStep, Zenon

\* A step that leaves the keys alone.
LEMMA RequestStep ==
    ASSUME RInv, NEW c \in Callers, NEW r \in Request, req' = [req EXCEPT ![c] = r], RequestOK(r),
           UNCHANGED <<up, cfg, now, row>>, reached' \in {NoRow, reached}
    PROVE  RInv'
<1>1. row' \in [Keys -> APIKey \cup {NoRow}] /\ KeysGrow
  BY SameKeys DEF RInv, Typed
<1> QED
  BY <1>1, KeysStep, Zenon

\* No request is in order.
LEMMA IdleOK == Idle \in Request /\ RequestOK(Idle)
<1>1. NoCred \in Cred
  BY DEF NoCred, Cred
<1> QED
  BY <1>1 DEF Idle, Request, RequestOK

\* The request is answered.
LEMMA AnswersStep ==
    ASSUME RInv, NEW c \in Callers, Answers(c), UNCHANGED <<up, cfg, now, row, reached>>
    PROVE  RInv'
BY IdleOK, RequestStep, Zenon DEF Answers

\* A request arrives with a credential its caller holds.
LEMMA ArriveRInv ==
    ASSUME RInv, NEW c \in Callers, Arrive(c)
    PROVE  RInv'
<1> DEFINE dep == Deployments[up]
<1>1. /\ cfg # NoRow /\ c \in DOMAIN dep.callers /\ reached' = NoRow
      /\ UNCHANGED <<up, cfg, now, row>>
  BY DEF Arrive, At
<1>2. PICK route \in dep.callers[c].routes, cred \in {h \in Held(c) : Issued(h)} :
      \E target \in Targets(route) :
         req' = [req EXCEPT ![c] = [pc |-> "authenticate", route |-> route, cred |-> cred,
                                    target |-> target, who |-> NoRow, dead |-> Dead(cred)]]
  BY Zenon DEF Arrive
<1>3. PICK target \in Targets(route) :
         req' = [req EXCEPT ![c] = [pc |-> "authenticate", route |-> route, cred |-> cred,
                                    target |-> target, who |-> NoRow, dead |-> Dead(cred)]]
  BY <1>2, Zenon
<1> DEFINE r == [pc |-> "authenticate", route |-> route, cred |-> cred,
                 target |-> target, who |-> NoRow, dead |-> Dead(cred)]
<1>4. /\ up \in DOMAIN Deployments /\ route \in PublicRoutes \cup WorkerRoutes
      /\ dep.callers[c].users \subseteq Users /\ dep.callers[c].other \subseteq {"internal", "none"}
  BY <1>1, DeploymentsAssumption DEF RInv, Typed
<1>5. cred \in Cred /\ CredOK(cred)
  <2>1. ASSUME NEW u \in dep.callers[c].users, cred = [kind |-> "user", id |-> u, n |-> 0]
        PROVE  cred \in Cred /\ CredOK(cred)
    <3>1. cred.kind = "user" /\ cred.id \in Users
      BY <1>4, <2>1
    <3>2. cred \in Cred
      BY <1>4, <2>1, Zenon DEF Cred
    <3> QED
      BY <3>1, <3>2 DEF CredOK
  <2>2. ASSUME NEW k \in Keys, NEW n \in 1..MaxSecret, Exists(k), cred = [kind |-> "key", id |-> k, n |-> n]
        PROVE  cred \in Cred /\ CredOK(cred)
    <3>1. cred.kind = "key" /\ cred.id = k /\ cred.n = n /\ n \in Nat
      BY <2>2, AccessAssumption
    <3>2. cred \in Cred
      BY <2>2, <3>1, Zenon DEF Cred
    <3>3. Issued(cred)
      BY <1>2
    <3> QED
      BY <2>2, <3>1, <3>2, <3>3 DEF CredOK, Issued
  <2>3. ASSUME NEW kind \in dep.callers[c].other, cred = [kind |-> kind, id |-> "", n |-> 0]
        PROVE  cred \in Cred /\ CredOK(cred)
    <3>1. cred.kind \in {"internal", "none"}
      BY <1>4, <2>3, Zenon
    <3>2. cred \in Cred
      BY <1>4, <2>3, Zenon DEF Cred
    <3> QED
      BY <3>1, <3>2 DEF CredOK
  <2>4. ASSUME NEW made \in {k \in Keys : dep.callers[c].keys /\ Exists(k)} \X (1..MaxSecret),
               cred = [kind |-> "key", id |-> made[1], n |-> made[2]]
        PROVE  cred \in Cred /\ CredOK(cred)
    <3>1. made[1] \in Keys /\ Exists(made[1]) /\ made[2] \in 1..MaxSecret
      OBVIOUS
    <3> QED
      BY <2>2, <2>4, <3>1
  <2>5. cred \in Held(c)
    BY <1>2
  <2> QED
    BY <2>1, <2>3, <2>4, <2>5, Zenon DEF Held
<1>6. /\ target \in Keys \cup Tenants \cup {NoRow}
      /\ route = "worker" => target \in Tenants
      /\ route \in {"rotateKey", "revokeKey"} => target \in Keys /\ Exists(target)
  BY <1>3 DEF Targets
<1>7. Dead(cred) \in BOOLEAN
  BY DEF Dead
<1>8. r \in Request /\ RequestOK(r)
  <2>1. r \in Request
    BY <1>4, <1>5, <1>6, <1>7, Zenon DEF Request
  <2>2. RequestOK(r)
    BY <1>5, <1>6 DEF RequestOK
  <2> QED
    BY <2>1, <2>2
<1> QED
  BY <1>1, <1>3, <1>8, RequestStep, Zenon

\* Who a request is found to be: its credential's owner, and nobody for a dead secret.
LEMMA PrincipalOK ==
    ASSUME RInv, NEW r \in Request, RequestOK(r), r.pc = "authenticate", cfg # NoRow, Principal(r) # NoRow
    PROVE  LET p == Principal(r)
           IN  /\ p \in Principals
               /\ ~cfg.dev => WhoIs(r.cred, p)
               /\ p.kind = "api_key" => r.cred.kind = "key"
               /\ ~(r.dead /\ (~cfg.dev \/ r.route \in WorkerRoutes))
<1> DEFINE p == Principal(r)
           cred == r.cred
<1>1. cred \in Cred /\ CredOK(cred) /\ (r.dead => Dead(cred)) /\ Typed /\ cfg \in Config
  BY Zenon DEF RequestOK, Request, RInv, Typed
<1>2. CASE cfg.dev /\ (r.route \in PublicRoutes \/ cred.kind = "internal")
  <2>1. p = DevPrincipal
    BY <1>2 DEF Principal
  <2>2. DevPrincipal \in Principals /\ DevPrincipal.kind # "api_key"
    BY AccessAssumption DEF DevPrincipal, Principals
  <2>3. r.dead => cred.kind = "key"
    BY <1>1 DEF Dead
  <2>4. r.route \in PublicRoutes => r.route \notin WorkerRoutes
    BY DEF PublicRoutes, HumanRoutes, WorkerRoutes, Role
  <2> QED
    BY <1>2, <2>1, <2>2, <2>3, <2>4
<1>3. CASE ~(cfg.dev /\ (r.route \in PublicRoutes \/ cred.kind = "internal")) /\ cred.kind = "key"
  <2>1. p = authenticateAPIKey(cred)
    BY <1>3 DEF Principal, Authenticated
  <2>2. /\ ~row[cred.id].revoked /\ cred.n = row[cred.id].secret /\ ~Expired(cred.id)
        /\ p = [tenant |-> row[cred.id].tenant, role |-> "viewer", kind |-> "api_key", scopes |-> row[cred.id].scopes]
    BY <2>1 DEF authenticateAPIKey
  <2>3. cred.id \in Keys /\ row[cred.id] \in APIKey
    BY <1>1, <1>3 DEF CredOK, Typed, Exists
  <2>4. row[cred.id].tenant \in Tenants /\ row[cred.id].scopes \subseteq Scopes
    BY <2>3 DEF APIKey
  <2>5. p \in Principals /\ p.kind = "api_key" /\ p.tenant = row[cred.id].tenant
    BY <2>2, <2>4 DEF Principals
  <2>6. ~Dead(cred)
    BY <2>2 DEF Dead
  <2> QED
    BY <1>1, <1>3, <2>5, <2>6 DEF WhoIs
<1>4. CASE ~(cfg.dev /\ (r.route \in PublicRoutes \/ cred.kind = "internal")) /\ cred.kind # "key"
  <2>1. cred.kind = "user" /\ p = authenticateOIDC(cred)
    BY <1>4 DEF Principal, Authenticated
  <2>2. /\ ~cfg.dev /\ UserRow[cred.id] # NoRow
        /\ p = [tenant |-> UserRow[cred.id].tenant, role |-> UserRow[cred.id].role, kind |-> "oidc", scopes |-> {}]
    BY <2>1 DEF authenticateOIDC
  <2>3. /\ UserRow[cred.id].tenant \in Tenants
        /\ UserRow[cred.id].role \in {"viewer", "operator", "developer", "admin"}
    BY <1>1, <2>1, <2>2, AccessAssumption DEF CredOK
  <2>4. /\ p \in Principals /\ p.kind = "oidc" /\ p.tenant = UserRow[cred.id].tenant
        /\ p.role = UserRow[cred.id].role /\ p.scopes = {}
    BY <2>2, <2>3 DEF Principals
  <2>5. ~Dead(cred)
    BY <2>1 DEF Dead
  <2> QED
    BY <1>1, <2>1, <2>2, <2>4, <2>5 DEF WhoIs
<1> QED
  BY <1>2, <1>3, <1>4

\* A request that goes on with its principal is in order.
LEMMA IdentifiedOK ==
    ASSUME RInv, NEW c \in Callers, cfg # NoRow, req[c].pc # "idle", NEW p \in Principals,
           ~cfg.dev => WhoIs(req[c].cred, p),
           ~(req[c].dead /\ (~cfg.dev \/ req[c].route \in WorkerRoutes)),
           NEW q \in {"touch", "limit", "handle"},
           q = "touch" => req[c].cred.kind = "key",
           q = "limit" => req[c].route # "worker",
           q = "handle" /\ req[c].route = "worker" => "workers:execute" \in p.scopes,
           NEW r, r = [[req[c] EXCEPT !.who = p] EXCEPT !.pc = q]
    PROVE  r \in Request /\ RequestOK(r)
<1>1. req[c] \in Request /\ RequestOK(req[c])
  BY DEF RInv, Typed
<1>2. /\ r \in Request /\ r.pc = q /\ r.who = p /\ r.route = req[c].route /\ r.cred = req[c].cred
      /\ r.target = req[c].target /\ r.dead = req[c].dead
  BY <1>1, Zenon DEF Request
<1> QED
  BY <1>1, <1>2 DEF RequestOK

\* The request goes on to the limiter or its handler, or is refused.
LEMMA AdmitStep ==
    ASSUME RInv, row' \in [Keys -> APIKey \cup {NoRow}], KeysGrow, UNCHANGED <<up, cfg, now, reached>>,
           NEW c \in Callers, cfg # NoRow, req[c].pc # "idle", NEW p \in Principals,
           ~cfg.dev => WhoIs(req[c].cred, p),
           ~(req[c].dead /\ (~cfg.dev \/ req[c].route \in WorkerRoutes)),
           Admit(c, p)
    PROVE  RInv'
<1>2. CASE req[c].route \in WorkerRoutes /\ "workers:execute" \notin p.scopes
  <2>1. req' = [req EXCEPT ![c] = Idle]
    BY <1>2 DEF Admit, Rejects, Answers
  <2> QED
    BY <2>1, IdleOK, KeysStep, Zenon
<1>3. CASE ~(req[c].route \in WorkerRoutes /\ "workers:execute" \notin p.scopes)
  <2> DEFINE q == IF req[c].route \in WorkerRoutes THEN "handle" ELSE "limit"
             r == [[req[c] EXCEPT !.who = p] EXCEPT !.pc = q]
  <2>1. req' = [req EXCEPT ![c] = r]
    <3>1. req' = [req EXCEPT ![c].who = p, ![c].pc = q]
      BY <1>3 DEF Admit
    <3> QED
      BY <3>1, Zenon DEF RInv, Typed
  <2>2. q \in {"touch", "limit", "handle"} /\ q # "touch"
    OBVIOUS
  <2>3. /\ q = "limit" => req[c].route # "worker"
        /\ q = "handle" /\ req[c].route = "worker" => "workers:execute" \in p.scopes
    BY <1>3 DEF WorkerRoutes
  <2>4. r \in Request /\ RequestOK(r)
    <3> HIDE DEF q
    <3> QED
      BY <2>2, <2>3, IdentifiedOK, Zenon
  <2> QED
    BY <2>1, <2>4, KeysStep, Zenon
<1> QED
  BY <1>2, <1>3

LEMMA AuthenticateRInv ==
    ASSUME RInv, NEW c \in Callers, Authenticate(c)
    PROVE  RInv'
<1> DEFINE p == Principal(req[c])
<1>1. cfg # NoRow /\ req[c].pc = "authenticate" /\ UNCHANGED <<up, cfg, now, row, reached>>
  BY DEF Authenticate, At
<1>2. req[c] \in Request /\ RequestOK(req[c])
  BY DEF RInv, Typed
<1>3. CASE p = NoRow
  <2>1. Answers(c)
    BY <1>3 DEF Authenticate, Rejects
  <2> QED
    BY <1>1, <2>1, AnswersStep
<1>4. CASE p # NoRow
  <2>1. /\ p \in Principals /\ (~cfg.dev => WhoIs(req[c].cred, p))
        /\ p.kind = "api_key" => req[c].cred.kind = "key"
        /\ ~(req[c].dead /\ (~cfg.dev \/ req[c].route \in WorkerRoutes))
    BY <1>1, <1>2, <1>4, PrincipalOK
  <2>2. CASE p.kind = "api_key"
    <3> DEFINE r == [[req[c] EXCEPT !.who = p] EXCEPT !.pc = "touch"]
    <3>1. req' = [req EXCEPT ![c].who = p, ![c].pc = "touch"]
      BY <1>4, <2>2 DEF Authenticate
    <3>2. req' = [req EXCEPT ![c] = r]
      BY <3>1, Zenon DEF RInv, Typed
    <3>3. r \in Request /\ RequestOK(r)
      <4> HIDE DEF p
      <4> QED
        BY <1>1, <2>1, <2>2, IdentifiedOK, Zenon
    <3> QED
      BY <1>1, <3>2, <3>3, RequestStep, Zenon
  <2>3. CASE p.kind # "api_key"
    <3>1. Admit(c, p)
      BY <1>4, <2>3 DEF Authenticate
    <3>2. row' \in [Keys -> APIKey \cup {NoRow}] /\ KeysGrow
      BY <1>1, SameKeys DEF RInv, Typed
    <3> HIDE DEF p
    <3> QED
      BY <1>1, <2>1, <3>1, <3>2, AdmitStep
  <2> QED
    BY <2>2, <2>3
<1> QED
  BY <1>3, <1>4

LEMMA TouchRInv ==
    ASSUME RInv, NEW c \in Callers, Touch(c)
    PROVE  RInv'
<1> DEFINE k == req[c].cred.id
<1>1. /\ cfg # NoRow /\ req[c].pc = "touch" /\ UNCHANGED <<up, cfg, now, reached>>
      /\ row' = [row EXCEPT ![k].used = TRUE] /\ Admit(c, req[c].who)
  BY DEF Touch, At
<1>2. req[c] \in Request /\ RequestOK(req[c]) /\ row \in [Keys -> APIKey \cup {NoRow}]
  BY DEF RInv, Typed
<1>3. /\ req[c].cred.kind = "key" /\ CredOK(req[c].cred) /\ req[c].who \in Principals
      /\ ~cfg.dev => WhoIs(req[c].cred, req[c].who)
      /\ ~(req[c].dead /\ (~cfg.dev \/ req[c].route \in WorkerRoutes))
  BY <1>1, <1>2 DEF RequestOK
<1>4. k \in Keys /\ row[k] \in APIKey
  BY <1>2, <1>3 DEF CredOK, Exists
<1> DEFINE s == [row[k] EXCEPT !.used = TRUE]
<1>5. /\ s \in APIKey /\ s.tenant = row[k].tenant /\ s.expires = row[k].expires
      /\ s.secret = row[k].secret /\ s.revoked = row[k].revoked /\ s.secret \in Nat
  BY <1>4, Zenon DEF APIKey
<1>6. row' = [row EXCEPT ![k] = s]
  BY <1>1, <1>2, <1>4
<1> HIDE DEF s
<1>7. row' \in [Keys -> APIKey \cup {NoRow}]
  BY <1>2, <1>5, <1>6, Zenon
<1>8. KeysGrow
  <2>1. ASSUME NEW l \in Keys, Exists(l) PROVE row[l].secret \in Nat
    BY <1>2, <2>1 DEF Exists, APIKey
  <2> QED
    BY <1>2, <1>5, <1>6, <2>1, AccessAssumption DEF KeysGrow, Exists
<1> QED
  BY <1>1, <1>3, <1>7, <1>8, AdmitStep

\* A request that goes on to q.
LEMMA GoesStep ==
    ASSUME RInv, NEW c \in Callers, NEW q \in {"handle", "upgrade", "open"}, Goes(c, q),
           req[c].pc \in {"limit", "handle", "upgrade"},
           q = "handle" => req[c].route # "worker",
           q \in {"upgrade", "open"} => req[c].route = "stream",
           UNCHANGED <<up, cfg, now, row, reached>>
    PROVE  RInv'
<1> DEFINE r == [req[c] EXCEPT !.pc = q]
<1>1. req[c] \in Request /\ RequestOK(req[c]) /\ req' = [req EXCEPT ![c] = r]
  BY DEF RInv, Typed, Goes
<1>2. /\ r \in Request /\ r.pc = q /\ r.who = req[c].who /\ r.route = req[c].route /\ r.cred = req[c].cred
      /\ r.target = req[c].target /\ r.dead = req[c].dead
  BY <1>1, Zenon DEF Request
<1> HIDE DEF r
<1>3. RequestOK(r)
  BY <1>1, <1>2 DEF RequestOK
<1> QED
  BY <1>1, <1>2, <1>3, RequestStep, Zenon

LEMMA LimitRInv ==
    ASSUME RInv, NEW c \in Callers, Limit(c)
    PROVE  RInv'
<1>1. /\ cfg # NoRow /\ req[c].pc = "limit" /\ UNCHANGED <<up, cfg, now, row, reached>>
      /\ Goes(c, "handle") \/ Answers(c)
  BY DEF Limit, At, Rejects
<1>2. req[c].route # "worker"
  BY <1>1 DEF RInv, RequestOK
<1> QED
  BY <1>1, <1>2, GoesStep, AnswersStep

LEMMA SubscribeRInv ==
    ASSUME RInv, NEW c \in Callers, Subscribe(c)
    PROVE  RInv'
<1>1. /\ req[c].pc = "handle" /\ req[c].route = "stream" /\ UNCHANGED <<up, cfg, now, row, reached>>
      /\ Goes(c, "upgrade") \/ Answers(c)
  BY DEF Subscribe, Serves, At, Rejects
<1> QED
  BY <1>1, GoesStep, AnswersStep

LEMMA UpgradeRInv ==
    ASSUME RInv, NEW c \in Callers, Upgrade(c)
    PROVE  RInv'
<1>1. req[c].pc = "upgrade" /\ UNCHANGED <<up, cfg, now, row, reached>> /\ Goes(c, "open")
  BY DEF Upgrade, At
<1>2. req[c].route = "stream"
  BY <1>1 DEF RInv, RequestOK
<1> QED
  BY <1>1, <1>2, GoesStep

\* Handlers and refusals that only answer.
LEMMA AnsweredRInv ==
    ASSUME RInv, NEW c \in Callers, Forbidden(c) \/ Handle(c) \/ CreateFails(c) \/ Close(c)
    PROVE  RInv'
<1>1. Answers(c) /\ UNCHANGED <<up, cfg, now, row, reached>>
  BY DEF Forbidden, Handle, CreateFails, Close, Rejects
<1> QED
  BY <1>1, AnswersStep

\* A key's row becomes s, which has the row's tenant and expiry and no earlier secret.
LEMMA RowStep ==
    ASSUME RInv, NEW k \in Keys, Exists(k), NEW s \in APIKey, row' = [row EXCEPT ![k] = s],
           s.tenant = row[k].tenant, s.expires = row[k].expires, s.secret >= row[k].secret,
           s.secret = row[k].secret /\ row[k].revoked => s.revoked
    PROVE  row' \in [Keys -> APIKey \cup {NoRow}] /\ KeysGrow
<1>1. row \in [Keys -> APIKey \cup {NoRow}] /\ s # NoRow
  BY AccessAssumption DEF RInv, Typed
<1>2. ASSUME NEW l \in Keys, Exists(l) PROVE row[l].secret \in Nat
  BY <1>1, <1>2 DEF Exists, APIKey
<1> QED
  BY <1>1, <1>2 DEF KeysGrow, Exists

\* The request reached res, which its credential's owner may reach, and is answered.
LEMMA ReachesStep ==
    ASSUME RInv, NEW c \in Callers, cfg # NoRow, req[c].pc # "idle",
           NEW cred, cred = req[c].cred, NEW res, Reaches(c, res), Answers(c),
           UNCHANGED <<up, cfg, now>>, row' \in [Keys -> APIKey \cup {NoRow}], KeysGrow,
           ~cfg.dev => IF res \in Keys
                       THEN /\ cred.kind = "user" /\ UserRow[cred.id].role = "admin"
                            /\ Exists(res) /\ row[res].tenant = TenantOf(cred)
                       ELSE cred.kind = "key" /\ res = TenantOf(cred)
    PROVE  RInv'
<1>1. CASE cfg.dev
  BY <1>1, IdleOK, KeysStep, Zenon DEF Reaches, Answers
<1>2. CASE ~cfg.dev
  <2> DEFINE reach == [cred |-> cred, resource |-> res]
  <2>1. reached' = reach /\ reach.cred = cred /\ reach.resource = res
    BY <1>2 DEF Reaches
  <2>2. req[c] \in Request /\ RequestOK(req[c]) /\ Typed
    BY DEF RInv, Typed
  <2>3. cred \in Cred /\ CredOK(cred)
    BY <2>2, Zenon DEF RequestOK, Request
  <2>4. Typed' /\ now' >= now
    <3>1. req' \in [Callers -> Request]
      BY IdleOK DEF Answers, RInv, Typed
    <3>2. now' >= now
      BY AccessAssumption DEF RInv, Typed
    <3> QED
      BY <3>1, <3>2 DEF RInv, Typed
  <2>5. CredOK(cred)' /\ (cred.kind = "key" => row'[cred.id].tenant = row[cred.id].tenant)
    BY <2>2, <2>3, <2>4, CredKept
  <2>6. TenantOf(cred)' = TenantOf(cred)
    BY <2>5 DEF TenantOf
  <2>7. res \in Keys => row'[res] # NoRow /\ row'[res].tenant = row[res].tenant
    BY <1>2 DEF KeysGrow
  <2> HIDE DEF reach
  <2>8. CredOK(reached.cred)'
    BY <2>1, <2>5
  <2>9. ReachedOK'
    BY <2>1, <2>3, <2>7, <2>8 DEF ReachedOK, Exists
  <2>10. TenantOf(reached.cred)' = TenantOf(cred)
    BY <2>1, <2>6
  <2>11. ReachedOwn'
    BY <1>2, <2>1, <2>7, <2>10 DEF ReachedOwn
  <2> QED
    BY <2>4, <2>9, <2>11, IdleOK, CallerStep, Zenon DEF Answers
<1> QED
  BY <1>1, <1>2

\* A person may use a route for keys only as an administrator.
LEMMA AdminOnly ==
    ASSUME RInv, NEW c \in Callers, cfg # NoRow, ~cfg.dev, Serves(c, HumanRoutes)
    PROVE  /\ req[c].cred.kind = "user" /\ UserRow[req[c].cred.id].role = "admin"
           /\ req[c].who.tenant = TenantOf(req[c].cred)
<1>1. req[c] \in Request /\ RequestOK(req[c]) /\ req[c].pc = "handle" /\ RequireHumanRole(req[c].who, "admin")
  BY DEF RInv, Typed, Serves, At, Permits
<1>2. WhoIs(req[c].cred, req[c].who) /\ req[c].who.kind # "api_key" /\ CredOK(req[c].cred)
  BY <1>1 DEF RequestOK, RequireHumanRole
<1>3. /\ req[c].cred.kind = "user" /\ req[c].cred.id \in Users /\ UserRow[req[c].cred.id] # NoRow
      /\ req[c].who.tenant = UserRow[req[c].cred.id].tenant /\ req[c].who.role = UserRow[req[c].cred.id].role
  BY <1>2 DEF WhoIs, CredOK
<1>4. UserRow[req[c].cred.id].role \in {"viewer", "operator", "developer", "admin"}
  BY <1>3, AccessAssumption
<1>5. roleLevel[req[c].who.role] >= 4
  BY <1>1 DEF RequireHumanRole, roleLevel
<1>6. req[c].who.role = "admin"
  BY <1>3, <1>4, <1>5 DEF roleLevel
<1> QED
  BY <1>3, <1>6 DEF TenantOf

LEMMA RotateRInv ==
    ASSUME RInv, NEW c \in Callers, RotateAPIKey(c)
    PROVE  RInv'
<1> DEFINE k == req[c].target
<1>1. /\ cfg # NoRow /\ req[c].pc = "handle" /\ req[c].route = "rotateKey" /\ Serves(c, HumanRoutes)
      /\ UNCHANGED <<up, cfg, now>> /\ Answers(c)
  BY DEF RotateAPIKey, Serves, At, HumanRoutes
<1>2. k \in Keys /\ Exists(k) /\ row \in [Keys -> APIKey \cup {NoRow}]
  BY <1>1 DEF RInv, Typed, RequestOK
<1>3. CASE ~Owned(c, k)
  BY <1>1, <1>3, AnswersStep DEF RotateAPIKey
<1>4. CASE Owned(c, k)
  <2>1. row' = [row EXCEPT ![k].secret = @ + 1, ![k].revoked = FALSE, ![k].used = FALSE] /\ Reaches(c, k)
    BY <1>4 DEF RotateAPIKey
  <2> DEFINE a == [row[k] EXCEPT !.secret = @ + 1]
             b == [a EXCEPT !.revoked = FALSE]
             s == [b EXCEPT !.used = FALSE]
  <2>2. row[k] \in APIKey
    BY <1>2 DEF Exists
  <2>3. row[k].secret \in Nat
    BY <2>2 DEF APIKey
  <2>4. row' = [row EXCEPT ![k] = s]
    BY <1>2, <2>1, Zenon
  <2>5. a \in APIKey /\ a.secret = row[k].secret + 1 /\ a.tenant = row[k].tenant /\ a.expires = row[k].expires
    BY <2>2, <2>3 DEF APIKey
  <2> HIDE DEF a
  <2>6. b \in APIKey /\ b.secret = a.secret /\ b.tenant = a.tenant /\ b.expires = a.expires
    BY <2>5, Zenon DEF APIKey
  <2> HIDE DEF b
  <2>9. s \in APIKey /\ s.secret = b.secret /\ s.tenant = b.tenant /\ s.expires = b.expires
    BY <2>6, Zenon DEF APIKey
  <2> HIDE DEF s
  <2>7. row' \in [Keys -> APIKey \cup {NoRow}] /\ KeysGrow
    <3>1. s.secret >= row[k].secret /\ s.secret # row[k].secret
      BY <2>3, <2>5, <2>6, <2>9
    <3> QED
      BY <1>2, <2>4, <2>5, <2>6, <2>9, <3>1, RowStep, Zenon
  <2>8. ~cfg.dev => /\ req[c].cred.kind = "user" /\ UserRow[req[c].cred.id].role = "admin"
                    /\ row[k].tenant = TenantOf(req[c].cred)
    BY <1>1, <1>4, AdminOnly DEF Owned
  <2> QED
    BY <1>1, <1>2, <2>1, <2>7, <2>8, ReachesStep, Zenon
<1> QED
  BY <1>3, <1>4

LEMMA RevokeRInv ==
    ASSUME RInv, NEW c \in Callers, RevokeAPIKey(c)
    PROVE  RInv'
<1> DEFINE k == req[c].target
<1>1. /\ cfg # NoRow /\ req[c].pc = "handle" /\ req[c].route = "revokeKey" /\ Serves(c, HumanRoutes)
      /\ UNCHANGED <<up, cfg, now>> /\ Answers(c)
  BY DEF RevokeAPIKey, Serves, At, HumanRoutes
<1>2. k \in Keys /\ Exists(k) /\ row \in [Keys -> APIKey \cup {NoRow}]
  BY <1>1 DEF RInv, Typed, RequestOK
<1>3. CASE ~(Owned(c, k) /\ ~row[k].revoked)
  BY <1>1, <1>3, AnswersStep DEF RevokeAPIKey
<1>4. CASE Owned(c, k) /\ ~row[k].revoked
  <2>1. row' = [row EXCEPT ![k].revoked = TRUE] /\ Reaches(c, k)
    BY <1>4 DEF RevokeAPIKey
  <2> DEFINE s == [row[k] EXCEPT !.revoked = TRUE]
  <2>2. row[k] \in APIKey
    BY <1>2 DEF Exists
  <2>3. /\ s \in APIKey /\ s.tenant = row[k].tenant /\ s.expires = row[k].expires
        /\ s.secret = row[k].secret /\ s.revoked = TRUE /\ s.secret \in Nat
    BY <2>2, Zenon DEF APIKey
  <2>4. row' = [row EXCEPT ![k] = s]
    BY <1>2, <2>1
  <2> HIDE DEF s
  <2>5. s.secret >= row[k].secret
    BY <2>3
  <2>7. row' \in [Keys -> APIKey \cup {NoRow}] /\ KeysGrow
    BY <1>2, <2>3, <2>4, <2>5, RowStep, Zenon
  <2>8. ~cfg.dev => /\ req[c].cred.kind = "user" /\ UserRow[req[c].cred.id].role = "admin"
                    /\ row[k].tenant = TenantOf(req[c].cred)
    BY <1>1, <1>4, AdminOnly DEF Owned
  <2> QED
    BY <1>1, <1>2, <2>1, <2>7, <2>8, ReachesStep, Zenon
<1> QED
  BY <1>3, <1>4

LEMMA WorkerCallRInv ==
    ASSUME RInv, NEW c \in Callers, WorkerCall(c)
    PROVE  RInv'
<1> DEFINE t == req[c].target
<1>1. /\ cfg # NoRow /\ req[c].pc = "handle" /\ req[c].route = "worker"
      /\ UNCHANGED <<up, cfg, now, row>> /\ Answers(c)
  BY DEF WorkerCall, At
<1>2. /\ t \in Tenants /\ "workers:execute" \in req[c].who.scopes
      /\ ~cfg.dev => WhoIs(req[c].cred, req[c].who)
  BY <1>1 DEF RInv, RequestOK
<1>3. CASE t # req[c].who.tenant
  BY <1>1, <1>3, AnswersStep DEF WorkerCall
<1>4. CASE t = req[c].who.tenant
  <2>1. Reaches(c, t)
    BY <1>4 DEF WorkerCall
  <2>2. t \notin Keys
    BY <1>2, AccessAssumption
  <2>3. ~cfg.dev => req[c].cred.kind = "key" /\ t = TenantOf(req[c].cred)
    BY <1>2, <1>4 DEF WhoIs, TenantOf
  <2>4. row' \in [Keys -> APIKey \cup {NoRow}] /\ KeysGrow
    BY <1>1, SameKeys DEF RInv, Typed
  <2> QED
    BY <1>1, <2>1, <2>2, <2>3, <2>4, ReachesStep
<1> QED
  BY <1>3, <1>4

LEMMA CreateAPIKeyRInv ==
    ASSUME RInv, NEW c \in Callers, CreateAPIKey(c)
    PROVE  RInv'
<1>1. /\ cfg # NoRow /\ req[c].pc = "handle" /\ UNCHANGED <<up, cfg, now, reached>> /\ Answers(c)
  BY DEF CreateAPIKey, Serves, At
<1>2. PICK k \in {k \in Keys : ~Exists(k)}, scopes \in (SUBSET Scopes) \ {{}},
           expires \in {NoRow} \cup (now + 1)..Deployments[up].time :
          row' = [row EXCEPT ![k] = [tenant |-> req[c].who.tenant, secret |-> 1, scopes |-> scopes,
                                     expires |-> expires, revoked |-> FALSE, used |-> FALSE]]
  BY Zenon DEF CreateAPIKey
<1> DEFINE s == [tenant |-> req[c].who.tenant, secret |-> 1, scopes |-> scopes,
                 expires |-> expires, revoked |-> FALSE, used |-> FALSE]
<1>3. req[c].who.tenant \in Tenants
  <2>1. req[c].who \in Principals
    BY <1>1 DEF RInv, RequestOK
  <2> QED
    BY <2>1 DEF Principals
<1>4. expires \in Nat \cup {NoRow}
  <2>1. now \in Nat /\ Deployments[up].time \in Nat
    BY AccessAssumption, DeploymentsAssumption DEF RInv, Typed
  <2>2. expires \in now + 1..Deployments[up].time \/ expires = NoRow
    BY Zenon
  <2>3. now + 1..Deployments[up].time \subseteq Nat
    BY <2>1
  <2> QED
    BY <2>2, <2>3, Zenon
<1>5. s \in APIKey
  BY <1>2, <1>3, <1>4 DEF APIKey
<1> HIDE DEF s
<1>6. row \in [Keys -> APIKey \cup {NoRow}] /\ row' = [row EXCEPT ![k] = s] /\ k \in Keys /\ ~Exists(k)
  BY <1>2 DEF RInv, Typed, s
<1>7. row' \in [Keys -> APIKey \cup {NoRow}]
  BY <1>5, <1>6
<1>8. KeysGrow
  <2>1. ASSUME NEW l \in Keys, Exists(l) PROVE row[l].secret \in Nat /\ row'[l] = row[l]
    BY <1>6, <2>1 DEF Exists, APIKey
  <2> QED
    BY <2>1 DEF KeysGrow, Exists
<1> QED
  BY <1>1, <1>7, <1>8, IdleOK, KeysStep, Zenon DEF Answers

\* Steps of the dashboard's changes and hints, of Redis and of the clock.
LEMMA QuietRInv ==
    ASSUME RInv, \/ \E c \in Callers : Deliver(c)
                 \/ Change \/ Publish \/ HintLost \/ RedisFails \/ RedisRestarts \/ Tick
                 \/ UNCHANGED vars
    PROVE  RInv'
<1>1. UNCHANGED <<up, cfg, row, req, reached>>
  BY Zenon DEF Deliver, Change, Publish, HintLost, RedisFails, RedisRestarts, Tick, vars
<1>2. now \in Nat /\ now' \in 0..MaxTime /\ now' >= now
  <2>1. now \in Nat /\ now \in 0..MaxTime /\ Deployments[up].time \in 0..MaxTime /\ MaxTime \in Nat
    BY AccessAssumption, DeploymentsAssumption DEF RInv, Typed
  <2>2. CASE Tick
    BY <2>1, <2>2 DEF Tick
  <2>3. CASE now' = now
    BY <2>1, <2>3
  <2> QED
    BY <2>2, <2>3, Zenon DEF Deliver, Change, Publish, HintLost, RedisFails, RedisRestarts, vars
<1>3. Typed' /\ KeysGrow
  BY <1>1, <1>2, SameKeys DEF RInv, Typed
<1> QED
  BY <1>1, <1>2, <1>3, QuietStep

LEMMA NextRInv ==
    ASSUME RInv, [Next]_vars
    PROVE  RInv'
<1>1. ASSUME NEW c \in Callers,
             \/ Arrive(c) \/ Authenticate(c) \/ Touch(c) \/ Limit(c) \/ Forbidden(c) \/ Handle(c)
             \/ CreateAPIKey(c) \/ CreateFails(c) \/ RotateAPIKey(c) \/ RevokeAPIKey(c) \/ WorkerCall(c)
             \/ Subscribe(c) \/ Upgrade(c) \/ Deliver(c) \/ Close(c)
      PROVE  RInv'
  BY <1>1, ArriveRInv, AuthenticateRInv, TouchRInv, LimitRInv, AnsweredRInv, CreateAPIKeyRInv, RotateRInv,
     RevokeRInv, WorkerCallRInv, SubscribeRInv, UpgradeRInv, QuietRInv
<1> QED
  BY <1>1, QuietRInv DEF Next

\* A configuration that Load returns has positive limits, and in production no open limiter.
LEMMA LoadOK ==
    ASSUME NEW d \in DOMAIN Deployments, NEW e \in Deployments[d].envs, Load(e) # NoRow
    PROVE  Load(e) \in Config /\ (Load(e).dev \/ ~Load(e).failOpen)
<1> DEFINE dev == envBool(e.dev, FALSE)
           failOpen == envBool(e.failOpen, dev)
           rate == envNumber(e, "rate")
           burst == envNumber(e, "burst")
<1>1. dev \in BOOLEAN /\ failOpen \in BOOLEAN
  BY Zenon DEF envBool
<1>2. rate \in Int /\ burst \in Int
  BY AccessAssumption, DeploymentsAssumption DEF envNumber
<1>3. /\ dev \/ ~failOpen
      /\ rate > 0 /\ burst > 0
      /\ Load(e) = [dev |-> dev, failOpen |-> failOpen, rate |-> rate, burst |-> burst]
  <2> DEFINE N(k) == envNumber(e, k)
             valid == /\ e.malformed = {}
                      /\ dev \/ {"internalToken", "issuer", "jwks", "pepper"} \subseteq e.secrets
                      /\ N("rate") > 0 /\ N("burst") > 0
                      /\ N("batch") > 0 /\ N("claim") > 0 /\ N("publish") > 0 /\ N("publish") < N("claim")
                      /\ dev \/ ~failOpen
                      /\ N("presign") > 0 /\ N("presign") <= 3600
                      /\ (("accessKey" \in e.secrets) <=> ("secretKey" \in e.secrets))
  <2>1. Load(e) = IF valid THEN [dev |-> dev, failOpen |-> failOpen, rate |-> rate, burst |-> burst] ELSE NoRow
    BY Zenon DEF Load
  <2> HIDE DEF dev, failOpen
  <2>2. valid => dev \/ ~failOpen
    OBVIOUS
  <2>3. valid => rate > 0 /\ burst > 0
    OBVIOUS
  <2> HIDE DEF valid, rate, burst
  <2> QED
    BY <2>1, <2>2, <2>3
<1> HIDE DEF dev, failOpen, rate, burst
<1>4. Load(e) \in Config
  BY <1>1, <1>2, <1>3 DEF Config
<1>5. Load(e).dev = dev /\ Load(e).failOpen = failOpen
  BY <1>3
<1> QED
  BY <1>3, <1>4, <1>5, Zenon

LEMMA InitRInv ==
    ASSUME Init
    PROVE  RInv
<1>1. cfg # NoRow => cfg \in Config /\ (cfg.dev \/ ~cfg.failOpen)
  BY LoadOK DEF Init
<1>2. now \in 0..MaxTime /\ row \in [Keys -> APIKey \cup {NoRow}]
  BY AccessAssumption, DeploymentsAssumption DEF Init
<1>3. ASSUME NEW c \in Callers PROVE req[c] = Idle /\ req[c] \in Request /\ RequestOK(req[c])
  BY IdleOK DEF Init
<1>4. Typed
  BY <1>1, <1>2, <1>3 DEF Init, Typed
<1>5. ReachedOK /\ ReachedOwn
  BY DEF Init, ReachedOK, ReachedOwn
<1> QED
  BY <1>3, <1>4, <1>5 DEF RInv

\* The invariant for requests holds in every reachable state.
THEOREM RequestInvariance == Spec => []RInv
<1>1. Init => RInv
  BY InitRInv
<1>2. RInv /\ [Next]_vars => RInv'
  BY NextRInv
<1> QED
  BY <1>1, <1>2, PTL DEF Spec

\* Authentication gives no principal to a request that arrived with a dead secret, however its key
\* is rotated, re-enabled or revoked meanwhile: a secret that is dead once stays dead.
THEOREM DeadIsRefused == Spec => []DeadTokenRefused
<1>1. RInv => DeadTokenRefused
  <2> SUFFICES ASSUME RInv, NEW c \in Callers, req[c].dead, ~cfg.dev \/ req[c].route \in WorkerRoutes
               PROVE  req[c].pc = "authenticate"
    BY DEF DeadTokenRefused
  <2>1. RequestOK(req[c])
    BY DEF RInv
  <2>2. ~Idle.dead
    BY Zenon DEF Idle
  <2>3. req[c].pc # "idle"
    BY <2>1, <2>2 DEF RequestOK
  <2> QED
    BY <2>1, <2>3 DEF RequestOK
<1> QED
  BY <1>1, RequestInvariance, PTL

\* RotateAPIKey, RevokeAPIKey and the worker routes reach only what belongs to the credential's
\* tenant, and keys only for its administrators.
THEOREM OwnIsReached == Spec => []ReachedOwn
<1>1. RInv => ReachedOwn
  BY DEF RInv
<1> QED
  BY <1>1, RequestInvariance, PTL

-----------------------------------------------------------------------------
(* The token bucket: arithmetic                                            *)

\* The least of two, and the greatest.
LEMMA MinPair ==
    ASSUME NEW a \in Int, NEW b \in Int
    PROVE  Min({a, b}) \in {a, b} /\ Min({a, b}) <= a /\ Min({a, b}) <= b
<1>1. \E x \in {a, b} : \A y \in {a, b} : x <= y
  <2>1. CASE a <= b
    BY <2>1
  <2>2. CASE b <= a
    BY <2>2
  <2> QED
    BY <2>1, <2>2
<1>2. Min({a, b}) = CHOOSE x \in {a, b} : \A y \in {a, b} : x <= y
  BY DEF Min
<1> QED
  BY <1>1, <1>2

LEMMA MaxPair ==
    ASSUME NEW a \in Int, NEW b \in Int
    PROVE  Max({a, b}) \in {a, b} /\ Max({a, b}) >= a /\ Max({a, b}) >= b
<1>1. \E x \in {a, b} : \A y \in {a, b} : x >= y
  <2>1. CASE a >= b
    BY <2>1
  <2>2. CASE b >= a
    BY <2>2
  <2> QED
    BY <2>1, <2>2
<1>2. Max({a, b}) = CHOOSE x \in {a, b} : \A y \in {a, b} : x >= y
  BY DEF Max
<1> QED
  BY <1>1, <1>2

LEMMA LeastIs ==
    ASSUME NEW a \in Nat, NEW b \in Nat, NEW m, m = Min({a, b})
    PROVE  m \in Nat /\ m <= a /\ m <= b /\ (m = a \/ m = b)
<1>1. a \in Int /\ b \in Int
  OBVIOUS
<1>2. m \in {a, b} /\ m <= a /\ m <= b
  BY <1>1, MinPair
<1> QED
  BY <1>2

\* Multiplication keeps an order.
LEMMA TimesMonotonic ==
    ASSUME NEW a \in Int, NEW b \in Int, a <= b, NEW n \in Nat
    PROVE  a * n <= b * n
OBVIOUS

\* Division rounds down.
LEMMA DivisionBounds ==
    ASSUME NEW a \in Nat, NEW b \in Nat \ {0}
    PROVE  a \div b \in Nat /\ (a \div b) * b <= a /\ a < (a \div b) * b + b
OBVIOUS

\* Rounded up, something is never nothing.
LEMMA CeilPositive ==
    ASSUME NEW n \in Nat \ {0}, NEW rate \in Nat \ {0}
    PROVE  Ceil(n, rate) \in Nat /\ Ceil(n, rate) >= 1
<1>1. PICK a \in Nat : a = n + rate - 1
  <2>1. n + rate - 1 \in Nat
    OBVIOUS
  <2> QED
    BY <2>1
<1>2. PICK q : q = a \div rate
  OBVIOUS
<1>3. q \in Nat /\ a < q * rate + rate
  BY <1>2, DivisionBounds
<1>4. q # 0
  <2>1. 0 * rate + rate = rate
    OBVIOUS
  <2> QED
    BY <1>1, <1>3, <2>1
<1>5. Ceil(n, rate) = q
  BY <1>1, <1>2 DEF Ceil
<1> QED
  BY <1>3, <1>4, <1>5

\* A bucket that Redis has expired would be full again.
LEMMA ExpiredIsFull ==
    ASSUME NEW x \in Nat, NEW rate \in Nat \ {0}, NEW T \in Nat \ {0}, NEW burst \in Nat \ {0},
           (x * 1000) \div T >= Ceil(burst * 2000, rate)
    PROVE  x * rate >= burst * T
<1> DEFINE q == (x * 1000) \div T
           e == (burst * 2000 + rate - 1) \div rate
<1>1. q \in Nat /\ q * T <= x * 1000
  <2>1. x * 1000 \in Nat
    OBVIOUS
  <2> QED
    BY <2>1, DivisionBounds
<1>2. e \in Nat /\ e * rate >= burst * 2000
  <2>1. burst * 2000 + rate - 1 \in Nat
    OBVIOUS
  <2>2. e \in Nat /\ burst * 2000 + rate - 1 < e * rate + rate
    BY <2>1, DivisionBounds
  <2>3. e * rate \in Nat
    BY <2>2
  <2> HIDE DEF e
  <2> QED
    BY <2>2, <2>3
<1>3. q >= e
  BY DEF Ceil
<1> HIDE DEF q, e
<1>4. e * T <= q * T
  BY <1>1, <1>2, <1>3, TimesMonotonic
<1>5. e * T <= x * 1000 /\ e * T \in Nat
  BY <1>1, <1>2, <1>4
<1>6. (e * T) * rate <= (x * 1000) * rate
  BY <1>5, TimesMonotonic
<1>7. (burst * 2000) * T <= (e * rate) * T
  BY <1>2, TimesMonotonic
<1>8. (e * rate) * T = (e * T) * rate
  BY <1>2
<1>9. (burst * T) * 2000 <= (x * rate) * 1000
  BY <1>2, <1>6, <1>7, <1>8
<1>10. burst * T \in Nat /\ x * rate \in Nat
  OBVIOUS
<1> QED
  BY <1>9, <1>10

-----------------------------------------------------------------------------
(* The token bucket: what a bucket holds                                   *)

\* The limits of the configuration.
LEMMA LimitsOK ==
    ASSUME Typed, cfg # NoRow
    PROVE  /\ cfg.rate \in Nat \ {0} /\ cfg.burst \in Nat \ {0} /\ now \in Nat /\ One \in Nat \ {0}
           /\ cfg.burst * One \in Nat /\ One <= cfg.burst * One
           /\ cfg.dev \/ ~cfg.failOpen
<1>1. cfg.rate \in Nat \ {0} /\ cfg.burst \in Nat \ {0}
  BY DEF Typed, Config
<1>2. now \in Nat /\ One \in Nat \ {0}
  BY AccessAssumption DEF Typed, One
<1>3. cfg.burst * One \in Nat /\ 1 * One <= cfg.burst * One
  BY <1>1, <1>2, TimesMonotonic
<1> QED
  BY <1>1, <1>2, <1>3 DEF Typed

\* The bucket that is not there is full.
LEMMA NoBucketFull == Tokens(NoBucket) = cfg.burst * One
BY DEF Tokens, Absent, NoBucket

\* A bucket never holds more than a burst.
LEMMA TokensOK ==
    ASSUME Typed, cfg # NoRow, NEW b, BucketOK(b)
    PROVE  Tokens(b) \in Nat /\ Tokens(b) <= cfg.burst * One
<1>1. CASE Absent(b)
  BY <1>1, LimitsOK DEF Tokens
<1>2. CASE ~Absent(b)
  <2>1. b # NoBucket
    BY <1>2 DEF Absent, NoBucket
  <2>2. /\ b.tokens \in Int /\ b.updated \in Int /\ 0 <= b.tokens
        /\ 0 <= b.updated /\ b.updated <= now
    BY <2>1 DEF BucketOK, Bucket
  <2> DEFINE n == b.tokens + (now - b.updated) * cfg.rate
  <2>3. n \in Nat
    <3>1. now - b.updated \in Nat /\ cfg.rate \in Nat
      BY <2>2, LimitsOK
    <3>2. (now - b.updated) * cfg.rate \in Nat
      BY <3>1
    <3> QED
      BY <2>2, <3>2
  <2>4. Tokens(b) = Min({cfg.burst * One, n})
    BY <1>2 DEF Tokens
  <2>5. cfg.burst * One \in Nat
    BY LimitsOK
  <2> HIDE DEF n
  <2> QED
    BY <2>3, <2>4, <2>5, LeastIs
<1> QED
  BY <1>1, <1>2

\* A bucket that was just written holds what was written.
LEMMA WrittenTokens ==
    ASSUME Typed, cfg # NoRow, NEW b \in Bucket, b.updated = now, 0 <= b.tokens, b.tokens <= cfg.burst * One
    PROVE  Tokens(b) = b.tokens
<1>1. Milliseconds(now - b.updated) = 0
  <2>1. now - b.updated = 0
    BY LimitsOK
  <2>2. (0 * 1000) \div TicksPerSecond = 0
    <3>1. 0 * 1000 = 0 /\ TicksPerSecond \in Nat \ {0}
      BY AccessAssumption
    <3> QED
      BY <3>1
  <2> QED
    BY <2>1, <2>2 DEF Milliseconds
<1>2. Expire \in Nat /\ Expire >= 1
  <2>1. PICK n \in Nat \ {0} : n = cfg.burst * 2000
    BY LimitsOK
  <2>2. Ceil(n, cfg.rate) \in Nat /\ Ceil(n, cfg.rate) >= 1
    BY LimitsOK, CeilPositive
  <2>3. Expire = Ceil(n, cfg.rate)
    BY <2>1 DEF Expire
  <2> QED
    BY <2>2, <2>3
<1>3. ~Absent(b)
  BY <1>1, <1>2, LimitsOK DEF Absent
<1>4. Tokens(b) = Min({cfg.burst * One, b.tokens})
  <2>1. b.tokens + (now - b.updated) * cfg.rate = b.tokens
    <3>1. now - b.updated = 0 /\ b.tokens \in Int
      BY LimitsOK DEF Bucket
    <3>2. 0 * cfg.rate = 0
      BY LimitsOK
    <3> QED
      BY <3>1, <3>2
  <2> QED
    BY <1>3, <2>1 DEF Tokens
<1>5. b.tokens \in Int /\ cfg.burst * One \in Int
  BY LimitsOK DEF Bucket
<1>6. Tokens(b) \in {cfg.burst * One, b.tokens} /\ Tokens(b) <= b.tokens
  BY <1>4, <1>5, MinPair, Zenon
<1> QED
  BY <1>5, <1>6

\* A tick adds at most the rate, also when Redis expires the bucket.
LEMMA TickTokens ==
    ASSUME Typed, Typed', cfg # NoRow, cfg' = cfg, now' = now + 1, NEW b, BucketOK(b)
    PROVE  /\ BucketOK(b)' /\ Tokens(b)' \in Nat
           /\ Tokens(b)' <= cfg.burst * One /\ Tokens(b)' <= Tokens(b) + cfg.rate
<1> DEFINE full == cfg.burst * One
<1>1. /\ cfg.rate \in Nat \ {0} /\ cfg.burst \in Nat \ {0} /\ now \in Nat /\ One \in Nat \ {0} /\ full \in Nat
      /\ Tokens(b) \in Nat /\ Tokens(b) <= full
  BY LimitsOK, TokensOK
<1>2. BucketOK(b)'
  <2>1. b \in Bucket => b.updated \in Int
    BY DEF Bucket
  <2> QED
    BY <1>1, <2>1 DEF BucketOK
<1>3. CASE b = NoBucket
  <2>1. Absent(b) /\ Absent(b)'
    BY <1>3 DEF Absent, NoBucket
  <2>2. Tokens(b) = full /\ Tokens(b)' = full
    BY <2>1 DEF Tokens, One
  <2>3. full <= full + cfg.rate
    BY <1>1
  <2> QED
    BY <1>1, <1>2, <2>2, <2>3
<1>4. CASE b # NoBucket
  <2>1. /\ b.tokens \in Int /\ b.updated \in Int /\ 0 <= b.tokens
        /\ 0 <= b.updated /\ b.updated <= now
    BY <1>4 DEF BucketOK, Bucket
  <2>2. PICK x \in Nat : x = now - b.updated
    BY <1>1, <2>1
  <2>14. PICK y \in Nat : y = x + 1
    OBVIOUS
  <2>3. now' - b.updated = y
    BY <1>1, <2>1, <2>2, <2>14
  <2>4. PICK n \in Nat : n = b.tokens + x * cfg.rate
    <3>1. x * cfg.rate \in Nat
      BY <1>1
    <3>2. b.tokens + x * cfg.rate \in Nat
      BY <2>1, <3>1
    <3> QED
      BY <3>2
  <2>5. PICK m \in Nat : m = b.tokens + y * cfg.rate /\ m = n + cfg.rate /\ y * cfg.rate <= m
    <3>1. x * cfg.rate \in Nat /\ y * cfg.rate = x * cfg.rate + cfg.rate
      <4>1. ASSUME NEW r \in Nat PROVE x * r \in Nat /\ (x + 1) * r = x * r + r
        OBVIOUS
      <4> QED
        BY <1>1, <2>14, <4>1, Zenon
    <3>2. /\ n + cfg.rate \in Nat /\ n + cfg.rate = b.tokens + y * cfg.rate
          /\ y * cfg.rate <= n + cfg.rate
      BY <1>1, <2>1, <2>4, <3>1
    <3> QED
      BY <3>2
  <2>6. Tokens(b) = IF Absent(b) THEN full ELSE Min({full, n})
    BY <2>2, <2>4 DEF Tokens
  <2>7. Tokens(b)' = IF Absent(b)' THEN full ELSE Min({full, m})
    BY <2>3, <2>5 DEF Tokens, One
  <2>8. Absent(b)' => full <= m
    <3> SUFFICES ASSUME Absent(b)' PROVE full <= m
      OBVIOUS
    <3>1. (y * 1000) \div One >= Ceil(cfg.burst * 2000, cfg.rate)
      BY <2>1, <2>3 DEF Absent, Milliseconds, Expire, One, Ceil
    <3>2. y * cfg.rate >= full
      BY <1>1, <3>1, ExpiredIsFull
    <3>3. y * cfg.rate \in Nat
      BY <1>1
    <3> HIDE DEF full
    <3> QED
      BY <1>1, <2>5, <3>2, <3>3
  <2> HIDE DEF full
  <2>9. PICK i : i = Min({full, n})
    OBVIOUS
  <2>10. PICK j : j = Min({full, m})
    OBVIOUS
  <2>11. i \in Nat /\ (i = full \/ i = n)
    BY <1>1, <2>9, LeastIs
  <2>12. j \in Nat /\ j <= full /\ j <= m
    BY <1>1, <2>10, LeastIs
  <2>13. Tokens(b)' \in Nat /\ Tokens(b)' <= full /\ Tokens(b)' <= Tokens(b) + cfg.rate
    BY <1>1, <2>5, <2>6, <2>7, <2>8, <2>9, <2>10, <2>11, <2>12
  <2> QED
    BY <1>2, <2>13 DEF full
<1> QED
  BY <1>3, <1>4

-----------------------------------------------------------------------------
(* The token bucket: the bound on what is let through                      *)

\* The bound grows by a burst when Redis restarts, and is a burst at least.
LEMMA BoundGrows ==
    ASSUME NEW R \in Nat, NEW B \in Nat, NEW T \in Nat
    PROVE  /\ (1 + R) * B * T \in Nat /\ B * T <= (1 + R) * B * T
           /\ (1 + (R + 1)) * B * T = (1 + R) * B * T + B * T
<1>1. R * B * T \in Nat /\ B * T \in Nat
  OBVIOUS
<1>2. (1 + R) * B * T = B * T + R * B * T
  OBVIOUS
<1>3. (1 + (R + 1)) * B * T = B * T + B * T + R * B * T
  OBVIOUS
<1> QED
  BY <1>1, <1>2, <1>3

\* A longer window allows the rate more.
LEMMA WindowGrows ==
    ASSUME NEW n \in Int, NEW s \in Int, NEW rate \in Nat
    PROVE  (n - s) * rate \in Int /\ (n + 1 - s) * rate = (n - s) * rate + rate
OBVIOUS

\* Tokens depend on the configuration, the clock and the bucket.
LEMMA SameTokens ==
    ASSUME cfg' = cfg, now' = now, NEW b
    PROVE  Tokens(b)' = Tokens(b) /\ (BucketOK(b) => BucketOK(b)')
<1>1. Absent(b)' <=> Absent(b)
  BY DEF Absent, Milliseconds, Expire, Ceil
<1> QED
  BY <1>1 DEF Tokens, BucketOK, One

\* Steps that leave limiter and clock alone.
LEMMA SameTInv ==
    ASSUME TInv, UNCHANGED <<cfg, now, bucket, restarts, admits>>
    PROVE  TInv'
<1>1. ASSUME NEW t \in Tenants, BucketOK(bucket[t]) PROVE BucketOK(bucket[t])'
  BY <1>1, SameTokens
<1>2. ASSUME NEW t \in Tenants, NEW s, WindowOK(t, s) PROVE WindowOK(t, s)'
  <2>1. Tokens(bucket[t])' = Tokens(bucket[t])
    BY SameTokens
  <2> QED
    BY <1>2, <2>1 DEF WindowOK, One
<1> QED
  BY <1>1, <1>2 DEF TInv

LEMMA TickTInv ==
    ASSUME RInv, RInv', TInv, Tick
    PROVE  TInv'
<1>1. cfg # NoRow /\ now' = now + 1 /\ UNCHANGED <<cfg, bucket, restarts, admits>>
  BY DEF Tick
<1>2. now \in 0..MaxTime /\ now' \in 0..MaxTime /\ MaxTime \in Nat /\ Typed /\ Typed'
  BY AccessAssumption DEF RInv, Typed
<1>3. ASSUME NEW t \in Tenants, NEW s \in 0..MaxTime, s > now' PROVE admits'[t][s] = 0
  BY <1>1, <1>2, <1>3 DEF TInv
<1>4. ASSUME NEW t \in Tenants
      PROVE  /\ BucketOK(bucket[t])'
             /\ ~cfg.dev => \A s \in 0..now' : WindowOK(t, s)'
  <2>1. BucketOK(bucket[t]) /\ (~cfg.dev => \A s \in 0..now : WindowOK(t, s))
    BY <1>1 DEF TInv
  <2>2. Tokens(bucket[t]) \in Nat /\ Tokens(bucket[t]) <= cfg.burst * One
    BY <1>1, <1>2, <2>1, TokensOK
  <2>3. PICK b : b = bucket[t] /\ b = bucket'[t]
    BY <1>1
  <2>4. /\ BucketOK(b)' /\ Tokens(b)' \in Nat
        /\ Tokens(b)' <= cfg.burst * One /\ Tokens(b)' <= Tokens(b) + cfg.rate
    BY <1>1, <1>2, <2>1, <2>3, TickTokens
  <2>5. /\ BucketOK(bucket[t])' /\ Tokens(bucket[t])' \in Nat
        /\ Tokens(bucket[t])' <= cfg.burst * One /\ Tokens(bucket[t])' <= Tokens(bucket[t]) + cfg.rate
    BY <2>3, <2>4
  <2>6. ASSUME ~cfg.dev, NEW s \in 0..now' PROVE WindowOK(t, s)'
    <3>1. PICK full \in Nat, bound \in Nat : /\ full = cfg.burst * One /\ full <= bound
                                             /\ bound = (1 + restarts) * cfg.burst * One
      BY <1>1, <1>2, LimitsOK, BoundGrows DEF TInv
    <3>2. PICK a \in Nat : a = admits[t][s]
      BY <1>1, <1>2 DEF TInv
    <3>3. a * One + Tokens(bucket[t])' <= bound + (now' - s) * cfg.rate
      <4>1. CASE s = now'
        <5>1. a = 0 /\ a * One = 0 /\ (now' - s) * cfg.rate = 0
          <6>1. a = 0
            BY <1>1, <1>2, <3>2, <4>1 DEF TInv
          <6>2. now' - s = 0 /\ 0 * One = 0 /\ 0 * cfg.rate = 0
            BY <1>1, <1>2, <4>1, LimitsOK
          <6> QED
            BY <6>1, <6>2
        <5> QED
          BY <2>5, <3>1, <5>1
      <4>2. CASE s # now'
        <5>1. s \in 0..now
          BY <1>1, <1>2, <4>2
        <5>2. a * One + Tokens(bucket[t]) <= bound + (now - s) * cfg.rate
          BY <2>1, <2>6, <3>1, <3>2, <5>1 DEF WindowOK
        <5>3. PICK x \in Int, y \in Int : x = (now - s) * cfg.rate /\ y = (now' - s) * cfg.rate /\ y = x + cfg.rate
          BY <1>1, <1>2, LimitsOK, WindowGrows
        <5>4. a * One \in Nat /\ cfg.rate \in Nat
          BY <1>1, <1>2, LimitsOK
        <5> QED
          BY <2>2, <2>5, <3>1, <5>2, <5>3, <5>4
      <4> QED
        BY <4>1, <4>2
    <3> QED
      BY <1>1, <3>1, <3>2, <3>3 DEF WindowOK, One
  <2> QED
    BY <2>5, <2>6
<1> QED
  BY <1>1, <1>3, <1>4 DEF TInv

LEMMA RedisFailsTInv ==
    ASSUME RInv, TInv, RedisFails
    PROVE  TInv'
<1>1. /\ cfg # NoRow /\ restarts' = restarts + 1 /\ bucket' = [t \in Tenants |-> NoBucket]
      /\ UNCHANGED <<cfg, now, admits>>
  BY DEF RedisFails
<1>2. NoBucket \in Bucket /\ restarts' \in Nat /\ Typed
  BY <1>1 DEF NoBucket, NoRetry, Bucket, TInv, RInv
<1>3. ASSUME NEW t \in Tenants
      PROVE  /\ BucketOK(bucket[t])'
             /\ ~cfg.dev => \A s \in 0..now' : WindowOK(t, s)'
  <2>1. BucketOK(bucket[t]) /\ (~cfg.dev => \A s \in 0..now : WindowOK(t, s))
    BY <1>1 DEF TInv
  <2>2. Tokens(bucket[t]) \in Nat
    BY <1>1, <1>2, <2>1, TokensOK
  <2>3. bucket'[t] = NoBucket
    BY <1>1
  <2>4. Tokens(NoBucket)' = cfg.burst * One
    BY <1>1, NoBucketFull, SameTokens
  <2>5. Tokens(bucket[t])' = cfg.burst * One
    BY <2>3, <2>4
  <2>6. ASSUME ~cfg.dev, NEW s \in 0..now' PROVE WindowOK(t, s)'
    <3>1. PICK full \in Nat, bound \in Nat : /\ full = cfg.burst * One /\ bound = (1 + restarts) * cfg.burst * One
                                             /\ (1 + restarts') * cfg.burst * One = bound + full
      <4>1. PICK R \in Nat : R = restarts
        BY DEF TInv
      <4>2. cfg.burst \in Nat /\ One \in Nat /\ cfg.burst * One \in Nat
        BY <1>1, <1>2, LimitsOK
      <4>3. /\ (1 + R) * cfg.burst * One \in Nat
            /\ (1 + (R + 1)) * cfg.burst * One = (1 + R) * cfg.burst * One + cfg.burst * One
        BY <4>2, BoundGrows
      <4>4. restarts' = R + 1
        BY <1>1, <4>1
      <4> QED
        BY <4>1, <4>2, <4>3, <4>4, Zenon
    <3>2. PICK a \in Nat : a = admits[t][s]
      <4>1. s \in 0..MaxTime
        <5>1. now \in 0..MaxTime /\ s \in 0..now
          BY <1>1, <1>2 DEF Typed
        <5> QED
          BY <5>1, AccessAssumption
      <4> QED
        BY <4>1, Zenon DEF TInv
    <3>3. a * One + Tokens(bucket[t]) <= bound + (now - s) * cfg.rate
      BY <1>1, <2>1, <2>6, <3>1, <3>2 DEF WindowOK
    <3>4. a * One \in Nat /\ (now - s) * cfg.rate \in Int
      <4>1. One \in Nat /\ cfg.rate \in Nat /\ now - s \in Int
        BY <1>1, <1>2, LimitsOK
      <4> QED
        BY <4>1
    <3>5. a * One + full <= bound + full + (now - s) * cfg.rate
      <4>1. PICK x \in Nat, y \in Int : x = a * One /\ y = (now - s) * cfg.rate
        BY <3>4
      <4> QED
        BY <2>2, <3>1, <3>3, <4>1
    <3> QED
      BY <1>1, <2>5, <3>1, <3>2, <3>5 DEF WindowOK, One
  <2> QED
    BY <2>3, <2>6 DEF BucketOK
<1> QED
  BY <1>1, <1>2, <1>3 DEF TInv

\* The seconds a rejected tenant is told to wait are one at least.
LEMMA RetryAfterOK ==
    ASSUME Typed, cfg # NoRow, NEW tokens \in Nat, tokens < One
    PROVE  RetryAfter(tokens) \in Int /\ RetryAfter(tokens) >= 1
<1>1. PICK n \in Nat \ {0} : n = (One - tokens) * 1000
  BY LimitsOK
<1>2. PICK r \in Nat \ {0} : r = One * cfg.rate
  BY LimitsOK
<1>3. PICK q \in Nat : q = Ceil(n, r)
  BY CeilPositive
<1>4. PICK w \in Int : w = (q + 500) \div 1000
  OBVIOUS
<1>5. RetryAfter(tokens) = Max({1, w})
  BY <1>1, <1>2, <1>3, <1>4 DEF RetryAfter
<1> QED
  BY <1>5, MaxPair

\* tokenBucketScript takes a token when there is one, and writes what is left.
LEMMA AllowOK ==
    ASSUME Typed, TInv, cfg # NoRow, NEW t \in Tenants, Allow(t)
    PROVE  \E s \in Bucket :
              /\ bucket' = [bucket EXCEPT ![t] = s] /\ BucketOK(s)
              /\ Tokens(s) = IF Tokens(bucket[t]) >= One THEN Tokens(bucket[t]) - One ELSE Tokens(bucket[t])
<1>1. PICK tokens : tokens = Tokens(bucket[t])
  OBVIOUS
<1>2. BucketOK(bucket[t])
  BY DEF TInv
<1>3. tokens \in Nat /\ tokens <= cfg.burst * One
  BY <1>1, <1>2, TokensOK
<1>4. One \in Nat \ {0} /\ now \in Nat /\ cfg.burst * One \in Nat
  BY LimitsOK
<1>5. PICK left \in Nat, retry \in Int :
        /\ left = IF tokens >= One THEN tokens - One ELSE tokens
        /\ retry = IF tokens >= One THEN NoRetry ELSE RetryAfter(tokens)
        /\ retry = NoRetry \/ retry >= 1
        /\ left <= cfg.burst * One
  <2>1. CASE tokens >= One
    <3>1. tokens - One \in Nat /\ tokens - One <= cfg.burst * One /\ NoRetry \in Int
      BY <1>3, <1>4, <2>1 DEF NoRetry
    <3> QED
      BY <2>1, <3>1
  <2>2. CASE ~(tokens >= One)
    <3>1. RetryAfter(tokens) \in Int /\ RetryAfter(tokens) >= 1
      BY <1>3, <1>4, <2>2, RetryAfterOK
    <3> QED
      BY <1>3, <2>2, <3>1
  <2> QED
    BY <2>1, <2>2
<1>6. PICK s : s = [tokens |-> left, updated |-> now, retry |-> retry]
  BY Zenon
<1>7. s \in Bucket /\ s.tokens = left /\ s.updated = now /\ s.retry = retry
  BY <1>4, <1>6 DEF Bucket
<1>8. bucket' = [bucket EXCEPT ![t] = s]
  BY <1>1, <1>5, <1>6, Zenon DEF Allow
<1>9. BucketOK(s)
  BY <1>4, <1>5, <1>7 DEF BucketOK
<1>10. Tokens(s) = left
  BY <1>5, <1>7, WrittenTokens
<1> QED
  BY <1>1, <1>5, <1>7, <1>8, <1>9, <1>10, Zenon

\* In production a request is let through only for a token.
LEMMA LimitTInv ==
    ASSUME RInv, TInv, NEW c \in Callers, Limit(c)
    PROVE  TInv'
<1>1. PICK t : t = req[c].who.tenant
  OBVIOUS
<1>2. PICK through : through = IF redis THEN Tokens(bucket[t]) >= One ELSE cfg.failOpen
  OBVIOUS
<1>3. /\ cfg # NoRow /\ req[c].pc = "limit" /\ UNCHANGED <<up, cfg, now, restarts>>
      /\ IF redis THEN Allow(t) ELSE UNCHANGED bucket
  BY <1>1, Zenon DEF Limit, At
<1>4. admits' = IF through /\ ~cfg.dev
                THEN [admits EXCEPT ![t] = [s \in 0..MaxTime |-> IF s <= now THEN @[s] + 1 ELSE @[s]]]
                ELSE admits
  BY <1>1, <1>2, Zenon DEF Limit
<1>5. Typed /\ t \in Tenants
  <2>1. req[c].who \in Principals
    BY <1>3, Zenon DEF RInv, RequestOK
  <2> QED
    BY <1>1, <2>1 DEF RInv, Principals
<1>6. PICK b : b = bucket[t]
  OBVIOUS
<1>7. PICK s \in Bucket : /\ bucket' = [bucket EXCEPT ![t] = s] /\ BucketOK(s)
                          /\ ~cfg.dev => Tokens(s) = IF through THEN Tokens(b) - One ELSE Tokens(b)
  <2>1. CASE redis
    BY <1>2, <1>3, <1>5, <1>6, <2>1, AllowOK, Zenon
  <2>2. CASE ~redis
    <3>1. bucket' = [bucket EXCEPT ![t] = b] /\ b \in Bucket /\ BucketOK(b)
      BY <1>3, <1>5, <1>6, <2>2 DEF TInv
    <3>2. ~cfg.dev => ~through
      BY <1>2, <1>3, <1>5, <2>2, LimitsOK
    <3> QED
      BY <3>1, <3>2, Zenon
  <2> QED
    BY <2>1, <2>2
<1>8. /\ admits' \in [Tenants -> [0..MaxTime -> Nat]]
      /\ \A u \in Tenants : \A x \in 0..MaxTime :
            admits'[u][x] = IF through /\ ~cfg.dev /\ u = t /\ x <= now THEN admits[u][x] + 1 ELSE admits[u][x]
  <2>1. CASE ~(through /\ ~cfg.dev)
    BY <1>4, <2>1 DEF TInv
  <2>2. CASE through /\ ~cfg.dev
    <3>1. PICK f : f = [x \in 0..MaxTime |-> IF x <= now THEN admits[t][x] + 1 ELSE admits[t][x]]
      BY Zenon
    <3>2. admits \in [Tenants -> [0..MaxTime -> Nat]] /\ admits' = [admits EXCEPT ![t] = f]
      BY <1>4, <1>5, <2>2, <3>1 DEF TInv
    <3>3. f \in [0..MaxTime -> Nat]
      <4>1. PICK g \in [0..MaxTime -> Nat] : g = admits[t]
        BY <1>5 DEF TInv
      <4>2. f = [x \in 0..MaxTime |-> IF x <= now THEN g[x] + 1 ELSE g[x]]
        BY <3>1, <4>1
      <4> QED
        BY <4>2
    <3>4. \A x \in 0..MaxTime : f[x] = IF x <= now THEN admits[t][x] + 1 ELSE admits[t][x]
      BY <3>1
    <3> QED
      BY <1>5, <2>2, <3>2, <3>3, <3>4
  <2> QED
    BY <2>1, <2>2
<1>9. ASSUME NEW u \in Tenants, NEW x \in 0..MaxTime, x > now' PROVE admits'[u][x] = 0
  <2>1. ~(x <= now)
    BY <1>3, <1>5, <1>9, AccessAssumption DEF Typed
  <2> QED
    BY <1>3, <1>8, <1>9, <2>1 DEF TInv
<1>10. ASSUME NEW u \in Tenants PROVE BucketOK(bucket[u])'
  <2>1. PICK d : d = bucket'[u] /\ BucketOK(d)
    BY <1>3, <1>5, <1>7, Zenon DEF TInv
  <2>2. BucketOK(d)'
    BY <1>3, <2>1, SameTokens
  <2> QED
    BY <2>1, <2>2
<1>11. ASSUME ~cfg.dev, NEW u \in Tenants, NEW x \in 0..now PROVE WindowOK(u, x)'
  <2>1. /\ x \in 0..MaxTime /\ x <= now /\ WindowOK(u, x) /\ BucketOK(bucket[u])
    <3>1. now \in 0..MaxTime /\ MaxTime \in Nat
      BY <1>5, AccessAssumption, Zenon DEF Typed
    <3>2. x \in 0..MaxTime /\ x <= now
      BY <1>11, <3>1
    <3>3. WindowOK(u, x) /\ BucketOK(bucket[u])
      BY <1>3, <1>11, Zenon DEF TInv
    <3> QED
      BY <3>2, <3>3
  <2>2. Tokens(bucket[u]) \in Nat /\ admits[u][x] \in Nat /\ One \in Nat
    BY <1>3, <1>5, <2>1, TokensOK, LimitsOK, Zenon DEF TInv
  <2>3. admits'[u][x] * One + Tokens(bucket[u])' = admits[u][x] * One + Tokens(bucket[u])
    <3>1. CASE u = t
      <4>1. bucket'[t] = s
        BY <1>5, <1>7 DEF TInv
      <4>2. Tokens(s)' = Tokens(s)
        BY <1>3, SameTokens
      <4>3. Tokens(bucket[u])' = IF through THEN Tokens(bucket[u]) - One ELSE Tokens(bucket[u])
        BY <1>6, <1>7, <1>11, <3>1, <4>1, <4>2
      <4>4. admits'[u][x] = IF through THEN admits[u][x] + 1 ELSE admits[u][x]
        BY <1>8, <1>11, <2>1, <3>1
      <4>5. (admits[u][x] + 1) * One = admits[u][x] * One + One /\ admits[u][x] * One \in Nat
        BY <2>2
      <4> QED
        BY <2>2, <4>3, <4>4, <4>5
    <3>2. CASE u # t
      <4>1. bucket'[u] = bucket[u] /\ admits'[u][x] = admits[u][x]
        BY <1>5, <1>7, <1>8, <2>1, <3>2 DEF TInv
      <4>2. PICK d : d = bucket[u]
        OBVIOUS
      <4>3. Tokens(d)' = Tokens(d)
        BY <1>3, SameTokens
      <4> QED
        BY <4>1, <4>2, <4>3
    <3> QED
      BY <3>1, <3>2
  <2> QED
    BY <1>3, <2>1, <2>3 DEF WindowOK, One
<1>12. bucket' \in [Tenants -> Bucket] /\ restarts' \in Nat
  BY <1>3, <1>5, <1>7 DEF TInv
<1> QED
  BY <1>3, <1>8, <1>9, <1>10, <1>11, <1>12, Zenon DEF TInv

LEMMA NextTInv ==
    ASSUME RInv, RInv', TInv, [Next]_vars
    PROVE  TInv'
<1>1. ASSUME NEW c \in Callers,
             \/ Arrive(c) \/ Authenticate(c) \/ Touch(c) \/ Forbidden(c) \/ Handle(c)
             \/ CreateAPIKey(c) \/ CreateFails(c) \/ RotateAPIKey(c) \/ RevokeAPIKey(c) \/ WorkerCall(c)
             \/ Subscribe(c) \/ Upgrade(c) \/ Deliver(c) \/ Close(c)
      PROVE  UNCHANGED <<cfg, now, bucket, restarts, admits>>
  BY <1>1, Zenon DEF Arrive, Authenticate, Touch, Forbidden, Handle, CreateAPIKey, CreateFails, RotateAPIKey,
     RevokeAPIKey, WorkerCall, Subscribe, Upgrade, Deliver, Close
<1>2. ASSUME Change \/ Publish \/ HintLost \/ RedisRestarts \/ UNCHANGED vars
      PROVE  UNCHANGED <<cfg, now, bucket, restarts, admits>>
  BY <1>2 DEF Change, Publish, HintLost, RedisRestarts, vars
<1>3. CASE UNCHANGED <<cfg, now, bucket, restarts, admits>>
  BY <1>3, SameTInv
<1>4. CASE \/ \E c \in Callers : Limit(c)
           \/ RedisFails \/ Tick
  BY <1>4, LimitTInv, RedisFailsTInv, TickTInv
<1> QED
  BY <1>1, <1>2, <1>3, <1>4 DEF Next

LEMMA InitTInv ==
    ASSUME Init, RInv
    PROVE  TInv
<1>1. /\ restarts = 0 /\ now = 0 /\ bucket = [t \in Tenants |-> NoBucket]
      /\ admits = [t \in Tenants |-> [s \in 0..MaxTime |-> 0]]
  BY Zenon DEF Init
<1>2. NoBucket \in Bucket
  BY DEF NoBucket, NoRetry, Bucket
<1>3. ASSUME cfg # NoRow, NEW t \in Tenants, NEW s \in 0..now PROVE WindowOK(t, s)
  <2>1. Tokens(bucket[t]) = cfg.burst * One /\ cfg.burst * One \in Nat /\ cfg.burst \in Nat /\ cfg.rate \in Nat
    BY <1>1, <1>3, NoBucketFull, LimitsOK DEF RInv
  <2>2. s = 0 /\ 0 \in 0..MaxTime
    BY <1>1, AccessAssumption
  <2>3. admits[t][s] = 0
    BY <1>1, <2>2
  <2>4. One \in Nat /\ 0 * One = 0 /\ (now - s) * cfg.rate = 0 /\ (1 + restarts) * cfg.burst = cfg.burst
    BY <1>1, <1>3, <2>1, <2>2, LimitsOK DEF RInv
  <2>5. PICK full \in Nat : full = cfg.burst * One
    BY <2>1
  <2>6. admits[t][s] * One + Tokens(bucket[t]) = full
    BY <2>1, <2>3, <2>4, <2>5
  <2>7. (1 + restarts) * cfg.burst * One + (now - s) * cfg.rate = full
    BY <2>4, <2>5
  <2>8. full <= full
    OBVIOUS
  <2> QED
    BY <2>6, <2>7, <2>8, Zenon DEF WindowOK
<1> QED
  BY <1>1, <1>2, <1>3 DEF TInv, BucketOK

\* The invariant for the token bucket holds in every reachable state.
THEOREM BucketInvariance == Spec => []TInv
<1>1. Init /\ RInv => TInv
  BY InitTInv
<1>2. RInv /\ RInv' /\ TInv /\ [Next]_vars => TInv'
  BY NextTInv
<1> QED
  BY <1>1, <1>2, RequestInvariance, PTL DEF Spec

\* Middleware and tokenBucketScript let a production tenant have at most a burst, a burst more for
\* each restart of Redis, and what the rate adds, in every window of time.
THEOREM RateIsBounded == Spec => []RateBound
<1>1. RInv /\ TInv => RateBound
  <2> SUFFICES ASSUME RInv, TInv, cfg # NoRow, ~cfg.dev, NEW t \in Tenants, NEW s \in 0..now
               PROVE  admits[t][s] * One <= (1 + restarts) * cfg.burst * One + (now - s) * cfg.rate
    BY DEF RateBound
  <2>1. WindowOK(t, s) /\ BucketOK(bucket[t]) /\ Typed
    BY DEF TInv, RInv
  <2>2. Tokens(bucket[t]) \in Nat /\ One \in Nat /\ cfg.rate \in Nat /\ now \in Nat /\ cfg.burst \in Nat
    BY <2>1, TokensOK, LimitsOK
  <2>3. PICK x \in Nat : x = admits[t][s] * One
    <3>1. s \in 0..MaxTime
      BY <2>1, AccessAssumption DEF Typed
    <3>2. admits[t][s] \in Nat
      BY <3>1, Zenon DEF TInv
    <3>3. admits[t][s] * One \in Nat
      BY <2>2, <3>2
    <3> QED
      BY <3>3
  <2>4. PICK y \in Int : y = (now - s) * cfg.rate
    BY <2>2
  <2>5. PICK bound \in Nat : bound = (1 + restarts) * cfg.burst * One
    BY <2>2, BoundGrows DEF TInv
  <2> QED
    BY <2>1, <2>2, <2>3, <2>4, <2>5 DEF WindowOK
<1> QED
  BY <1>1, RequestInvariance, BucketInvariance, PTL

\* Retry-After is long enough: after it a token is there, at any rate.
THEOREM RetrySuffices == Spec => []RetryIsEnough
<1>1. RInv /\ TInv => RetryIsEnough
  <2> SUFFICES ASSUME RInv, TInv, cfg # NoRow, NEW t \in Tenants, NEW b, b = bucket[t],
                      b.retry # NoRetry, now >= b.updated + b.retry * TicksPerSecond
               PROVE  Tokens(b) >= One
    BY DEF RetryIsEnough
  <2>1. Typed /\ BucketOK(b)
    BY DEF RInv, TInv
  <2>2. /\ b.tokens \in Int /\ b.updated \in Int /\ b.retry \in Int /\ 0 <= b.tokens
        /\ b.updated <= now /\ b.retry >= 1
    BY <2>1 DEF BucketOK, NoBucket, Bucket
  <2>3. PICK full \in Nat : full = cfg.burst * One /\ One <= full
    BY <2>1, LimitsOK
  <2>4. One \in Nat /\ cfg.rate \in Nat \ {0} /\ now \in Nat
    BY <2>1, LimitsOK
  <2>5. PICK x \in Nat : x = now - b.updated /\ One <= x
    <3>1. 1 * One <= b.retry * One /\ 1 * One = One /\ b.retry * One \in Int
      BY <2>2, <2>4, TimesMonotonic
    <3>2. now >= b.updated + b.retry * One
      BY DEF One
    <3>3. now - b.updated \in Nat /\ One <= now - b.updated
      BY <2>2, <2>4, <3>1, <3>2
    <3> QED
      BY <3>3
  <2>6. PICK n \in Nat : n = b.tokens + x * cfg.rate /\ One <= n
    <3>1. 1 * x <= cfg.rate * x /\ 1 * x = x /\ cfg.rate * x = x * cfg.rate /\ x * cfg.rate \in Nat
      BY <2>4, TimesMonotonic
    <3>2. b.tokens + x * cfg.rate \in Nat /\ One <= b.tokens + x * cfg.rate
      BY <2>2, <2>4, <2>5, <3>1
    <3> QED
      BY <3>2
  <2>7. Tokens(b) = IF Absent(b) THEN full ELSE Min({full, n})
    BY <2>3, <2>5, <2>6 DEF Tokens
  <2>8. PICK i : i = Min({full, n})
    OBVIOUS
  <2>9. i \in Nat /\ (i = full \/ i = n)
    BY <2>8, LeastIs
  <2> QED
    BY <2>3, <2>4, <2>6, <2>7, <2>8, <2>9
<1> QED
  BY <1>1, RequestInvariance, BucketInvariance, PTL

-----------------------------------------------------------------------------
(* The dashboard: the steps                                                *)

\* The request of c becomes r: the dashboard refreshes or has missed something, or nothing has
\* changed for it.
LEMMA DashStep ==
    ASSUME RInv, DInv, NEW c \in Callers, NEW r, req' = [req EXCEPT ![c] = r], dash' \in Dash,
           \/ dash'.lost \/ dash'.due \/ dash'.seen = dash'.version \/ r.route = "view"
           \/ /\ dash'.version = dash.version /\ dash'.owed = dash.owed /\ dash'.seen = dash.seen
              /\ dash.lost => dash'.lost
              /\ dash.due => dash'.due
              /\ dash.hint \ {c} \subseteq dash'.hint
              /\ r.pc # "open" /\ req[c].route # "view"
    PROVE  DInv'
<1>1. req \in [Callers -> Request]
  BY DEF RInv, Typed
<1>2. SUFFICES ASSUME NEW d \in Callers, req'[d].pc = "open", ~dash'.lost, dash'.seen < dash'.version
               PROVE  dash'.owed > 0 \/ d \in dash'.hint \/ dash'.due \/ \E e \in Callers : req'[e].route = "view"
  BY DEF DInv, HintReachesDashboard
<1>3. req'[c] = r /\ \A e \in Callers : e # c => req'[e] = req[e]
  BY <1>1
<1>4. CASE dash'.due \/ r.route = "view"
  BY <1>3, <1>4
<1>5. CASE dash'.seen = dash'.version
  <2>1. dash'.seen \in Nat
    BY DEF Dash
  <2> QED
    BY <1>2, <1>5, <2>1
<1>6. CASE /\ dash'.version = dash.version /\ dash'.owed = dash.owed /\ dash'.seen = dash.seen
           /\ dash.lost => dash'.lost
           /\ dash.due => dash'.due
           /\ dash.hint \ {c} \subseteq dash'.hint
           /\ r.pc # "open" /\ req[c].route # "view"
  <2>1. d # c /\ req[d].pc = "open" /\ ~dash.lost /\ dash.seen < dash.version
    BY <1>2, <1>3, <1>6
  <2>2. dash.owed > 0 \/ d \in dash.hint \/ dash.due \/ \E e \in Callers : req[e].route = "view"
    BY <2>1 DEF DInv, HintReachesDashboard
  <2> QED
    BY <1>3, <1>6, <2>1, <2>2
<1> QED
  BY <1>2, <1>4, <1>5, <1>6

\* A request that goes on.
LEMMA GoneOn ==
    ASSUME RInv, DInv, NEW c \in Callers, NEW r, req' = [req EXCEPT ![c] = r],
           r.pc # "open", r.route = req[c].route, dash' = dash
    PROVE  DInv'
<1>1. dash \in Dash
  BY DEF DInv
<1> QED
  BY <1>1, DashStep, Zenon

\* A request that is answered and was no refresh.
LEMMA AnsweredDInv ==
    ASSUME RInv, DInv, NEW c \in Callers, Answers(c), req[c].route # "view", dash' = dash
    PROVE  DInv'
<1>1. dash \in Dash /\ Idle.pc = "idle" /\ req' = [req EXCEPT ![c] = Idle]
  BY Zenon DEF DInv, Idle, Answers
<1> QED
  BY <1>1, DashStep, Zenon

\* A request that is refused.
LEMMA RejectsDInv ==
    ASSUME RInv, DInv, NEW c \in Callers, Rejects(c)
    PROVE  DInv'
<1>1. dash \in Dash /\ Idle.pc = "idle" /\ req' = [req EXCEPT ![c] = Idle]
  BY Zenon DEF DInv, Idle, Answers, Rejects
<1>2. CASE req[c].route = "view"
  <2>1. dash' = [dash EXCEPT !.lost = TRUE]
    BY <1>1, <1>2, Zenon DEF Rejects, Dash
  <2>2. dash' \in Dash /\ dash'.lost = TRUE
    BY <1>1, <2>1, Zenon DEF Dash
  <2> QED
    BY <1>1, <2>2, DashStep, Zenon
<1>3. CASE req[c].route # "view"
  <2>1. dash' = dash
    BY <1>1, <1>3 DEF Rejects, Dash
  <2> QED
    BY <1>1, <1>3, <2>1, DashStep, Zenon
<1> QED
  BY <1>2, <1>3

LEMMA ArriveDInv ==
    ASSUME RInv, DInv, NEW c \in Callers, Arrive(c)
    PROVE  DInv'
<1>1. req[c].pc = "idle" /\ dash \in Dash
  BY DEF Arrive, At, DInv
<1>2. req[c].route = ""
  <2>1. req[c] = Idle
    BY <1>1, Zenon DEF RInv, RequestOK
  <2>2. Idle.route = ""
    BY DEF Idle
  <2> QED
    BY <2>1, <2>2, Zenon
<1>3. PICK route, cred, target :
        /\ req' = [req EXCEPT ![c] = [pc |-> "authenticate", route |-> route, cred |-> cred,
                                      target |-> target, who |-> NoRow, dead |-> Dead(cred)]]
        /\ \E due \in (IF route = "view" THEN {FALSE} ELSE {}) \cup {dash.due} : dash' = [dash EXCEPT !.due = due]
  BY Zenon DEF Arrive
<1> DEFINE r == [pc |-> "authenticate", route |-> route, cred |-> cred,
                 target |-> target, who |-> NoRow, dead |-> Dead(cred)]
<1>4. r.pc = "authenticate" /\ r.route = route /\ req' = [req EXCEPT ![c] = r]
  BY <1>3
<1> HIDE DEF r
<1>5. PICK due \in (IF route = "view" THEN {FALSE} ELSE {}) \cup {dash.due} : dash' = [dash EXCEPT !.due = due]
  BY <1>3, Zenon
<1>6. CASE route = "view"
  <2>1. due \in BOOLEAN
    BY <1>1, <1>5, <1>6, Zenon DEF Dash
  <2>2. dash' \in Dash
    BY <1>1, <1>5, <2>1 DEF Dash
  <2> QED
    BY <1>4, <1>6, <2>2, DashStep, Zenon
<1>7. CASE route # "view"
  <2>1. dash' = dash
    BY <1>1, <1>5, <1>7 DEF Dash
  <2> QED
    BY <1>1, <1>2, <1>4, <2>1, DashStep, Zenon
<1> QED
  BY <1>6, <1>7

LEMMA AdmitDInv ==
    ASSUME RInv, DInv, NEW c \in Callers, NEW p, Admit(c, p)
    PROVE  DInv'
<1>1. CASE req[c].route \in WorkerRoutes /\ "workers:execute" \notin p.scopes
  BY <1>1, RejectsDInv DEF Admit
<1>2. CASE ~(req[c].route \in WorkerRoutes /\ "workers:execute" \notin p.scopes)
  <2> DEFINE q == IF req[c].route \in WorkerRoutes THEN "handle" ELSE "limit"
             r == [[req[c] EXCEPT !.who = p] EXCEPT !.pc = q]
  <2>1. req' = [req EXCEPT ![c].who = p, ![c].pc = q] /\ dash' = dash
    BY <1>2 DEF Admit
  <2>2. req \in [Callers -> Request] /\ req[c] \in Request
    BY DEF RInv, Typed
  <2>3. req' = [req EXCEPT ![c] = r]
    BY <2>1, <2>2, Zenon
  <2>4. r.route = req[c].route /\ r.pc = q
    BY <2>2, Zenon DEF Request
  <2> HIDE DEF r
  <2> QED
    BY <2>1, <2>3, <2>4, GoneOn, Zenon
<1> QED
  BY <1>1, <1>2

LEMMA AuthenticateDInv ==
    ASSUME RInv, DInv, NEW c \in Callers, Authenticate(c)
    PROVE  DInv'
<1>1. PICK p : p = Principal(req[c])
  OBVIOUS
<1>2. CASE p = NoRow
  BY <1>1, <1>2, RejectsDInv DEF Authenticate
<1>3. CASE p # NoRow /\ p.kind = "api_key"
  <2> DEFINE r == [[req[c] EXCEPT !.who = p] EXCEPT !.pc = "touch"]
  <2>1. req' = [req EXCEPT ![c].who = p, ![c].pc = "touch"] /\ dash' = dash
    BY <1>1, <1>3 DEF Authenticate
  <2>2. req \in [Callers -> Request] /\ req[c] \in Request
    BY DEF RInv, Typed
  <2>3. req' = [req EXCEPT ![c] = r]
    BY <2>1, <2>2, Zenon
  <2>4. r.route = req[c].route /\ r.pc = "touch"
    BY <2>2, Zenon DEF Request
  <2> HIDE DEF r
  <2> QED
    BY <2>1, <2>3, <2>4, GoneOn, Zenon
<1>4. CASE p # NoRow /\ p.kind # "api_key"
  <2>1. Admit(c, p)
    BY <1>1, <1>4 DEF Authenticate
  <2> QED
    BY <2>1, AdmitDInv
<1> QED
  BY <1>2, <1>3, <1>4

\* A request that goes on to its handler or to the upgrade.
LEMMA GoesDInv ==
    ASSUME RInv, DInv, NEW c \in Callers, NEW q \in {"handle", "upgrade"}, Goes(c, q), dash' = dash
    PROVE  DInv'
<1> DEFINE r == [req[c] EXCEPT !.pc = q]
<1>1. req[c] \in Request /\ req' = [req EXCEPT ![c] = r]
  BY DEF RInv, Typed, Goes
<1>2. r.route = req[c].route /\ r.pc = q
  BY <1>1, Zenon DEF Request
<1> HIDE DEF r
<1> QED
  BY <1>1, <1>2, GoneOn, Zenon

\* A refresh reads all there is, and the other handlers are none.
LEMMA HandlersDInv ==
    ASSUME RInv, DInv, NEW c \in Callers,
           \/ Handle(c) \/ CreateAPIKey(c) \/ CreateFails(c) \/ RotateAPIKey(c) \/ RevokeAPIKey(c) \/ WorkerCall(c)
    PROVE  DInv'
<1>1. CASE Handle(c) /\ req[c].route = "view"
  <2>1. dash' = [dash EXCEPT !.seen = dash.version] /\ dash \in Dash /\ req' = [req EXCEPT ![c] = Idle]
    BY <1>1 DEF Handle, DInv, Answers
  <2>2. dash' \in Dash /\ dash'.seen = dash'.version
    BY <2>1 DEF Dash
  <2> QED
    BY <2>1, <2>2, DashStep, Zenon
<1>2. CASE ~(Handle(c) /\ req[c].route = "view")
  <2>1. CASE Handle(c)
    BY <1>2, <2>1, AnsweredDInv DEF Handle
  <2>2. CASE CreateAPIKey(c) \/ CreateFails(c)
    <3>1. Answers(c) /\ dash' = dash /\ req[c].route = "createKey"
      BY <2>2, Zenon DEF CreateAPIKey, CreateFails, Serves
    <3> QED
      BY <3>1, AnsweredDInv
  <2>3. CASE RotateAPIKey(c) \/ RevokeAPIKey(c)
    <3>1. Answers(c) /\ dash' = dash /\ req[c].route \in {"rotateKey", "revokeKey"}
      BY <2>3, Zenon DEF RotateAPIKey, RevokeAPIKey, Serves
    <3> QED
      BY <3>1, AnsweredDInv
  <2>4. CASE WorkerCall(c)
    BY <2>4, AnsweredDInv, Zenon DEF WorkerCall
  <2> QED
    BY <2>1, <2>2, <2>3, <2>4
<1> QED
  BY <1>1, <1>2

\* An upgraded stream refreshes, and a stream that is closed is no longer behind.
LEMMA StreamDInv ==
    ASSUME RInv, DInv, NEW c \in Callers, Upgrade(c) \/ Close(c)
    PROVE  DInv'
<1>1. dash \in Dash
  BY DEF DInv
<1>2. CASE Upgrade(c)
  <2> DEFINE r == [req[c] EXCEPT !.pc = "open"]
             e == [dash EXCEPT !.due = TRUE]
  <2>1. dash' = [e EXCEPT !.lost = FALSE] /\ req' = [req EXCEPT ![c] = r]
    BY <1>1, <1>2 DEF Upgrade, Goes, RInv, Typed
  <2>2. e \in Dash /\ e.due = TRUE
    BY <1>1, Zenon DEF Dash
  <2> HIDE DEF e, r
  <2>3. dash' \in Dash /\ dash'.due = TRUE
    BY <2>1, <2>2, Zenon DEF Dash
  <2> QED
    BY <2>1, <2>3, DashStep, Zenon
<1>3. CASE Close(c)
  <2>1. /\ dash' = [dash EXCEPT !.hint = @ \ {c}] /\ req' = [req EXCEPT ![c] = Idle] /\ Idle.pc = "idle"
        /\ req[c].pc \in {"upgrade", "open"}
    BY <1>3, Zenon DEF Close, Answers, At, Idle
  <2>2. req[c].route # "view"
    BY <2>1 DEF RInv, RequestOK
  <2>3. /\ dash' \in Dash /\ dash'.version = dash.version /\ dash'.owed = dash.owed /\ dash'.seen = dash.seen
        /\ dash'.lost = dash.lost /\ dash'.due = dash.due /\ dash'.hint = dash.hint \ {c}
    BY <1>1, <2>1 DEF Dash
  <2> QED
    BY <2>1, <2>2, <2>3, DashStep, Zenon
<1> QED
  BY <1>2, <1>3

\* Steps of no request: what is behind is owed, on its way, pending or lost.
LEMMA QuietDInv ==
    ASSUME RInv, DInv, \/ \E c \in Callers : Deliver(c)
                       \/ Change \/ Publish \/ HintLost \/ RedisFails \/ RedisRestarts \/ Tick
                       \/ UNCHANGED vars
    PROVE  DInv'
<1>1. dash \in Dash /\ HintReachesDashboard
  BY DEF DInv
<1>2. req' = req
  BY Zenon DEF Deliver, Change, Publish, HintLost, RedisFails, RedisRestarts, Tick, vars
<1>3. CASE dash' = dash
  BY <1>1, <1>2, <1>3, Zenon DEF DInv, HintReachesDashboard
<1>4. ASSUME NEW c \in Callers, Deliver(c) PROVE DInv'
  <2> DEFINE e == [dash EXCEPT !.hint = @ \ {c}]
  <2>1. dash' = [e EXCEPT !.due = TRUE]
    BY <1>1, <1>4, Zenon DEF Deliver
  <2>2. e \in Dash
    BY <1>1 DEF Dash
  <2> HIDE DEF e
  <2>3. dash' \in Dash /\ dash'.due = TRUE
    BY <2>1, <2>2, Zenon DEF Dash
  <2> QED
    BY <2>3, Zenon DEF DInv, HintReachesDashboard
<1>5. CASE Change
  <2> DEFINE e == [dash EXCEPT !.version = @ + 1]
  <2>1. dash' = [e EXCEPT !.owed = @ + 1]
    BY <1>1, <1>5 DEF Change
  <2>2. e \in Dash
    BY <1>1 DEF Dash
  <2> HIDE DEF e
  <2>3. dash' \in Dash /\ dash'.owed > 0
    BY <2>1, <2>2 DEF Dash
  <2> QED
    BY <2>3 DEF DInv, HintReachesDashboard
<1>6. ASSUME dash.owed > 0, dash' = [dash EXCEPT !.owed = @ - 1, !.lost = TRUE] PROVE DInv'
  <2> DEFINE e == [dash EXCEPT !.owed = @ - 1]
  <2>1. dash' = [e EXCEPT !.lost = TRUE]
    BY <1>1, <1>6
  <2>2. e \in Dash
    BY <1>1, <1>6 DEF Dash
  <2> HIDE DEF e
  <2>3. dash' \in Dash /\ dash'.lost = TRUE
    BY <2>1, <2>2, Zenon DEF Dash
  <2> QED
    BY <2>3 DEF DInv, HintReachesDashboard
<1>7. CASE Publish
  <2>1. CASE ~redis
    BY <1>6, <1>7, <2>1 DEF Publish
  <2>2. CASE redis
    <3> DEFINE e == [dash EXCEPT !.owed = @ - 1]
    <3>1. dash' = [e EXCEPT !.hint = @ \cup Subscribers] /\ dash.owed > 0
      BY <1>1, <1>7, <2>2 DEF Publish
    <3>2. e \in Dash
      BY <1>1, <3>1 DEF Dash
    <3>3. Subscribers \subseteq Callers
      BY DEF Subscribers
    <3> HIDE DEF e
    <3>4. dash' \in Dash /\ dash'.hint = e.hint \cup Subscribers
      BY <3>1, <3>2, <3>3 DEF Dash
    <3>5. ASSUME NEW c \in Callers, req'[c].pc = "open" PROVE c \in dash'.hint
      BY <1>2, <3>4, <3>5 DEF Subscribers
    <3> QED
      BY <3>4, <3>5 DEF DInv, HintReachesDashboard
  <2> QED
    BY <2>1, <2>2
<1>8. CASE HintLost
  BY <1>6, <1>8 DEF HintLost
<1>9. CASE RedisFails
  <2>1. dash' = [dash EXCEPT !.lost = TRUE]
    BY <1>9 DEF RedisFails
  <2>2. dash' \in Dash /\ dash'.lost = TRUE
    BY <1>1, <2>1, Zenon DEF Dash
  <2> QED
    BY <2>2 DEF DInv, HintReachesDashboard
<1> QED
  BY <1>3, <1>4, <1>5, <1>7, <1>8, <1>9, Zenon DEF RedisRestarts, Tick, vars

LEMMA NextDInv ==
    ASSUME RInv, DInv, [Next]_vars
    PROVE  DInv'
<1>1. ASSUME NEW c \in Callers, Touch(c) PROVE DInv'
  BY <1>1, AdmitDInv DEF Touch
<1>2. ASSUME NEW c \in Callers, Limit(c) \/ Subscribe(c) \/ Forbidden(c) PROVE DInv'
  <2>1. Rejects(c) \/ (dash' = dash /\ (Goes(c, "handle") \/ Goes(c, "upgrade")))
    BY <1>2, Zenon DEF Limit, Subscribe, Forbidden
  <2> QED
    BY <2>1, RejectsDInv, GoesDInv
<1>3. ASSUME NEW c \in Callers,
             \/ Arrive(c) \/ Authenticate(c) \/ Touch(c) \/ Limit(c) \/ Forbidden(c) \/ Handle(c)
             \/ CreateAPIKey(c) \/ CreateFails(c) \/ RotateAPIKey(c) \/ RevokeAPIKey(c) \/ WorkerCall(c)
             \/ Subscribe(c) \/ Upgrade(c) \/ Deliver(c) \/ Close(c)
      PROVE  DInv'
  BY <1>1, <1>2, <1>3, ArriveDInv, AuthenticateDInv, HandlersDInv, StreamDInv, QuietDInv
<1> QED
  BY <1>3, QuietDInv DEF Next

LEMMA InitDInv ==
    ASSUME Init
    PROVE  DInv
<1>1. dash = [version |-> 0, owed |-> 0, hint |-> {}, due |-> FALSE, seen |-> 0, lost |-> FALSE]
  BY DEF Init
<1>2. dash \in Dash /\ dash.seen = 0 /\ dash.version = 0
  BY <1>1 DEF Dash
<1>3. ~(0 < 0)
  OBVIOUS
<1> QED
  BY <1>2, <1>3 DEF DInv, HintReachesDashboard

\* The invariant for the dashboard holds in every reachable state.
THEOREM DashInvariance == Spec => []DInv
<1>1. Init => DInv
  BY InitDInv
<1>2. RInv /\ DInv /\ [Next]_vars => DInv'
  BY NextDInv
<1> QED
  BY <1>1, <1>2, RequestInvariance, PTL DEF Spec

\* Broker.Publish after the acknowledgement, the confirmed subscription and the first message of a
\* stream together leave no change behind: an open dashboard that is behind is about to refresh.
THEOREM HintArrives == Spec => []HintReachesDashboard
<1>1. DInv => HintReachesDashboard
  BY DEF DInv
<1> QED
  BY <1>1, DashInvariance, PTL

=============================================================================
