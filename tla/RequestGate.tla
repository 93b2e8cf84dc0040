---------------------------- MODULE RequestGate ----------------------------
(***************************************************************************)
(* The gate every API request passes: the key is resolved, the rate        *)
(* limiter and the daily quota count the request, in Redis or, when a      *)
(* Redis call fails, in the worker process and in tenant_usage, and a      *)
(* request that is served leaves a usage row.  Administrators create,      *)
(* rotate and revoke keys meanwhile.                                       *)
(*                                                                         *)
(* One tenant and one path: the counters of others are separate.  A        *)
(* request awaits between resolving, limiting, quota and serving, so each  *)
(* is a step and the steps of several requests interleave.  Every Redis    *)
(* call may be answered, may not reach Redis, or may be executed and its   *)
(* answer lost.                                                            *)
(***************************************************************************)
EXTENDS Integers, FiniteSets

CONSTANTS Keys,         \* rows of tenant_api_keys
          Workers,      \* API processes
          Reqs,         \* requests in flight at once
          Limit,        \* requests_per_minute of a key
          Quota,        \* daily_quota of a key, or NoQuota
          AdminKeys,    \* keys with is_admin
          Issued,       \* keys created before the run
          KeyEnd,       \* expires_at of a key
          LicenseEnd,   \* license_expires_at of the tenant
          Window,       \* rate_limit_window_seconds, in ticks
          DayLength,    \* ticks of a day
          NoQuota, NoKey, NoWorker,
          MaxTime, MaxArrivals, MaxGen, MaxFaults  \* bounds

ASSUME GateAssumption ==
    /\ IsFiniteSet(Reqs)
    /\ Limit \in [Keys -> Nat \ {0}]
    /\ NoQuota \notin Nat /\ Quota \in [Keys -> (Nat \ {0}) \cup {NoQuota}]
    /\ AdminKeys \subseteq Keys /\ Issued \subseteq Keys
    /\ KeyEnd \in [Keys -> Nat] /\ LicenseEnd \in Nat
    /\ Window \in Nat \ {0} /\ DayLength \in Nat \ {0}
    /\ MaxTime \in Nat /\ MaxArrivals \in Nat /\ MaxGen \in Nat /\ MaxFaults \in Nat
    /\ NoKey \notin Keys /\ NoWorker \notin Workers

VARIABLES
    keyGen, keyActive,         \* tenant_api_keys: the secret's generation (0: no row), active
    windowCount, dayCount,     \* Redis: betman:ratelimit and betman:quota counters
    expiry,                    \* when the quota counter of a day expires
    local,                     \* _RATE_LIMIT_WINDOWS of each worker
    usage,                     \* tenant_usage rows captured on each day
    req,                       \* requests in flight
    now, arrivals,             \* the clock in seconds; requests so far
    faults,                    \* failed database calls, and requests served that leave no row
    passed, passedLocal, served  \* history: let through by Redis, by a worker since its start; served

keyVars     == <<keyGen, keyActive>>
counterVars == <<windowCount, dayCount, expiry, local, usage>>
pastVars    == <<passed, passedLocal, served>>
vars == <<keyVars, counterVars, req, now, arrivals, faults, pastVars>>

Buckets == 0..MaxTime
Days    == 0..MaxTime
Bucket  == now \div Window
Today   == now \div DayLength

NoReq == [pc |-> "idle", worker |-> NoWorker, key |-> NoKey, gen |-> 0, admin |-> FALSE, dead |-> FALSE]

PcStates == {"idle", "resolve", "rate", "quota", "dbquota", "serve", "record"}

LastSecond == (now + 1) \div DayLength > Today

\* mutant: the row is found by its prefix alone
ValidByRow(k, g) == keyActive[k]

\* a secret is accepted: its row is active and holds its hash
Valid(k, g) == keyActive[k] /\ keyGen[k] = g

Goes(t, pc) == req' = [req EXCEPT ![t].pc = pc]
Ends(t)     == req' = [req EXCEPT ![t] = NoReq]

Faults(n) == faults + n <= MaxFaults /\ faults' = faults + n

Init ==
    /\ keyGen = [k \in Keys |-> IF k \in Issued THEN 1 ELSE 0]
    /\ keyActive = [k \in Keys |-> k \in Issued]
    /\ windowCount = [b \in Buckets |-> 0]
    /\ dayCount = [d \in Days |-> 0] /\ expiry = [d \in Days |-> "never"]
    /\ local = [w \in Workers |-> [count |-> 0, reset |-> 0]]
    /\ usage = [d \in Days |-> 0]
    /\ req = [t \in Reqs |-> NoReq]
    /\ now = 0 /\ arrivals = 0 /\ faults = 0
    /\ passed = [k \in Keys |-> [b \in Buckets |-> 0]]
    /\ passedLocal = [w \in Workers |-> [k \in Keys |-> [b \in Buckets |-> 0]]]
    /\ served = [k \in Keys |-> [d \in Days |-> 0]]

(***************************************************************************)
(* A request arrives at a worker with some secret that was ever issued,    *)
(* for an admin path or not.  dead remembers that the secret was no longer *)
(* valid on arrival.                                                       *)
(***************************************************************************)
Arrive(t, w, k, g, admin) ==
    /\ req[t].pc = "idle"
    /\ g \in 1..keyGen[k]
    /\ arrivals < MaxArrivals
    /\ arrivals' = arrivals + 1
    /\ req' = [req EXCEPT ![t] = [pc |-> "resolve", worker |-> w, key |-> k, gen |-> g,
                                  admin |-> admin, dead |-> ~Valid(k, g)]]
    /\ UNCHANGED <<keyVars, counterVars, now, faults, pastVars>>

(***************************************************************************)
(* resolve_tenant_for_api_key and the checks after it: no active row with  *)
(* this hash is a 401, an expired license or key a 403.                    *)
(***************************************************************************)
Resolve(t) ==
    LET k == req[t].key
    IN  /\ req[t].pc = "resolve"
        /\ IF Valid(k, req[t].gen) /\ LicenseEnd > now /\ KeyEnd[k] > now
           THEN Goes(t, "rate") ELSE Ends(t)
        /\ UNCHANGED <<keyVars, counterVars, now, arrivals, faults, pastVars>>

(***************************************************************************)
(* _rate_limit_response, with Redis: the Lua script counts the request in  *)
(* the bucket of the tenant and path; past the key's limit it is a 429.    *)
(***************************************************************************)
\* mutant: a key without a quota is checked too
AfterRateAlways(t) == "quota"

AfterRate(t) == IF Quota[req[t].key] = NoQuota THEN "serve" ELSE "quota"

\* mutant: the count before the request is compared
RateRedisStale(t) ==
    LET k == req[t].key
    IN  /\ req[t].pc = "rate"
        /\ windowCount' = [windowCount EXCEPT ![Bucket] = @ + 1]
        /\ IF windowCount[Bucket] > Limit[k]
           THEN Ends(t) /\ UNCHANGED passed
           ELSE /\ Goes(t, AfterRate(t))
                /\ passed' = [passed EXCEPT ![k][Bucket] = @ + 1]
        /\ UNCHANGED <<keyVars, dayCount, expiry, local, usage, now, arrivals, faults, passedLocal, served>>

RateRedis(t) ==
    LET k == req[t].key
        count == windowCount[Bucket] + 1
    IN  /\ req[t].pc = "rate"
        /\ windowCount' = [windowCount EXCEPT ![Bucket] = count]
        /\ IF count > Limit[k]
           THEN Ends(t) /\ UNCHANGED passed
           ELSE /\ Goes(t, AfterRate(t))
                /\ passed' = [passed EXCEPT ![k][Bucket] = @ + 1]
        /\ UNCHANGED <<keyVars, dayCount, expiry, local, usage, now, arrivals, faults, passedLocal, served>>

(***************************************************************************)
(* The Redis call failed, before or after the script ran: the worker's own *)
(* window counts, which starts with its first request.                     *)
(***************************************************************************)
\* mutant: the request that opens a window is not counted in it
RateLocalUncounted(t) ==
    LET k == req[t].key
        w == req[t].worker
        open == now < local[w].reset
        count == IF open THEN local[w].count + 1 ELSE 0
    IN  /\ req[t].pc = "rate"
        /\ windowCount' = windowCount
        /\ local' = [local EXCEPT ![w] = [count |-> count,
                                          reset |-> IF open THEN @.reset ELSE now + Window]]
        /\ IF count > Limit[k]
           THEN Ends(t) /\ UNCHANGED passedLocal
           ELSE /\ Goes(t, AfterRate(t))
                /\ passedLocal' = [passedLocal EXCEPT ![w][k][Bucket] = @ + 1]
        /\ UNCHANGED <<keyVars, dayCount, expiry, usage, now, arrivals, faults, passed, served>>

RateLocal(t) ==
    LET k == req[t].key
        w == req[t].worker
        open == now < local[w].reset
        count == IF open THEN local[w].count + 1 ELSE 1
    IN  /\ req[t].pc = "rate"
        /\ windowCount' \in {windowCount, [windowCount EXCEPT ![Bucket] = @ + 1]}
        /\ local' = [local EXCEPT ![w] = [count |-> count,
                                          reset |-> IF open THEN @.reset ELSE now + Window]]
        /\ IF count > Limit[k]
           THEN Ends(t) /\ UNCHANGED passedLocal
           ELSE /\ Goes(t, AfterRate(t))
                /\ passedLocal' = [passedLocal EXCEPT ![w][k][Bucket] = @ + 1]
        /\ UNCHANGED <<keyVars, dayCount, expiry, usage, now, arrivals, faults, passed, served>>

(***************************************************************************)
(* _redis_daily_quota: INCR, then EXPIRE on a new key, after the whole     *)
(* seconds to midnight and at least one: the key is gone before midnight,  *)
(* in the last second of its day, unless that second has begun.            *)
(***************************************************************************)
Expiry(count) ==
    IF count = 1 /\ expiry[Today] = "never"
    THEN [expiry EXCEPT ![Today] = IF LastSecond THEN "midnight" ELSE "early"]
    ELSE expiry

QuotaRedis(t) ==
    LET count == dayCount[Today] + 1
    IN  /\ req[t].pc = "quota"
        /\ dayCount' = [dayCount EXCEPT ![Today] = count]
        /\ expiry' = Expiry(count)
        /\ IF count > Quota[req[t].key] THEN Ends(t) ELSE Goes(t, "serve")
        /\ UNCHANGED <<keyVars, windowCount, local, usage, now, arrivals, faults, pastVars>>

\* either call fails, executed or not: the request goes to the database
QuotaFails(t) ==
    LET count == dayCount[Today] + 1
    IN  /\ req[t].pc = "quota"
        /\ \/ UNCHANGED <<dayCount, expiry>>
           \/ /\ dayCount' = [dayCount EXCEPT ![Today] = count]
              /\ expiry' \in {expiry, Expiry(count)}
        /\ Goes(t, "dbquota")
        /\ UNCHANGED <<keyVars, windowCount, local, usage, now, arrivals, faults, pastVars>>

\* the counter starts again in the last second of the day; the next EXPIRE is past midnight
QuotaExpires ==
    /\ expiry[Today] = "early" /\ LastSecond
    /\ dayCount' = [dayCount EXCEPT ![Today] = 0]
    /\ expiry' = [expiry EXCEPT ![Today] = "expired"]
    /\ UNCHANGED <<keyVars, windowCount, local, usage, req, now, arrivals, faults, pastVars>>

\* mutant: one row too many is allowed
QuotaDbLate(t) ==
    /\ req[t].pc = "dbquota"
    /\ IF usage[Today] > Quota[req[t].key] THEN Ends(t) ELSE Goes(t, "serve")
    /\ UNCHANGED <<keyVars, counterVars, now, arrivals, faults, pastVars>>

\* the rows of the day are counted, whichever key they are of; when that fails too
\* the quota is not checked
QuotaDb(t) ==
    /\ req[t].pc = "dbquota"
    /\ \/ /\ IF usage[Today] >= Quota[req[t].key] THEN Ends(t) ELSE Goes(t, "serve")
          /\ UNCHANGED faults
       \/ Goes(t, "serve") /\ Faults(1)
    /\ UNCHANGED <<keyVars, counterVars, now, arrivals, pastVars>>

(***************************************************************************)
(* Admin paths ask for an admin key: a 403 after the request was counted.  *)
(* Otherwise the handler runs.  When it raises, no usage row is written;   *)
(* when it answers, _write_usage_record inserts a row of the day it is     *)
(* executed on, or swallows the failure to.                                *)
(***************************************************************************)
Refuse403(t) ==
    /\ req[t].pc = "serve"
    /\ req[t].admin /\ req[t].key \notin AdminKeys
    /\ Ends(t)
    /\ UNCHANGED <<keyVars, counterVars, now, arrivals, faults, pastVars>>

Serve(t) ==
    /\ req[t].pc = "serve"
    /\ req[t].admin => req[t].key \in AdminKeys
    /\ Goes(t, "record")
    /\ served' = [served EXCEPT ![req[t].key][Today] = @ + 1]
    /\ UNCHANGED <<keyVars, counterVars, now, arrivals, faults, passed, passedLocal>>

Record(t) ==
    /\ req[t].pc = "record"
    /\ Ends(t)
    /\ usage' = [usage EXCEPT ![Today] = @ + 1]
    /\ UNCHANGED <<keyVars, windowCount, dayCount, expiry, local, now, arrivals, faults, pastVars>>

RecordFails(t) ==
    /\ req[t].pc = "record"
    /\ Ends(t) /\ Faults(1)
    /\ UNCHANGED <<keyVars, counterVars, now, arrivals, pastVars>>

(***************************************************************************)
(* A worker stops and is started again: its requests and its windows are   *)
(* gone, and the rows of what it has served and not recorded.              *)
(***************************************************************************)
WorkerRestart(w) ==
    /\ \E t \in Reqs : req[t].worker = w
    /\ Faults(Cardinality({t \in Reqs : req[t].worker = w /\ req[t].pc = "record"}))
    /\ req' = [t \in Reqs |-> IF req[t].worker = w THEN NoReq ELSE req[t]]
    /\ local' = [local EXCEPT ![w] = [count |-> 0, reset |-> 0]]
    /\ passedLocal' = [passedLocal EXCEPT ![w] = [k \in Keys |-> [b \in Buckets |-> 0]]]
    /\ UNCHANGED <<keyVars, windowCount, dayCount, expiry, usage, now, arrivals, passed, served>>

(***************************************************************************)
(* create_tenant_api_key inserts a row, rotate_tenant_api_key replaces the *)
(* secret and activates the row, revoke_tenant_api_key deactivates it.     *)
(***************************************************************************)
Create(k) ==
    /\ keyGen[k] = 0
    /\ keyGen' = [keyGen EXCEPT ![k] = 1]
    /\ keyActive' = [keyActive EXCEPT ![k] = TRUE]
    /\ UNCHANGED <<counterVars, req, now, arrivals, faults, pastVars>>

Rotate(k) ==
    /\ keyGen[k] \in 1..(MaxGen - 1)
    /\ keyGen' = [keyGen EXCEPT ![k] = @ + 1]
    /\ keyActive' = [keyActive EXCEPT ![k] = TRUE]
    /\ UNCHANGED <<counterVars, req, now, arrivals, faults, pastVars>>

Revoke(k) ==
    /\ keyGen[k] > 0
    /\ keyActive' = [keyActive EXCEPT ![k] = FALSE]
    /\ UNCHANGED <<keyGen, counterVars, req, now, arrivals, faults, pastVars>>

Tick ==
    /\ now < MaxTime
    /\ now' = now + 1
    /\ UNCHANGED <<keyVars, counterVars, req, arrivals, faults, pastVars>>

Next ==
    \/ \E t \in Reqs :
          \/ \E w \in Workers, k \in Keys, g \in 1..MaxGen, admin \in BOOLEAN : Arrive(t, w, k, g, admin)
          \/ Resolve(t) \/ RateRedis(t) \/ RateLocal(t)
          \/ QuotaRedis(t) \/ QuotaFails(t) \/ QuotaDb(t)
          \/ Refuse403(t) \/ Serve(t) \/ Record(t) \/ RecordFails(t)
    \/ QuotaExpires
    \/ \E w \in Workers : WorkerRestart(w)
    \/ \E k \in Keys : Create(k) \/ Rotate(k) \/ Revoke(k)
    \/ Tick

Spec == Init /\ [][Next]_vars

-----------------------------------------------------------------------------

Request == [pc : PcStates, worker : Workers \cup {NoWorker}, key : Keys \cup {NoKey},
            gen : Nat, admin : BOOLEAN, dead : BOOLEAN]

ReqsTyped ==
    /\ req \in [Reqs -> Request]
    /\ \A t \in Reqs : req[t].pc # "idle" => req[t].worker \in Workers /\ req[t].key \in Keys
    /\ \A t \in Reqs : req[t].pc \in {"quota", "dbquota"} => Quota[req[t].key] # NoQuota

\* The variables have their types; only a key with a quota is at the quota.
TypeOK ==
    /\ keyGen \in [Keys -> Nat] /\ keyActive \in [Keys -> BOOLEAN]
    /\ windowCount \in [Buckets -> Nat] /\ dayCount \in [Days -> Nat] /\ usage \in [Days -> Nat]
    /\ expiry \in [Days -> {"never", "early", "midnight", "expired"}]
    /\ local \in [Workers -> [count : Nat, reset : Nat]]
    /\ ReqsTyped
    /\ now \in 0..MaxTime /\ arrivals \in Nat /\ faults \in Nat
    /\ passed \in [Keys -> [Buckets -> Nat]] /\ served \in [Keys -> [Days -> Nat]]
    /\ passedLocal \in [Workers -> [Keys -> [Buckets -> Nat]]]

(***************************************************************************)
(* The limit is accurate over all workers while Redis answers: in one      *)
(* window no key is let through by Redis more often than its limit, other  *)
(* keys of the tenant, fallbacks and lost answers notwithstanding          *)
(* (_redis_rate_limit).                                                    *)
(***************************************************************************)
LimitHolds == \A k \in Keys, b \in Buckets : passed[k][b] <= Limit[k]

(***************************************************************************)
(* Without Redis a worker starts its own window with a first request, so   *)
(* two of its windows share a bucket of the clock: since its start it lets *)
(* through less than twice the limit in one (in-process fallback of        *)
(* _rate_limit_response).                                                  *)
(***************************************************************************)
FallbackBounded ==
    \A w \in Workers, k \in Keys, b \in Buckets : passedLocal[w][k][b] <= 2 * Limit[k] - 1

(***************************************************************************)
(* The Redis counter and the usage rows each keep a quota and are never    *)
(* compared, the counter may start once more before midnight, rows are     *)
(* counted before the requests in flight write theirs, and a row that a    *)
(* served request never writes is not made up for: on a day a key reaches  *)
(* the handler at most as often as these add up to.                        *)
(***************************************************************************)
QuotaBounded ==
    \A k \in {j \in Keys : Quota[j] # NoQuota}, d \in Days :
        served[k][d] <= 3 * Quota[k] - 1 + Cardinality(Reqs) + faults

(***************************************************************************)
(* A secret that was rotated away or revoked before a request came with it *)
(* never gets that request past the gate, even if the key is activated     *)
(* again by a rotation while it waits (resolve_tenant_for_api_key).        *)
(***************************************************************************)
DeadSecretsStayDead == \A t \in Reqs : req[t].dead => req[t].pc \in {"idle", "resolve"}

(***************************************************************************)
(* What docs/security.md says of a daily quota: the excess is answered     *)
(* with 429, the Redis counter being reconciled with tenant_usage.         *)
(***************************************************************************)
ExcessIsRefused ==
    \A k \in {j \in Keys : Quota[j] # NoQuota}, d \in Days : served[k][d] <= Quota[k]

=============================================================================
