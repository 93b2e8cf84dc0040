------------------------- MODULE RequestGateProofs -------------------------
(***************************************************************************)
(* RequestGate, for every number of keys, workers and requests.            *)
(***************************************************************************)
EXTENDS RequestGate, FiniteSetTheorems, TLAPS

\* The bucket of a moment is not past it.
LEMMA Bucketed ==
    ASSUME NEW n \in Nat, NEW m \in Nat \ {0}
    PROVE  n \div m \in 0..n
<1> DEFINE q == n \div m
<1>1. q \in Int /\ m * q <= n /\ n < m * q + m
    OBVIOUS
<1>2. 0 <= q
    BY <1>1
<1>3. q <= m * q
    BY <1>1, <1>2
<1> QED BY <1>1, <1>2, <1>3


-----------------------------------------------------------------------------

\* Counting in one cell keeps a table of counters typed.
LEMMA Counted ==
    ASSUME NEW S, NEW f \in [S -> Nat], NEW x \in S
    PROVE  [f EXCEPT ![x] = @ + 1] \in [S -> Nat]
OBVIOUS

LEMMA CountedBy ==
    ASSUME NEW R, NEW S, NEW f \in [R -> [S -> Nat]], NEW r \in R, NEW x \in S
    PROVE  [f EXCEPT ![r][x] = @ + 1] \in [R -> [S -> Nat]]
<1>1. [f[r] EXCEPT ![x] = @ + 1] \in [S -> Nat]
    BY Counted
<1> QED BY <1>1

LEMMA BucketsOfNow == TypeOK => Bucket \in Buckets /\ Today \in Days
<1> SUFFICES ASSUME TypeOK
             PROVE  Bucket \in Buckets /\ Today \in Days
    OBVIOUS
<1>1. now \in Nat /\ now <= MaxTime /\ MaxTime \in Nat
      /\ Window \in Nat \ {0} /\ DayLength \in Nat \ {0}
    BY GateAssumption DEF TypeOK, GateAssumption
<1>2. now \div Window \in 0..now /\ now \div DayLength \in 0..now
    BY <1>1, Bucketed
<1> QED BY <1>1, <1>2 DEF Bucket, Today, Buckets, Days

\* A step of a request keeps the request well formed: it ends or goes on to a place it may be at.
LEMMA EndsTyped ==
    ASSUME TypeOK, NEW t \in Reqs, Ends(t)
    PROVE  ReqsTyped'
BY DEF TypeOK, ReqsTyped, Request, Ends, NoReq, PcStates

LEMMA GoesTyped ==
    ASSUME TypeOK, NEW t \in Reqs, NEW pc \in PcStates, Goes(t, pc), req[t].pc # "idle",
           pc \in {"quota", "dbquota"} => Quota[req[t].key] # NoQuota
    PROVE  ReqsTyped'
<1>1. \A u \in Reqs : u # t => req'[u] = req[u]
    BY DEF TypeOK, ReqsTyped, Request, Goes
<1>2. req'[t] = [req[t] EXCEPT !.pc = pc]
    BY DEF TypeOK, ReqsTyped, Request, Goes
<1>3. req[t] \in Request
    BY DEF TypeOK, ReqsTyped
<1>4. /\ req'[t] \in Request
      /\ req'[t].pc = pc /\ req'[t].worker = req[t].worker /\ req'[t].key = req[t].key
    BY <1>2, <1>3 DEF Request
<1> QED BY <1>1, <1>4 DEF TypeOK, ReqsTyped, Request, Goes

LEMMA InFlightTyped ==
    ASSUME TypeOK, NEW t \in Reqs, req[t].pc # "idle"
    PROVE  req[t].key \in Keys /\ req[t].worker \in Workers
BY DEF TypeOK, ReqsTyped

LEMMA AfterRateTyped ==
    ASSUME TypeOK, NEW t \in Reqs, req[t].pc = "rate"
    PROVE  /\ AfterRate(t) \in PcStates
           /\ AfterRate(t) \in {"quota", "dbquota"} => Quota[req[t].key] # NoQuota
BY DEF AfterRate, PcStates

-----------------------------------------------------------------------------

LEMMA TypeInit == Init => TypeOK
BY GateAssumption DEF Init, TypeOK, ReqsTyped, Request, GateAssumption, NoReq, PcStates, Buckets, Days

LEMMA TypeStep == TypeOK /\ [Next]_vars => TypeOK'
<1> SUFFICES ASSUME TypeOK, [Next]_vars
             PROVE  TypeOK'
    OBVIOUS
<1>0. Bucket \in Buckets /\ Today \in Days
    BY BucketsOfNow
<1>1. ASSUME NEW t \in Reqs, NEW w \in Workers, NEW k \in Keys, NEW g \in 1..MaxGen,
             NEW admin \in BOOLEAN, Arrive(t, w, k, g, admin)
      PROVE  TypeOK'
    <2>1. Valid(k, g) \in BOOLEAN
        BY DEF Valid, TypeOK
    <2> QED BY <1>1, <2>1 DEF Arrive, TypeOK, ReqsTyped, Request, PcStates, keyVars, counterVars, pastVars
<1>2. ASSUME NEW t \in Reqs, Resolve(t)
      PROVE  TypeOK'
    BY <1>0, <1>2, EndsTyped, GoesTyped DEF Resolve, PcStates, TypeOK, keyVars, counterVars, pastVars
<1>3. ASSUME NEW t \in Reqs, RateRedis(t)
      PROVE  TypeOK'
    <2>1. \/ Ends(t) /\ UNCHANGED passed
          \/ /\ Goes(t, AfterRate(t))
             /\ passed' = [passed EXCEPT ![req[t].key][Bucket] = @ + 1]
        BY <1>3 DEF RateRedis
    <2>2. ReqsTyped'
        BY <1>3, <2>1, EndsTyped, GoesTyped, AfterRateTyped DEF RateRedis
    <2>3. req[t].key \in Keys
        BY <1>3, InFlightTyped DEF RateRedis
    <2>4. passed' \in [Keys -> [Buckets -> Nat]]
        <3>1. [passed EXCEPT ![req[t].key][Bucket] = @ + 1] \in [Keys -> [Buckets -> Nat]]
            BY <1>0, <2>3, CountedBy DEF TypeOK
        <3> QED BY <2>1, <3>1 DEF TypeOK
    <2> QED BY <1>0, <1>3, <2>2, <2>4 DEF RateRedis, TypeOK, keyVars
<1>4. ASSUME NEW t \in Reqs, RateLocal(t)
      PROVE  TypeOK'
    <2>1. \/ Ends(t) /\ UNCHANGED passedLocal
          \/ /\ Goes(t, AfterRate(t))
             /\ passedLocal' = [passedLocal EXCEPT ![req[t].worker][req[t].key][Bucket] = @ + 1]
        BY <1>4 DEF RateLocal
    <2>2. ReqsTyped'
        BY <1>4, <2>1, EndsTyped, GoesTyped, AfterRateTyped DEF RateLocal
    <2>3. req[t].key \in Keys /\ req[t].worker \in Workers
        BY <1>4, InFlightTyped DEF RateLocal
    <2>4. passedLocal' \in [Workers -> [Keys -> [Buckets -> Nat]]]
        <3>1. passedLocal[req[t].worker] \in [Keys -> [Buckets -> Nat]]
            BY <2>3 DEF TypeOK
        <3>2. [passedLocal[req[t].worker] EXCEPT ![req[t].key][Bucket] = @ + 1] \in [Keys -> [Buckets -> Nat]]
            BY <1>0, <2>3, <3>1, CountedBy
        <3> QED BY <2>1, <2>3, <3>2 DEF TypeOK
    <2>5. now \in Nat /\ now + Window \in Nat
        BY GateAssumption DEF GateAssumption, TypeOK
    <2>6. PICK n \in Nat, e \in Nat : local' = [local EXCEPT ![req[t].worker] = [count |-> n, reset |-> e]]
        <3>1. local[req[t].worker].count \in Nat /\ local[req[t].worker].reset \in Nat
            BY <2>3 DEF TypeOK
        <3> DEFINE w == req[t].worker
                   open == now < local[w].reset
                   n == IF open THEN local[w].count + 1 ELSE 1
                   e == IF open THEN local[w].reset ELSE now + Window
        <3>2. local' = [local EXCEPT ![w] = [count |-> n, reset |-> e]]
            BY <1>4 DEF RateLocal
        <3>3. n \in Nat /\ e \in Nat
            BY <2>5, <3>1
        <3> QED BY <3>2, <3>3
    <2>7. local' \in [Workers -> [count : Nat, reset : Nat]]
        BY <2>6 DEF TypeOK
    <2>8. windowCount' \in [Buckets -> Nat]
        <3>1. \/ windowCount' = windowCount
              \/ windowCount' = [windowCount EXCEPT ![Bucket] = @ + 1]
            BY <1>4 DEF RateLocal
        <3>2. [windowCount EXCEPT ![Bucket] = @ + 1] \in [Buckets -> Nat] /\ windowCount \in [Buckets -> Nat]
            BY <1>0, Counted DEF TypeOK
        <3> QED BY <3>1, <3>2
    <2> QED BY <1>4, <2>2, <2>4, <2>7, <2>8 DEF RateLocal, TypeOK, keyVars
<1>e. \A n : Expiry(n) \in [Days -> {"never", "early", "midnight", "expired"}]
    BY <1>0 DEF Expiry, TypeOK
<1>5. ASSUME NEW t \in Reqs, QuotaRedis(t)
      PROVE  TypeOK'
    <2>1. ReqsTyped'
        BY <1>5, EndsTyped, GoesTyped DEF QuotaRedis, PcStates
    <2>2. dayCount' \in [Days -> Nat] /\ expiry' \in [Days -> {"never", "early", "midnight", "expired"}]
        BY <1>0, <1>e, <1>5, Counted DEF QuotaRedis, TypeOK
    <2> QED BY <1>5, <2>1, <2>2 DEF QuotaRedis, TypeOK, keyVars, pastVars
<1>6. ASSUME NEW t \in Reqs, QuotaFails(t)
      PROVE  TypeOK'
    <2>1. ReqsTyped'
        BY <1>6, GoesTyped DEF QuotaFails, TypeOK, ReqsTyped, PcStates
    <2>2. dayCount' = dayCount \/ dayCount' = [dayCount EXCEPT ![Today] = @ + 1]
        BY <1>6 DEF QuotaFails
    <2>3. dayCount' \in [Days -> Nat]
        <3>1. [dayCount EXCEPT ![Today] = @ + 1] \in [Days -> Nat] /\ dayCount \in [Days -> Nat]
            BY <1>0, Counted DEF TypeOK
        <3> QED BY <2>2, <3>1
    <2>4. expiry' \in [Days -> {"never", "early", "midnight", "expired"}]
        BY <1>e, <1>6 DEF QuotaFails, TypeOK
    <2> QED BY <1>6, <2>1, <2>3, <2>4 DEF QuotaFails, TypeOK, keyVars, pastVars
<1>7. ASSUME NEW t \in Reqs, QuotaDb(t)
      PROVE  TypeOK'
    BY <1>0, <1>7, EndsTyped, GoesTyped DEF QuotaDb, Faults, PcStates, TypeOK, keyVars, counterVars, pastVars
<1>8. ASSUME NEW t \in Reqs, Refuse403(t)
      PROVE  TypeOK'
    BY <1>8, EndsTyped DEF Refuse403, TypeOK, keyVars, counterVars, pastVars
<1>9. ASSUME NEW t \in Reqs, Serve(t) \/ Record(t) \/ RecordFails(t)
      PROVE  TypeOK'
    <2>1. CASE Serve(t)
        <3>1. ReqsTyped' /\ req[t].key \in Keys
            BY <2>1, GoesTyped, InFlightTyped DEF Serve, PcStates
        <3>2. served' \in [Keys -> [Days -> Nat]]
            BY <1>0, <2>1, <3>1, CountedBy DEF Serve, TypeOK
        <3> QED BY <2>1, <3>1, <3>2 DEF Serve, TypeOK, keyVars, counterVars
    <2>2. CASE Record(t)
        BY <1>0, <2>2, EndsTyped, Counted DEF Record, TypeOK, keyVars, pastVars
    <2>3. CASE RecordFails(t)
        BY <2>3, EndsTyped DEF RecordFails, Faults, TypeOK, keyVars, counterVars, pastVars
    <2> QED BY <1>9, <2>1, <2>2, <2>3
<1>10. ASSUME NEW w \in Workers, WorkerRestart(w)
       PROVE  TypeOK'
    <2>1. faults' \in Nat
        <3> DEFINE Lost == {t \in Reqs : req[t].worker = w /\ req[t].pc = "record"}
        <3>1. IsFiniteSet(Lost)
            BY GateAssumption, FS_Subset DEF GateAssumption
        <3>2. Cardinality(Lost) \in Nat /\ faults' = faults + Cardinality(Lost)
            BY <1>10, <3>1, FS_CardinalityType DEF WorkerRestart, Faults
        <3> QED BY <3>2 DEF TypeOK
    <2> QED BY <1>10, <2>1 DEF WorkerRestart, TypeOK, ReqsTyped, Request, NoReq, PcStates, keyVars
<1>14. CASE QuotaExpires
    BY <1>0, <1>14 DEF QuotaExpires, TypeOK, ReqsTyped, keyVars, pastVars
<1>11. ASSUME NEW k \in Keys, Create(k) \/ Rotate(k) \/ Revoke(k)
       PROVE  TypeOK'
    <2>1. CASE Create(k)
        BY <2>1 DEF Create, TypeOK, ReqsTyped, counterVars, pastVars
    <2>2. CASE Rotate(k)
        BY <2>2 DEF Rotate, TypeOK, ReqsTyped, counterVars, pastVars
    <2>3. CASE Revoke(k)
        BY <2>3 DEF Revoke, TypeOK, ReqsTyped, counterVars, pastVars
    <2> QED BY <1>11, <2>1, <2>2, <2>3
<1>12. CASE Tick
    BY <1>12, GateAssumption DEF GateAssumption, Tick, TypeOK, ReqsTyped, keyVars, counterVars, pastVars
<1>13. CASE UNCHANGED vars
    BY <1>13 DEF vars, TypeOK, ReqsTyped, keyVars, counterVars, pastVars
<1> QED BY <1>1, <1>2, <1>3, <1>4, <1>5, <1>6, <1>7, <1>8, <1>9, <1>10, <1>11, <1>12, <1>13, <1>14 DEF Next

\* No step of a request, of an administrator or of a restart leaves the state badly typed.
THEOREM GateTyped == Spec => []TypeOK
BY TypeInit, TypeStep, PTL DEF Spec


-----------------------------------------------------------------------------

\* What Redis let through in a window was counted there, whatever else was.
PassesCounted == \A k \in Keys, b \in Buckets : passed[k][b] <= windowCount[b]

LimitInv == TypeOK /\ PassesCounted /\ LimitHolds

LEMMA LimitInit == Init => LimitInv
<1> SUFFICES ASSUME Init
             PROVE  PassesCounted /\ LimitHolds
    BY TypeInit DEF LimitInv
<1>1. \A k \in Keys : Limit[k] \in Nat
    BY GateAssumption DEF GateAssumption
<1> QED BY <1>1 DEF Init, PassesCounted, LimitHolds

LEMMA LimitStep == LimitInv /\ [Next]_vars => LimitInv'
<1> SUFFICES ASSUME LimitInv, [Next]_vars
             PROVE  (PassesCounted /\ LimitHolds)'
    BY TypeStep DEF LimitInv
<1>0. /\ TypeOK /\ PassesCounted /\ LimitHolds
      /\ passed \in [Keys -> [Buckets -> Nat]] /\ windowCount \in [Buckets -> Nat]
      /\ Bucket \in Buckets
      /\ \A k \in Keys : Limit[k] \in Nat
    BY BucketsOfNow, GateAssumption DEF LimitInv, TypeOK, GateAssumption
<1>1. ASSUME NEW t \in Reqs, RateRedis(t)
      PROVE  (PassesCounted /\ LimitHolds)'
    <2> DEFINE key == req[t].key
    <2>1. key \in Keys
        BY <1>0, <1>1, InFlightTyped DEF RateRedis
    <2>2. windowCount' = [windowCount EXCEPT ![Bucket] = @ + 1]
        BY <1>1 DEF RateRedis
    <2>3. \/ passed' = passed
          \/ /\ windowCount[Bucket] + 1 <= Limit[key]
             /\ passed' = [passed EXCEPT ![key][Bucket] = @ + 1]
        BY <1>0, <1>1, <2>1 DEF RateRedis
    <2>4. CASE passed' = passed
        BY <1>0, <2>2, <2>4 DEF PassesCounted, LimitHolds
    <2>5. CASE /\ windowCount[Bucket] + 1 <= Limit[key]
               /\ passed' = [passed EXCEPT ![key][Bucket] = @ + 1]
        <3>1. passed[key][Bucket] <= windowCount[Bucket]
            BY <1>0, <2>1 DEF PassesCounted
        <3> QED BY <1>0, <2>1, <2>2, <2>5, <3>1 DEF PassesCounted, LimitHolds
    <2> QED BY <2>3, <2>4, <2>5
<1>2. ASSUME NEW t \in Reqs, RateLocal(t)
      PROVE  (PassesCounted /\ LimitHolds)'
    <2>1. passed' = passed /\ windowCount' \in {windowCount, [windowCount EXCEPT ![Bucket] = @ + 1]}
        BY <1>2 DEF RateLocal
    <2>2. \A b \in Buckets : windowCount'[b] \in Nat /\ windowCount'[b] >= windowCount[b]
        BY <1>0, <2>1
    <2> QED BY <1>0, <2>1, <2>2 DEF PassesCounted, LimitHolds
<1>3. CASE UNCHANGED <<passed, windowCount>>
    BY <1>0, <1>3 DEF PassesCounted, LimitHolds
<1>4. \/ UNCHANGED <<passed, windowCount>>
      \/ \E t \in Reqs : RateRedis(t) \/ RateLocal(t)
    BY DEF Next, Arrive, Resolve, QuotaRedis, QuotaFails, QuotaExpires, QuotaDb, Refuse403, Serve,
           Record, RecordFails, WorkerRestart, Create, Rotate, Revoke, Tick, vars, keyVars, counterVars, pastVars
<1> QED BY <1>1, <1>2, <1>3, <1>4

\* While Redis answers, no key is let through a window more often than its limit by any number
\* of workers: the counter is incremented before it is compared.
THEOREM LimitCorrect == Spec => []LimitHolds
<1>1. LimitInv => LimitHolds
    BY DEF LimitInv
<1> QED BY <1>1, LimitInit, LimitStep, PTL DEF Spec

-----------------------------------------------------------------------------

\* A dead secret waits at the lookup and stays invalid: generations only grow.
DeadInvalid ==
    \A t \in Reqs : req[t].dead =>
        /\ req[t].pc = "resolve"
        /\ req[t].key \in Keys /\ req[t].gen <= keyGen[req[t].key]
        /\ ~Valid(req[t].key, req[t].gen)

DeadInv == TypeOK /\ DeadInvalid

LEMMA DeadStep == DeadInv /\ [Next]_vars => DeadInv'
<1> SUFFICES ASSUME DeadInv, [Next]_vars
             PROVE  DeadInvalid'
    BY TypeStep DEF DeadInv
<1>0. /\ TypeOK /\ ReqsTyped /\ DeadInvalid
      /\ keyGen \in [Keys -> Nat] /\ keyActive \in [Keys -> BOOLEAN]
    BY DEF DeadInv, TypeOK
<1>1. ASSUME NEW t \in Reqs, NEW w \in Workers, NEW k \in Keys, NEW g \in 1..MaxGen,
             NEW admin \in BOOLEAN, Arrive(t, w, k, g, admin)
      PROVE  DeadInvalid'
    <2>1. /\ g \in Nat /\ g <= keyGen[k]
          /\ keyGen' = keyGen /\ keyActive' = keyActive
          /\ req' = [req EXCEPT ![t] = [pc |-> "resolve", worker |-> w, key |-> k, gen |-> g,
                                        admin |-> admin, dead |-> ~Valid(k, g)]]
        BY <1>0, <1>1 DEF Arrive, keyVars
    <2> QED BY <1>0, <2>1 DEF DeadInvalid, Valid, ReqsTyped
<1>2. ASSUME NEW t \in Reqs, Resolve(t)
      PROVE  DeadInvalid'
    <2>1. keyGen' = keyGen /\ keyActive' = keyActive
        BY <1>2 DEF Resolve, keyVars
    <2>2. CASE Ends(t)
        BY <1>0, <2>1, <2>2 DEF Ends, NoReq, DeadInvalid, Valid, ReqsTyped
    <2>3. CASE Valid(req[t].key, req[t].gen) /\ Goes(t, "rate")
        BY <1>0, <2>1, <2>3 DEF Goes, DeadInvalid, Valid, ReqsTyped, Request
    <2> QED BY <1>2, <2>2, <2>3 DEF Resolve
<1>3. ASSUME NEW t \in Reqs, req[t].pc # "resolve", NEW pc, Ends(t) \/ Goes(t, pc),
             UNCHANGED keyVars
      PROVE  DeadInvalid'
    BY <1>0, <1>3 DEF Ends, Goes, NoReq, DeadInvalid, Valid, ReqsTyped, Request, keyVars
<1>4. ASSUME NEW t \in Reqs, RateRedis(t) \/ RateLocal(t) \/ QuotaRedis(t) \/ QuotaFails(t)
                              \/ QuotaDb(t) \/ Refuse403(t) \/ Serve(t) \/ Record(t) \/ RecordFails(t)
      PROVE  DeadInvalid'
    <2>1. req[t].pc # "resolve" /\ UNCHANGED keyVars
        BY <1>4 DEF RateRedis, RateLocal, QuotaRedis, QuotaFails, QuotaDb, Refuse403, Serve, Record, RecordFails
    <2>2. Ends(t) \/ \E pc \in {AfterRate(t), "serve", "dbquota", "record"} : Goes(t, pc)
        BY <1>4 DEF RateRedis, RateLocal, QuotaRedis, QuotaFails, QuotaDb, Refuse403, Serve, Record,
                    RecordFails
    <2> QED BY <1>3, <2>1, <2>2
<1>5. ASSUME NEW w \in Workers, WorkerRestart(w)
      PROVE  DeadInvalid'
    BY <1>0, <1>5 DEF WorkerRestart, NoReq, DeadInvalid, Valid, ReqsTyped, keyVars
<1>6. ASSUME NEW k \in Keys, Create(k) \/ Rotate(k) \/ Revoke(k)
      PROVE  DeadInvalid'
    <2>1. req' = req
        BY <1>6 DEF Create, Rotate, Revoke
    <2>2. \A j \in Keys \ {k} : keyGen'[j] = keyGen[j] /\ keyActive'[j] = keyActive[j]
        BY <1>0, <1>6 DEF Create, Rotate, Revoke
    <2>3. \/ keyGen'[k] = keyGen[k] + 1
          \/ keyGen'[k] = keyGen[k] /\ ~keyActive'[k]
        BY <1>0, <1>6 DEF Create, Rotate, Revoke
    <2> QED BY <1>0, <2>1, <2>2, <2>3 DEF DeadInvalid, Valid, ReqsTyped, Request
<1>7. CASE UNCHANGED <<keyGen, keyActive, req>>
    BY <1>0, <1>7 DEF DeadInvalid, Valid
<1>8. QuotaExpires \/ Tick \/ UNCHANGED vars => UNCHANGED <<keyGen, keyActive, req>>
    BY DEF QuotaExpires, Tick, vars, keyVars
<1> QED BY <1>1, <1>2, <1>4, <1>5, <1>6, <1>7, <1>8 DEF Next

\* A secret that was rotated away or revoked before a request came with it never gets the
\* request past the gate, whatever administrators do while it waits.
THEOREM DeadSecrets == Spec => []DeadSecretsStayDead
<1>1. Init => DeadInv
    BY TypeInit DEF Init, NoReq, DeadInv, DeadInvalid
<1>2. DeadInv => DeadSecretsStayDead
    BY DEF DeadInv, DeadInvalid, DeadSecretsStayDead
<1> QED BY <1>1, <1>2, DeadStep, PTL DEF Spec


-----------------------------------------------------------------------------

\* The moments of a bucket, and the bucket of the next moment.
LEMMA BucketSpan ==
    ASSUME NEW n \in Nat, NEW m \in Nat \ {0}
    PROVE  /\ n \div m \in Nat
           /\ m * (n \div m) \in Nat
           /\ m * (n \div m) <= n /\ n < m * (n \div m) + m
BY SMTT(30)

LEMMA NextBucket ==
    ASSUME NEW n \in Nat, NEW m \in Nat \ {0}
    PROVE  \/ (n + 1) \div m = n \div m
           \/ (n + 1) \div m = n \div m + 1 /\ m * ((n + 1) \div m) = m * (n \div m) + m
<1> DEFINE q == n \div m
           r == (n + 1) \div m
<1>1. q \in Nat /\ m * q <= n /\ n < m * q + m
    BY BucketSpan
<1>2. r \in Nat /\ m * r <= n + 1 /\ n + 1 < m * r + m
    BY BucketSpan
<1>3. ~(r < q)
    <2>1. SUFFICES ASSUME r + 1 <= q
                   PROVE  FALSE
        BY <1>1, <1>2
    <2>2. m * (r + 1) <= m * q
        BY <1>1, <1>2, <2>1
    <2> QED BY <1>1, <1>2, <2>2
<1>4. ~(q + 1 < r)
    <2>1. SUFFICES ASSUME q + 2 <= r
                   PROVE  FALSE
        BY <1>1, <1>2
    <2>2. m * (q + 2) <= m * r
        BY <1>1, <1>2, <2>1
    <2> QED BY <1>1, <1>2, <2>2
<1>5. r = q \/ r = q + 1
    BY <1>1, <1>2, <1>3, <1>4
<1>6. m * (q + 1) = m * q + m
    BY <1>1
<1> QED BY <1>5, <1>6


-----------------------------------------------------------------------------

\* The first moment of the current bucket.
Since == Window * Bucket

\* A worker's window ends within its length and has counted its first request.
WindowsCount ==
    \A w \in Workers : /\ local[w].reset <= now + Window
                       /\ local[w].reset > 0 => local[w].count >= 1

\* What a worker let through in the current bucket: a window that opened in the bucket adds
\* its count to the rest of the one before; one that opened earlier had its first request then.
PassesFit ==
    \A w \in Workers, k \in Keys :
        /\ local[w].reset >= Since + Window =>
              passedLocal[w][k][Bucket] <= Limit[k] - 1 + local[w].count
        /\ local[w].reset < Since + Window => passedLocal[w][k][Bucket] <= Limit[k] - 1
        /\ local[w].reset \in (Since + 1)..(Since + Window - 1) =>
              passedLocal[w][k][Bucket] <= local[w].count - 1
        /\ local[w].reset <= Since => passedLocal[w][k][Bucket] = 0

NoneLater ==
    \A w \in Workers, k \in Keys, b \in Buckets : b > Bucket => passedLocal[w][k][b] = 0

LocalWindows == WindowsCount /\ PassesFit /\ NoneLater

FallbackInv == TypeOK /\ LocalWindows /\ FallbackBounded


LEMMA FallbackInit == Init => FallbackInv
<1> SUFFICES ASSUME Init
             PROVE  LocalWindows /\ FallbackBounded
    BY TypeInit DEF FallbackInv
<1>1. /\ TypeOK /\ Window \in Nat \ {0} /\ now = 0
      /\ \A k \in Keys : Limit[k] \in Nat \ {0}
      /\ \A w \in Workers : local[w].reset = 0
      /\ \A w \in Workers, k \in Keys, b \in Buckets : passedLocal[w][k][b] = 0
    BY TypeInit, GateAssumption DEF Init, GateAssumption
<1>2. Bucket \in Buckets
    BY <1>1, BucketsOfNow
<1>3. Since \in Nat /\ Since <= now
    BY <1>1, BucketSpan DEF Since, Bucket
<1>4. Since = 0
    BY <1>1, <1>3
<1> QED BY <1>1, <1>2, <1>4 DEF LocalWindows, WindowsCount, PassesFit, NoneLater, FallbackBounded

LEMMA FallbackStep == FallbackInv /\ [Next]_vars => FallbackInv'
<1> SUFFICES ASSUME FallbackInv, [Next]_vars
             PROVE  (LocalWindows /\ FallbackBounded)'
    BY TypeStep DEF FallbackInv
<1>0. /\ TypeOK /\ LocalWindows /\ FallbackBounded
      /\ local \in [Workers -> [count : Nat, reset : Nat]]
      /\ passedLocal \in [Workers -> [Keys -> [Buckets -> Nat]]]
      /\ now \in Nat /\ MaxTime \in Nat /\ Window \in Nat \ {0}
      /\ \A k \in Keys : Limit[k] \in Nat \ {0}
    BY GateAssumption DEF FallbackInv, TypeOK, GateAssumption
<1>b. Bucket \in Buckets /\ Bucket \in Nat /\ Buckets \subseteq Nat
    BY <1>0, BucketsOfNow DEF Buckets
<1>s. Since \in Nat /\ Since <= now /\ now < Since + Window
    BY <1>0, BucketSpan DEF Since, Bucket
<1>1. ASSUME NEW t \in Reqs, RateLocal(t)
      PROVE  (LocalWindows /\ FallbackBounded)'
    <2> DEFINE v == req[t].worker
               j == req[t].key
               open == now < local[v].reset
               n == IF open THEN local[v].count + 1 ELSE 1
               e == IF open THEN local[v].reset ELSE now + Window
    <2>1. v \in Workers /\ j \in Keys
        BY <1>0, <1>1, InFlightTyped DEF RateLocal
    <2>2. /\ now' = now /\ Bucket' = Bucket /\ Since' = Since
          /\ local' = [local EXCEPT ![v] = [count |-> n, reset |-> e]]
        BY <1>1 DEF RateLocal, Since, Bucket
    <2>3. local[v].count \in Nat /\ local[v].reset \in Nat
        BY <1>0, <2>1
    <2>4. n \in Nat /\ e \in Nat /\ n >= 1
        BY <1>0, <2>3
    <2> HIDE DEF n, e
    <2>5. local'[v] = [count |-> n, reset |-> e] /\ \A w \in Workers \ {v} : local'[w] = local[w]
        BY <1>0, <2>1, <2>2
    <2>6. \/ passedLocal' = passedLocal
          \/ n <= Limit[j] /\ passedLocal' = [passedLocal EXCEPT ![v][j][Bucket] = @ + 1]
        <3>1. IF n > Limit[j] THEN UNCHANGED passedLocal
              ELSE passedLocal' = [passedLocal EXCEPT ![v][j][Bucket] = @ + 1]
            BY <1>1 DEF RateLocal, n
        <3> QED BY <1>0, <2>1, <2>4, <3>1
    <2>7. /\ \A w \in Workers \ {v} : passedLocal'[w] = passedLocal[w]
          /\ \A k \in Keys : \A b \in Buckets \ {Bucket} : passedLocal'[v][k][b] = passedLocal[v][k][b]
          /\ \A k \in Keys : \/ passedLocal'[v][k][Bucket] = passedLocal[v][k][Bucket]
                             \/ /\ n <= Limit[k]
                                /\ passedLocal'[v][k][Bucket] = passedLocal[v][k][Bucket] + 1
        <3>1. CASE passedLocal' = passedLocal
            BY <3>1
        <3>2. CASE n <= Limit[j] /\ passedLocal' = [passedLocal EXCEPT ![v][j][Bucket] = @ + 1]
            <4>1. /\ passedLocal[v] \in [Keys -> [Buckets -> Nat]] /\ passedLocal[v][j] \in [Buckets -> Nat]
                BY <1>0, <2>1
            <4>2. passedLocal'[v] = [passedLocal[v] EXCEPT ![j][Bucket] = @ + 1]
                BY <1>0, <2>1, <3>2
            <4>3. passedLocal'[v][j] = [passedLocal[v][j] EXCEPT ![Bucket] = @ + 1]
                BY <2>1, <4>1, <4>2
            <4>4. \A k \in Keys \ {j} : passedLocal'[v][k] = passedLocal[v][k]
                BY <2>1, <4>1, <4>2
            <4>5. \A w \in Workers \ {v} : passedLocal'[w] = passedLocal[w]
                BY <1>0, <2>1, <3>2
            <4>6. /\ passedLocal'[v][j][Bucket] = passedLocal[v][j][Bucket] + 1
                  /\ \A b \in Buckets \ {Bucket} : passedLocal'[v][j][b] = passedLocal[v][j][b]
                BY <1>b, <1>s, <4>1, <4>3
            <4>7. n <= Limit[j]
                BY <3>2
            <4>8. ASSUME NEW k \in Keys
                  PROVE  /\ \A b \in Buckets \ {Bucket} : passedLocal'[v][k][b] = passedLocal[v][k][b]
                         /\ \/ passedLocal'[v][k][Bucket] = passedLocal[v][k][Bucket]
                            \/ /\ n <= Limit[k]
                               /\ passedLocal'[v][k][Bucket] = passedLocal[v][k][Bucket] + 1
                <5>1. CASE k = j
                    BY <4>6, <4>7, <5>1
                <5>2. CASE k # j
                    BY <4>4, <5>2
                <5> QED BY <5>1, <5>2
            <4> QED BY <4>5, <4>8
        <3> QED BY <2>6, <3>1, <3>2
    <2>8. ASSUME NEW k \in Keys
          PROVE  /\ passedLocal[v][k][Bucket] \in Nat /\ Limit[k] \in Nat \ {0}
                 /\ e >= Since + Window => passedLocal'[v][k][Bucket] <= Limit[k] - 1 + n
                 /\ e < Since + Window => passedLocal'[v][k][Bucket] <= Limit[k] - 1
                 /\ e \in (Since + 1)..(Since + Window - 1) => passedLocal'[v][k][Bucket] <= n - 1
                 /\ e > Since
                 /\ passedLocal'[v][k][Bucket] <= 2 * Limit[k] - 1
        <3> DEFINE p == passedLocal[v][k][Bucket]
                   q == passedLocal'[v][k][Bucket]
                   c == local[v].count
                   r == local[v].reset
                   l == Limit[k]
        <3>1. p \in Nat /\ l \in Nat \ {0}
            BY <1>0, <1>b, <1>s, <2>1
        <3>2. q = p \/ (n <= l /\ q = p + 1)
            BY <2>7
        <3>3. /\ p <= 2 * l - 1
              /\ r > 0 => c >= 1
              /\ r >= Since + Window => p <= l - 1 + c
              /\ r < Since + Window => p <= l - 1
              /\ r \in (Since + 1)..(Since + Window - 1) => p <= c - 1
              /\ r <= Since => p = 0
            BY <1>0, <1>b, <1>s, <2>1 DEF LocalWindows, WindowsCount, PassesFit, NoneLater, FallbackBounded
        <3> HIDE DEF p, q, c, r, l
        <3>4. CASE now < r
            <4>1. n = c + 1 /\ e = r
                BY <3>4 DEF n, e, c, r
            <4> QED BY <1>0, <1>b, <1>s, <2>3, <3>1, <3>2, <3>3, <3>4, <4>1 DEF p, q, l, c, r
        <3>5. CASE ~(now < r)
            <4>1. n = 1 /\ e = now + Window
                BY <3>5 DEF n, e, r
            <4> QED BY <1>0, <1>b, <1>s, <2>3, <3>1, <3>2, <3>3, <3>5, <4>1 DEF p, q, l, c, r
        <3> QED BY <3>4, <3>5
    <2>9. e <= now + Window
        BY <1>0, <2>1 DEF e, LocalWindows, WindowsCount
    <2>10. LocalWindows'
        <3>1. \A w \in Workers : w # v => local'[w] = local[w] /\ passedLocal'[w] = passedLocal[w]
            BY <2>5, <2>7
        <3>2. local'[v].count = n /\ local'[v].reset = e
            BY <2>5
        <3>3. WindowsCount'
            <4>1. \A w \in Workers : /\ local'[w].reset <= now + Window
                                     /\ local'[w].reset > 0 => local'[w].count >= 1
                BY <1>0, <2>4, <2>9, <3>1, <3>2 DEF LocalWindows, WindowsCount
            <4> QED BY <2>2, <4>1 DEF WindowsCount
        <3>4. PassesFit'
            <4>1. \A k \in Keys :
                    /\ local'[v].reset >= Since + Window =>
                          passedLocal'[v][k][Bucket] <= Limit[k] - 1 + local'[v].count
                    /\ local'[v].reset < Since + Window => passedLocal'[v][k][Bucket] <= Limit[k] - 1
                    /\ local'[v].reset \in (Since + 1)..(Since + Window - 1) =>
                          passedLocal'[v][k][Bucket] <= local'[v].count - 1
                    /\ local'[v].reset <= Since => passedLocal'[v][k][Bucket] = 0
                BY <1>b, <1>s, <2>4, <2>8, <3>2
            <4>2. \A w \in Workers, k \in Keys :
                    /\ local'[w].reset >= Since + Window =>
                          passedLocal'[w][k][Bucket] <= Limit[k] - 1 + local'[w].count
                    /\ local'[w].reset < Since + Window => passedLocal'[w][k][Bucket] <= Limit[k] - 1
                    /\ local'[w].reset \in (Since + 1)..(Since + Window - 1) =>
                          passedLocal'[w][k][Bucket] <= local'[w].count - 1
                    /\ local'[w].reset <= Since => passedLocal'[w][k][Bucket] = 0
                BY <1>0, <3>1, <4>1 DEF LocalWindows, PassesFit
            <4> QED BY <2>2, <4>2 DEF PassesFit
        <3>5. NoneLater'
            <4>1. ASSUME NEW w \in Workers, NEW k \in Keys, NEW b \in Buckets, b > Bucket
                  PROVE  passedLocal'[w][k][b] = 0
                <5>1. b # Bucket /\ passedLocal[w][k][b] = 0
                    BY <1>0, <1>b, <1>s, <4>1 DEF LocalWindows, NoneLater
                <5> QED BY <2>7, <3>1, <5>1
            <4> QED BY <2>2, <4>1 DEF NoneLater
        <3> QED BY <3>3, <3>4, <3>5 DEF LocalWindows
    <2>11. FallbackBounded'
        <3> SUFFICES ASSUME NEW w \in Workers, NEW k \in Keys, NEW b \in Buckets
                     PROVE  passedLocal'[w][k][b] <= 2 * Limit[k] - 1
            BY DEF FallbackBounded
        <3>1. passedLocal[w][k][b] <= 2 * Limit[k] - 1
            BY <1>0 DEF FallbackBounded
        <3>2. CASE w # v
            BY <2>7, <3>1, <3>2
        <3>3. CASE w = v /\ b # Bucket
            BY <2>7, <3>1, <3>3
        <3>4. CASE w = v /\ b = Bucket
            BY <2>8, <3>4
        <3> QED BY <3>2, <3>3, <3>4
    <2> QED BY <2>10, <2>11
<1>2. ASSUME NEW v \in Workers, WorkerRestart(v)
      PROVE  (LocalWindows /\ FallbackBounded)'
    <2>1. /\ now' = now /\ Bucket' = Bucket /\ Since' = Since
          /\ local'[v] = [count |-> 0, reset |-> 0]
          /\ \A k \in Keys, b \in Buckets : passedLocal'[v][k][b] = 0
          /\ \A w \in Workers : w # v => local'[w] = local[w] /\ passedLocal'[w] = passedLocal[w]
        BY <1>0, <1>2 DEF WorkerRestart, Since, Bucket
    <2>2. FallbackBounded'
        BY <1>0, <2>1 DEF FallbackBounded
    <2>3. LocalWindows'
        <3>1. WindowsCount'
            BY <1>0, <2>1 DEF LocalWindows, WindowsCount
        <3>2. local'[v].reset = 0 /\ \A k \in Keys : passedLocal'[v][k][Bucket] = 0 /\ 0 <= Limit[k] - 1
            BY <1>0, <1>b, <1>s, <2>1
        <3>3. PassesFit'
            <4> SUFFICES ASSUME NEW w \in Workers, NEW k \in Keys
                         PROVE  LET p == passedLocal'[w][k][Bucket]
                                    r == local'[w].reset
                                IN  /\ r >= Since + Window => p <= Limit[k] - 1 + local'[w].count
                                    /\ r < Since + Window => p <= Limit[k] - 1
                                    /\ r \in (Since + 1)..(Since + Window - 1) => p <= local'[w].count - 1
                                    /\ r <= Since => p = 0
                BY <2>1 DEF PassesFit
            <4>1. CASE w = v
                BY <1>0, <1>b, <1>s, <3>2, <4>1
            <4>2. CASE w # v
                BY <1>0, <2>1, <4>2 DEF LocalWindows, PassesFit
            <4> QED BY <4>1, <4>2
        <3>4. NoneLater'
            BY <1>0, <2>1 DEF LocalWindows, NoneLater
        <3> QED BY <3>1, <3>3, <3>4 DEF LocalWindows
    <2> QED BY <2>2, <2>3
<1>3. CASE Tick
    <2>1. now' = now + 1 /\ local' = local /\ passedLocal' = passedLocal
        BY <1>3 DEF Tick, counterVars, pastVars
    <2>2. FallbackBounded'
        BY <1>0, <2>1 DEF FallbackBounded
    <2>3. \/ Bucket' = Bucket /\ Since' = Since
          \/ Bucket' = Bucket + 1 /\ Since' = Since + Window
        BY <1>0, <2>1, NextBucket DEF Bucket, Since
    <2>4. Bucket' \in Buckets
        <3>1. now' \in Nat /\ now' <= MaxTime
            BY <1>0, <1>3 DEF Tick
        <3>2. now' \div Window \in 0..now'
            BY <1>0, <3>1, Bucketed
        <3> DEFINE x == now' \div Window
        <3> HIDE DEF x
        <3>3. x \in 0..now'
            BY <3>2 DEF x
        <3>4. x \in 0..MaxTime
            BY <1>0, <3>1, <3>3
        <3> QED BY <3>4 DEF x, Bucket, Buckets
    <2>5. CASE Bucket' = Bucket /\ Since' = Since
        <3>1. WindowsCount'
            BY <1>0, <2>1 DEF LocalWindows, WindowsCount
        <3>2. PassesFit'
            BY <1>0, <2>1, <2>5 DEF LocalWindows, PassesFit
        <3>3. NoneLater'
            BY <1>0, <2>1, <2>5 DEF LocalWindows, NoneLater
        <3> QED BY <2>2, <3>1, <3>2, <3>3 DEF LocalWindows
    <2>6. CASE Bucket' = Bucket + 1 /\ Since' = Since + Window
        <3>1. WindowsCount'
            BY <1>0, <2>1 DEF LocalWindows, WindowsCount
        <3>2. ASSUME NEW w \in Workers, NEW k \in Keys, NEW b \in Buckets, b >= Bucket + 1
              PROVE  passedLocal[w][k][b] = 0
            BY <1>0, <1>b, <1>s, <3>2 DEF LocalWindows, NoneLater
        <3>3. NoneLater'
            BY <1>b, <1>s, <2>1, <2>6, <3>2 DEF NoneLater
        <3>4. ASSUME NEW w \in Workers, NEW k \in Keys
              PROVE  /\ local[w].reset < (Since + Window) + Window
                     /\ passedLocal[w][k][Bucket + 1] = 0
                     /\ local[w].reset > 0 => 0 <= local[w].count - 1
                     /\ 0 <= Limit[k] - 1
                     /\ local[w].reset \in Nat
            BY <1>0, <1>b, <1>s, <2>4, <2>6, <3>2 DEF LocalWindows, WindowsCount
        <3>5. PassesFit'
            <4> SUFFICES ASSUME NEW w \in Workers, NEW k \in Keys
                         PROVE  LET p == passedLocal[w][k][Bucket + 1]
                                    r == local[w].reset
                                    i == Since + Window
                                IN  /\ r >= i + Window => p <= Limit[k] - 1 + local[w].count
                                    /\ r < i + Window => p <= Limit[k] - 1
                                    /\ r \in (i + 1)..(i + Window - 1) => p <= local[w].count - 1
                                    /\ r <= i => p = 0
                BY <2>1, <2>6 DEF PassesFit
            <4> QED BY <1>0, <1>b, <1>s, <3>4
        <3> QED BY <2>2, <3>1, <3>3, <3>5 DEF LocalWindows
    <2> QED BY <2>2, <2>3, <2>5, <2>6
<1>4. CASE UNCHANGED <<local, passedLocal, now>>
    <2>1. Bucket' = Bucket /\ Since' = Since
        BY <1>4 DEF Bucket, Since
    <2> QED BY <1>0, <1>4, <2>1 DEF LocalWindows, WindowsCount, PassesFit, NoneLater, FallbackBounded
<1>5. \/ UNCHANGED <<local, passedLocal, now>> \/ Tick
      \/ \E t \in Reqs : RateLocal(t)
      \/ \E w \in Workers : WorkerRestart(w)
    BY DEF Next, Arrive, Resolve, RateRedis, QuotaRedis, QuotaFails, QuotaExpires, QuotaDb, Refuse403,
           Serve, Record, RecordFails, Create, Rotate, Revoke, vars, keyVars, counterVars, pastVars
<1> QED BY <1>1, <1>2, <1>3, <1>4, <1>5

\* Without Redis a worker lets through less than twice a key's limit in a bucket of the clock.
THEOREM FallbackCorrect == Spec => []FallbackBounded
<1>1. FallbackInv => FallbackBounded
    BY DEF FallbackInv
<1> QED BY <1>1, FallbackInit, FallbackStep, PTL DEF Spec

-----------------------------------------------------------------------------
(* The quota: who was served on a day and who waits to be                  *)

Metered == {k \in Keys : Quota[k] # NoQuota}

\* Requests of a key that have only the handler before them.
Waiting(k) == {t \in Reqs : req[t].pc = "serve" /\ req[t].key = k}
Waiters(k) == Cardinality(Waiting(k))

\* Requests that have been served and whose row is not written yet.
Recording == {t \in Reqs : req[t].pc = "record"}
Recorders == Cardinality(Recording)

\* What the Redis counter has let through of the quota today, at most, with the one time it may
\* have started again.
Counting(k) == IF dayCount[Today] <= Quota[k] THEN dayCount[Today] ELSE Quota[k]
Granted(k) == IF expiry[Today] = "expired" THEN Quota[k] + Counting(k) ELSE Counting(k)

\* A request that was served today has left a row, is about to, or is one of the faults.
RowsLeft == \A k \in Keys : served[k][Today] <= usage[Today] + faults + Recorders

NoneTomorrow == \A k \in Keys, d \in Days : d > Today => served[k][d] = 0

Room == \A k \in Metered :
           served[k][Today] + Waiters(k) <= Quota[k] - 1 + Cardinality(Reqs) + faults + Granted(k)

PastDays == \A k \in Metered, d \in Days :
               d < Today => served[k][d] <= 3 * Quota[k] - 1 + Cardinality(Reqs) + faults

QuotaInv == TypeOK /\ RowsLeft /\ NoneTomorrow /\ Room /\ PastDays

\* A set of requests is counted, and what it gains or loses.
LEMMA CountedIn ==
    ASSUME NEW T, IsFiniteSet(T), NEW S \in SUBSET T
    PROVE  IsFiniteSet(S) /\ Cardinality(S) \in Nat /\ Cardinality(S) <= Cardinality(T)
BY FS_Subset, FS_CardinalityType

LEMMA OneMore ==
    ASSUME NEW T, IsFiniteSet(T), NEW t, NEW S \in SUBSET (T \cup {t})
    PROVE  Cardinality(S) \in Nat /\ Cardinality(S) <= Cardinality(T) + 1
<1>0. Cardinality(T) \in Nat
    BY FS_CardinalityType
<1>1. IsFiniteSet(T \cup {t}) /\ Cardinality(T \cup {t}) <= Cardinality(T) + 1
    <2>1. CASE t \in T
        BY <1>0, <2>1, FS_AddElement
    <2>2. CASE t \notin T
        BY <1>0, <2>2, FS_AddElement
    <2> QED BY <2>1, <2>2
<1>2. Cardinality(T) \in Nat /\ Cardinality(T \cup {t}) \in Nat
    BY <1>1, FS_CardinalityType
<1>3. Cardinality(S) \in Nat /\ Cardinality(S) <= Cardinality(T \cup {t})
    BY <1>1, CountedIn
<1> QED BY <1>1, <1>2, <1>3

LEMMA OneLess ==
    ASSUME NEW T, IsFiniteSet(T), NEW t \in T, NEW S \in SUBSET (T \ {t})
    PROVE  Cardinality(S) \in Nat /\ Cardinality(S) <= Cardinality(T) - 1
<1>1. IsFiniteSet(T \ {t}) /\ Cardinality(T \ {t}) = Cardinality(T) - 1
    BY FS_RemoveElement
<1> QED BY <1>1, CountedIn

LEMMA WaitersAre ==
    ASSUME NEW k
    PROVE  /\ IsFiniteSet(Waiting(k)) /\ Waiters(k) \in Nat
           /\ IsFiniteSet(Recording) /\ Recorders \in Nat
           /\ Cardinality(Reqs) \in Nat
           /\ Waiters(k) + Recorders <= Cardinality(Reqs)
<1>1. IsFiniteSet(Reqs) /\ Waiting(k) \subseteq Reqs /\ Recording \subseteq Reqs
    BY GateAssumption DEF GateAssumption, Waiting, Recording
<1>2. /\ IsFiniteSet(Waiting(k)) /\ Waiters(k) \in Nat /\ IsFiniteSet(Recording) /\ Recorders \in Nat
      /\ Cardinality(Reqs) \in Nat
    BY <1>1, FS_Subset, FS_CardinalityType DEF Waiters, Recorders
<1>3. Waiting(k) \cap Recording = {}
    BY DEF Waiting, Recording
<1>4. Cardinality(Waiting(k) \cup Recording) = Waiters(k) + Recorders
    <2>1. /\ Cardinality(Waiting(k) \cup Recording)
                = Cardinality(Waiting(k)) + Cardinality(Recording) - Cardinality(Waiting(k) \cap Recording)
        BY <1>2, FS_Union
    <2> QED BY <1>2, <1>3, <2>1, FS_EmptySet DEF Waiters, Recorders
<1>5. Cardinality(Waiting(k) \cup Recording) <= Cardinality(Reqs)
    BY <1>1, FS_Subset
<1> QED BY <1>2, <1>4, <1>5

\* In the state after a step too.
LEMMA WaitersStep ==
    ASSUME NEW k
    PROVE  /\ Waiters(k)' \in Nat /\ Recorders' \in Nat /\ Cardinality(Reqs) \in Nat
           /\ Waiters(k)' + Recorders' <= Cardinality(Reqs)
           /\ Waiting(k)' \subseteq Waiting(k) => Waiters(k)' <= Waiters(k)
           /\ \A t : Waiting(k)' \subseteq Waiting(k) \cup {t} => Waiters(k)' <= Waiters(k) + 1
           /\ \A t \in Waiting(k) : Waiting(k)' \subseteq Waiting(k) \ {t} =>
                 Waiters(k)' <= Waiters(k) - 1
<1>1. IsFiniteSet(Reqs) /\ Waiting(k)' \subseteq Reqs /\ Recording' \subseteq Reqs
    BY GateAssumption DEF GateAssumption, Waiting, Recording
<1>2. /\ IsFiniteSet(Waiting(k)') /\ Waiters(k)' \in Nat /\ IsFiniteSet(Recording') /\ Recorders' \in Nat
      /\ Cardinality(Reqs) \in Nat
    BY <1>1, FS_Subset, FS_CardinalityType DEF Waiters, Recorders
<1>3. Waiting(k)' \cap Recording' = {}
    BY DEF Waiting, Recording
<1>4. Cardinality(Waiting(k)' \cup Recording') = Waiters(k)' + Recorders'
    <2>1. /\ Cardinality(Waiting(k)' \cup Recording')
                = Cardinality(Waiting(k)') + Cardinality(Recording') - Cardinality(Waiting(k)' \cap Recording')
        BY <1>2, FS_Union
    <2> QED BY <1>2, <1>3, <2>1, FS_EmptySet DEF Waiters, Recorders
<1>5. Cardinality(Waiting(k)' \cup Recording') <= Cardinality(Reqs)
    BY <1>1, FS_Subset
<1>6. IsFiniteSet(Waiting(k))
    BY WaitersAre
<1>7. Waiting(k)' \subseteq Waiting(k) => Waiters(k)' <= Waiters(k)
    BY <1>6, CountedIn DEF Waiters
<1>8. \A t : Waiting(k)' \subseteq Waiting(k) \cup {t} => Waiters(k)' <= Waiters(k) + 1
    BY <1>6, OneMore DEF Waiters
<1>9. \A t \in Waiting(k) : Waiting(k)' \subseteq Waiting(k) \ {t} => Waiters(k)' <= Waiters(k) - 1
    BY <1>6, OneLess DEF Waiters
<1> QED BY <1>2, <1>4, <1>5, <1>7, <1>8, <1>9

\* A request that ends no longer waits; one that goes on waits or does not.
LEMMA EndsWaiting ==
    ASSUME TypeOK, NEW t \in Reqs, Ends(t)
    PROVE  /\ \A k : Waiting(k)' = Waiting(k) \ {t}
           /\ Recording' = Recording \ {t}
BY DEF Ends, NoReq, Waiting, Recording, TypeOK, ReqsTyped

LEMMA GoesWaiting ==
    ASSUME TypeOK, NEW t \in Reqs, NEW pc, Goes(t, pc)
    PROVE  /\ \A k : pc # "serve" \/ req[t].key # k => Waiting(k)' = Waiting(k) \ {t}
           /\ \A k : Waiting(k)' \subseteq Waiting(k) \cup {t}
           /\ pc # "record" => Recording' = Recording \ {t}
           /\ pc = "record" => Recording' = Recording \cup {t}
<1>1. /\ \A u \in Reqs : u # t => req'[u] = req[u]
      /\ req'[t] = [req[t] EXCEPT !.pc = pc]
    BY DEF Goes, TypeOK, ReqsTyped
<1>2. req[t] \in Request
    BY DEF TypeOK, ReqsTyped
<1>3. req'[t].pc = pc /\ req'[t].key = req[t].key
    BY <1>1, <1>2 DEF Request
<1> QED BY <1>1, <1>3 DEF Waiting, Recording

\* The numbers of one key today.
LEMMA QuotaTyped ==
    ASSUME TypeOK, NEW k \in Metered
    PROVE  /\ k \in Keys /\ Quota[k] \in Nat \ {0}
           /\ Today \in Days /\ faults \in Nat
           /\ dayCount[Today] \in Nat /\ Counting(k) \in 0..Quota[k]
           /\ Granted(k) \in Nat /\ Granted(k) <= 2 * Quota[k]
           /\ \A d \in Days : served[k][d] \in Nat /\ usage[d] \in Nat
<1>1. k \in Keys /\ Quota[k] \in Nat \ {0}
    BY GateAssumption DEF GateAssumption, Metered
<1>2. Today \in Days
    BY BucketsOfNow
<1>3. dayCount[Today] \in Nat /\ faults \in Nat
    BY <1>2 DEF TypeOK
<1>4. Counting(k) \in 0..Quota[k]
    BY <1>1, <1>3 DEF Counting
<1>5. Granted(k) \in Nat /\ Granted(k) <= 2 * Quota[k]
    BY <1>1, <1>4 DEF Granted
<1> QED BY <1>1, <1>2, <1>3, <1>4, <1>5 DEF TypeOK

\* With room a key is within its bound today.
LEMMA RoomIsEnough ==
    ASSUME TypeOK, Room, NEW k \in Metered
    PROVE  served[k][Today] <= 3 * Quota[k] - 1 + Cardinality(Reqs) + faults
<1>1. served[k][Today] + Waiters(k) <= Quota[k] - 1 + Cardinality(Reqs) + faults + Granted(k)
    BY DEF Room
<1>2. /\ Quota[k] \in Nat /\ Granted(k) \in Nat /\ Granted(k) <= 2 * Quota[k] /\ faults \in Nat
      /\ served[k][Today] \in Nat /\ Waiters(k) \in Nat /\ Cardinality(Reqs) \in Nat
    BY QuotaTyped, WaitersAre
<1> QED BY <1>1, <1>2

\* A step within the day leaves what is of other days.
LEMMA KeptToday ==
    ASSUME QuotaInv, TypeOK', now' = now, faults <= faults',
           \A k \in Keys, d \in Days : d # Today => served'[k][d] = served[k][d],
           RowsLeft', Room'
    PROVE  QuotaInv'
<1>1. TypeOK /\ Today' = Today /\ Today \in Days /\ Days \subseteq Int
    BY BucketsOfNow DEF QuotaInv, Today, Days
<1>2. NoneTomorrow'
    <2>1. \A k \in Keys, d \in Days : d > Today => served'[k][d] = 0
        BY <1>1 DEF QuotaInv, NoneTomorrow
    <2> QED BY <1>1, <2>1 DEF NoneTomorrow
<1>3. ASSUME NEW k \in Metered, NEW d \in Days, d < Today
      PROVE  served'[k][d] <= 3 * Quota[k] - 1 + Cardinality(Reqs) + faults'
    <2>1. /\ k \in Keys /\ served[k][d] \in Nat /\ Quota[k] \in Nat /\ Cardinality(Reqs) \in Nat
          /\ served[k][d] <= 3 * Quota[k] - 1 + Cardinality(Reqs) + faults
          /\ faults \in Nat
        BY <1>1, <1>3, QuotaTyped, WaitersAre DEF QuotaInv, PastDays
    <2>2. d # Today /\ faults' \in Nat
        BY <1>1, <1>3 DEF TypeOK
    <2> QED BY <2>1, <2>2
<1>4. PastDays'
    BY <1>1, <1>3 DEF PastDays, Metered
<1> QED BY <1>2, <1>4 DEF QuotaInv

\* What a step leaves of Granted when the counter goes on or stays.
LEMMA GrantedGrows ==
    ASSUME TypeOK, NEW k \in Metered, now' = now,
           dayCount'[Today] \in {dayCount[Today], dayCount[Today] + 1},
           expiry'[Today] = "expired" <=> expiry[Today] = "expired"
    PROVE  /\ Granted(k)' \in Nat /\ Granted(k) <= Granted(k)'
           /\ dayCount'[Today] = dayCount[Today] + 1 /\ dayCount[Today] + 1 <= Quota[k] =>
                 Granted(k)' = Granted(k) + 1
<1>1. Today' = Today
    BY DEF Today
<1>2. Quota[k] \in Nat /\ dayCount[Today] \in Nat
    BY QuotaTyped
<1> QED BY <1>1, <1>2 DEF Granted, Counting

\* Steps that serve nobody and let nobody wait who did not.
QuietStep ==
    /\ UNCHANGED <<usage, served, now, faults>>
    /\ dayCount'[Today] \in {dayCount[Today], dayCount[Today] + 1}
    /\ expiry'[Today] = "expired" <=> expiry[Today] = "expired"
    /\ \A k \in Metered : Waiting(k)' \subseteq Waiting(k)
    /\ Recording' = Recording

LEMMA KeptByQuietStep ==
    ASSUME QuotaInv, TypeOK', QuietStep
    PROVE  QuotaInv'
<1>0. TypeOK
    BY DEF QuotaInv
<1>1. Today' = Today /\ now' = now /\ UNCHANGED <<usage, served, faults>> /\ Recorders' = Recorders
    BY DEF QuietStep, Today, Recorders
<1>2. RowsLeft'
    BY <1>1 DEF QuotaInv, RowsLeft
<1>3. ASSUME NEW k \in Metered
      PROVE  served'[k][Today'] + Waiters(k)'
                <= Quota[k] - 1 + Cardinality(Reqs) + faults' + Granted(k)'
    <2>1. Waiters(k)' <= Waiters(k) /\ Waiters(k)' \in Nat /\ Waiters(k) \in Nat
          /\ Cardinality(Reqs) \in Nat
        BY WaitersStep, WaitersAre DEF QuietStep
    <2>2. /\ Quota[k] \in Nat /\ faults \in Nat /\ served[k][Today] \in Nat /\ Granted(k) \in Nat
        BY <1>0, QuotaTyped
    <2>3. Granted(k)' \in Nat /\ Granted(k) <= Granted(k)'
        BY <1>0, <1>1, GrantedGrows DEF QuietStep
    <2>4. served[k][Today] + Waiters(k)
             <= Quota[k] - 1 + Cardinality(Reqs) + faults + Granted(k)
        BY DEF QuotaInv, Room
    <2> QED BY <1>1, <2>1, <2>2, <2>3, <2>4
<1>4. Room'
    BY <1>3 DEF Room, Metered
<1>5. faults <= faults'
    BY <1>0, <1>1 DEF TypeOK
<1> QED BY <1>1, <1>2, <1>4, <1>5, KeptToday

\* A request at the quota is let through to its handler.
LetThrough(t) ==
    /\ Goes(t, "serve")
    /\ req[t].pc # "record"
    /\ req[t].key \in Metered
    /\ UNCHANGED <<usage, served, now>>
    /\ expiry'[Today] = "expired" <=> expiry[Today] = "expired"
    /\ \/ /\ dayCount'[Today] = dayCount[Today] + 1
          /\ dayCount[Today] + 1 <= Quota[req[t].key] /\ faults' = faults
       \/ usage[Today] < Quota[req[t].key] /\ UNCHANGED <<dayCount, faults>>
       \/ faults' = faults + 1 /\ UNCHANGED dayCount

LEMMA KeptByLetThrough ==
    ASSUME QuotaInv, TypeOK', NEW t \in Reqs, LetThrough(t)
    PROVE  QuotaInv'
<1>0. TypeOK
    BY DEF QuotaInv
<1>1. /\ Today' = Today /\ now' = now /\ UNCHANGED <<usage, served>>
      /\ faults' \in {faults, faults + 1}
      /\ dayCount'[Today] \in {dayCount[Today], dayCount[Today] + 1}
      /\ Recorders' = Recorders
    <2>1. Recording' = Recording
        BY <1>0, GoesWaiting DEF LetThrough, Recording
    <2> QED BY <2>1 DEF LetThrough, Today, Recorders
<1>2. faults \in Nat /\ faults' \in Nat /\ faults <= faults'
    BY <1>0, <1>1 DEF TypeOK
<1>3. ASSUME NEW k \in Keys
      PROVE  /\ served[k][Today] <= usage[Today] + faults + Recorders
             /\ served[k][Today] \in Nat /\ usage[Today] \in Nat /\ Recorders \in Nat
    BY <1>0, BucketsOfNow, WaitersAre DEF QuotaInv, RowsLeft, TypeOK
<1>4. RowsLeft'
    <2>1. ASSUME NEW k \in Keys PROVE served[k][Today] <= usage[Today] + faults' + Recorders
        BY <1>2, <1>3
    <2> QED BY <1>1, <2>1 DEF RowsLeft
<1>6. ASSUME NEW k \in Metered
      PROVE  served'[k][Today'] + Waiters(k)'
                <= Quota[k] - 1 + Cardinality(Reqs) + faults' + Granted(k)'
    <2>1. /\ Waiters(k)' \in Nat /\ Waiters(k) \in Nat /\ Cardinality(Reqs) \in Nat
          /\ Waiters(k)' + Recorders <= Cardinality(Reqs)
          /\ Waiters(k)' <= Waiters(k) + 1
          /\ req[t].key # k => Waiters(k)' <= Waiters(k)
        BY <1>0, <1>1, WaitersStep, WaitersAre, GoesWaiting DEF LetThrough
    <2>2. /\ k \in Keys /\ Quota[k] \in Nat \ {0} /\ served[k][Today] \in Nat
          /\ Granted(k) \in Nat /\ dayCount[Today] \in Nat
        BY <1>0, QuotaTyped
    <2>4. /\ Granted(k)' \in Nat /\ Granted(k) <= Granted(k)'
          /\ dayCount'[Today] = dayCount[Today] + 1 /\ dayCount[Today] + 1 <= Quota[k] =>
                Granted(k)' = Granted(k) + 1
        BY <1>0, <1>1, GrantedGrows DEF LetThrough
    <2>5. served[k][Today] + Waiters(k)
             <= Quota[k] - 1 + Cardinality(Reqs) + faults + Granted(k)
        BY DEF QuotaInv, Room
    <2>6. CASE req[t].key # k
        BY <1>1, <1>2, <2>1, <2>2, <2>4, <2>5, <2>6
    <2>7. CASE req[t].key = k /\ dayCount'[Today] = dayCount[Today] + 1
               /\ dayCount[Today] + 1 <= Quota[req[t].key]
        <3>1. Granted(k)' = Granted(k) + 1
            BY <2>4, <2>7
        <3> QED BY <1>1, <1>2, <2>1, <2>2, <2>5, <3>1
    <2>8. CASE req[t].key = k /\ usage[Today] < Quota[req[t].key]
        <3>1. served[k][Today] <= usage[Today] + faults + Recorders /\ usage[Today] \in Nat /\ Recorders \in Nat
            BY <1>3, <2>2
        <3>2. served[k][Today] <= Quota[k] - 1 + faults + Recorders
            BY <1>2, <2>2, <2>8, <3>1
        <3> QED BY <1>1, <1>2, <2>1, <2>2, <2>4, <3>1, <3>2
    <2>9. CASE faults' = faults + 1
        BY <1>1, <1>2, <2>1, <2>2, <2>4, <2>5, <2>9
    <2> QED BY <2>6, <2>7, <2>8, <2>9 DEF LetThrough
<1>7. Room'
    BY <1>6 DEF Room, Metered
<1> QED BY <1>1, <1>2, <1>4, <1>7, KeptToday

\* Serving moves a request from those that wait to those that record.
LEMMA KeptByServe ==
    ASSUME QuotaInv, TypeOK', NEW t \in Reqs, Serve(t)
    PROVE  QuotaInv'
<1>0. TypeOK
    BY DEF QuotaInv
<1>1. /\ Today' = Today /\ now' = now /\ UNCHANGED <<dayCount, expiry, usage, faults>>
      /\ Goes(t, "record") /\ req[t].pc = "serve"
      /\ served' = [served EXCEPT ![req[t].key][Today] = @ + 1]
    BY DEF Serve, Today, counterVars
<1>2. req[t].key \in Keys /\ Today \in Days
    BY <1>0, <1>1, InFlightTyped, BucketsOfNow
<1>3. /\ served'[req[t].key][Today] = served[req[t].key][Today] + 1
      /\ \A k \in Keys, d \in Days : k # req[t].key \/ d # Today => served'[k][d] = served[k][d]
      /\ \A k \in Keys : served[k][Today] \in Nat
    BY <1>0, <1>1, <1>2 DEF TypeOK
<1>4. faults \in Nat /\ usage[Today] \in Nat
    BY <1>0, <1>2 DEF TypeOK
<1>5. Recorders' = Recorders + 1 /\ Recorders \in Nat
    <2>1. IsFiniteSet(Recording) /\ Recorders \in Nat
        BY WaitersAre
    <2>2. t \notin Recording /\ Recording' = Recording \cup {t}
        BY <1>0, <1>1, GoesWaiting DEF Recording
    <2> QED BY <2>1, <2>2, FS_AddElement DEF Recorders
<1>6. RowsLeft'
    <2>1. ASSUME NEW k \in Keys PROVE served'[k][Today] <= usage[Today] + faults + Recorders'
        <3>1. served[k][Today] <= usage[Today] + faults + Recorders /\ served[k][Today] \in Nat
            BY <1>3 DEF QuotaInv, RowsLeft
        <3>2. CASE k = req[t].key
            BY <1>3, <1>4, <1>5, <3>1, <3>2
        <3>3. CASE k # req[t].key
            BY <1>2, <1>3, <1>4, <1>5, <3>1, <3>3
        <3> QED BY <3>2, <3>3
    <2> QED BY <1>1, <2>1 DEF RowsLeft
<1>9. ASSUME NEW k \in Metered
      PROVE  served'[k][Today'] + Waiters(k)'
                <= Quota[k] - 1 + Cardinality(Reqs) + faults' + Granted(k)'
    <2>1. /\ Waiters(k)' \in Nat /\ Waiters(k) \in Nat /\ Cardinality(Reqs) \in Nat
          /\ Waiters(k)' <= Waiters(k)
          /\ t \in Waiting(k) => Waiters(k)' <= Waiters(k) - 1
        BY <1>0, <1>1, WaitersStep, WaitersAre, GoesWaiting
    <2>2. k \in Keys /\ Quota[k] \in Nat \ {0} /\ served[k][Today] \in Nat /\ Granted(k) \in Nat
        BY <1>0, <1>2, QuotaTyped
    <2>3. Granted(k)' = Granted(k)
        BY <1>1 DEF Granted, Counting
    <2>4. served[k][Today] + Waiters(k)
             <= Quota[k] - 1 + Cardinality(Reqs) + faults + Granted(k)
        BY DEF QuotaInv, Room
    <2>5. CASE req[t].key = k
        <3>1. t \in Waiting(k)
            BY <1>1, <2>5 DEF Waiting
        <3>2. served'[k][Today'] = served[k][Today] + 1
            BY <1>1, <1>3, <2>5
        <3> QED BY <1>1, <1>4, <2>1, <2>2, <2>3, <2>4, <3>1, <3>2
    <2>6. CASE req[t].key # k
        <3>1. served'[k][Today'] = served[k][Today]
            BY <1>1, <1>2, <1>3, <2>2, <2>6
        <3> QED BY <1>1, <1>4, <2>1, <2>2, <2>3, <2>4, <3>1
    <2> QED BY <2>5, <2>6
<1>10. Room'
    BY <1>9 DEF Room, Metered
<1> QED BY <1>1, <1>3, <1>4, <1>6, <1>10, KeptToday

\* The row of a served request is written, or is lost: with a failure, or with the worker.
RowsSettle ==
    /\ UNCHANGED <<dayCount, expiry, served, now>>
    /\ usage'[Today] \in Nat /\ faults' \in Nat /\ faults <= faults'
    /\ usage'[Today] + faults' + Recorders' >= usage[Today] + faults + Recorders
    /\ \A k \in Metered : Waiting(k)' \subseteq Waiting(k)

LEMMA KeptByRows ==
    ASSUME QuotaInv, TypeOK', RowsSettle
    PROVE  QuotaInv'
<1>0. TypeOK
    BY DEF QuotaInv
<1>1. /\ Today' = Today /\ UNCHANGED <<dayCount, expiry, served, now>>
      /\ faults \in Nat /\ faults' \in Nat /\ faults <= faults'
    BY <1>0 DEF RowsSettle, Today, TypeOK
<1>2. RowsLeft'
    <2>1. ASSUME NEW k \in Keys PROVE served[k][Today] <= usage'[Today] + faults' + Recorders'
        <3>1. /\ served[k][Today] <= usage[Today] + faults + Recorders
              /\ served[k][Today] \in Nat /\ usage[Today] \in Nat
              /\ Recorders \in Nat /\ Recorders' \in Nat
            BY <1>0, BucketsOfNow, WaitersAre, WaitersStep DEF QuotaInv, RowsLeft, TypeOK
        <3> QED BY <1>1, <3>1 DEF RowsSettle
    <2> QED BY <1>1, <2>1 DEF RowsLeft
<1>3. ASSUME NEW k \in Metered
      PROVE  served'[k][Today'] + Waiters(k)'
                <= Quota[k] - 1 + Cardinality(Reqs) + faults' + Granted(k)'
    <2>1. /\ Waiters(k)' \in Nat /\ Waiters(k) \in Nat /\ Cardinality(Reqs) \in Nat
          /\ Waiters(k)' <= Waiters(k)
        BY WaitersStep, WaitersAre DEF RowsSettle
    <2>2. Quota[k] \in Nat \ {0} /\ served[k][Today] \in Nat /\ Granted(k) \in Nat
        BY <1>0, QuotaTyped
    <2>3. Granted(k)' = Granted(k)
        BY <1>1 DEF Granted, Counting
    <2>4. served[k][Today] + Waiters(k)
             <= Quota[k] - 1 + Cardinality(Reqs) + faults + Granted(k)
        BY DEF QuotaInv, Room
    <2> QED BY <1>1, <2>1, <2>2, <2>3, <2>4
<1>4. Room'
    BY <1>3 DEF Room, Metered
<1> QED BY <1>1, <1>2, <1>4, KeptToday

LEMMA KeptByRecord ==
    ASSUME QuotaInv, TypeOK', NEW t \in Reqs, Record(t) \/ RecordFails(t)
    PROVE  QuotaInv'
<1>0. TypeOK
    BY DEF QuotaInv
<1>1. /\ UNCHANGED <<dayCount, expiry, served, now>>
      /\ Ends(t) /\ t \in Recording
      /\ \/ usage' = [usage EXCEPT ![Today] = @ + 1] /\ faults' = faults
         \/ usage' = usage /\ faults' = faults + 1
    BY DEF Record, RecordFails, Faults, counterVars, pastVars, Recording
<1>2. Today \in Days /\ usage \in [Days -> Nat] /\ usage[Today] \in Nat /\ faults \in Nat
    BY <1>0, BucketsOfNow DEF TypeOK
<1>3. Recorders' = Recorders - 1 /\ Recorders \in Nat
    <2>1. IsFiniteSet(Recording) /\ Recorders \in Nat
        BY WaitersAre
    <2>2. Recording' = Recording \ {t}
        BY <1>0, <1>1, EndsWaiting
    <2> QED BY <1>1, <2>1, <2>2, FS_RemoveElement DEF Recorders
<1>4. \/ usage'[Today] = usage[Today] + 1 /\ faults' = faults
      \/ usage'[Today] = usage[Today] /\ faults' = faults + 1
    BY <1>1, <1>2
<1>5. \A k \in Metered : Waiting(k)' \subseteq Waiting(k)
    BY <1>0, <1>1, EndsWaiting
<1>6. /\ usage'[Today] \in Nat /\ faults' \in Nat /\ faults <= faults'
      /\ usage'[Today] + faults' + Recorders' >= usage[Today] + faults + Recorders
    BY <1>2, <1>3, <1>4
<1> QED BY <1>1, <1>5, <1>6, KeptByRows DEF RowsSettle

LEMMA KeptByRestart ==
    ASSUME QuotaInv, TypeOK', NEW w \in Workers, WorkerRestart(w)
    PROVE  QuotaInv'
<1> DEFINE Lost == {t \in Reqs : req[t].worker = w /\ req[t].pc = "record"}
<1>0. TypeOK
    BY DEF QuotaInv
<1>1. /\ UNCHANGED <<dayCount, expiry, served, now, usage>>
      /\ faults' = faults + Cardinality(Lost)
      /\ req' = [t \in Reqs |-> IF req[t].worker = w THEN NoReq ELSE req[t]]
    BY DEF WorkerRestart, Faults
<1>2. Recording' = Recording \ Lost /\ Recording \cap Lost = Lost
    BY <1>0, <1>1 DEF Recording, NoReq, TypeOK, ReqsTyped
<1>3. Recorders' = Recorders - Cardinality(Lost) /\ Recorders \in Nat /\ Cardinality(Lost) \in Nat
    <2>1. IsFiniteSet(Recording) /\ Recorders \in Nat /\ Lost \subseteq Recording
        BY WaitersAre DEF Recording
    <2>2. IsFiniteSet(Lost) /\ Cardinality(Lost) \in Nat
        BY <2>1, CountedIn
    <2>3. Cardinality(Recording \ Lost) = Cardinality(Recording) - Cardinality(Recording \cap Lost)
        BY <2>1, FS_Difference
    <2> QED BY <1>2, <2>1, <2>2, <2>3 DEF Recorders
<1>4. usage[Today] \in Nat /\ faults \in Nat
    BY <1>0, BucketsOfNow DEF TypeOK
<1>5. \A k \in Metered : Waiting(k)' \subseteq Waiting(k)
    BY <1>0, <1>1 DEF Waiting, NoReq, TypeOK, ReqsTyped
<1> HIDE DEF Lost
<1>6. /\ usage'[Today] \in Nat /\ faults' \in Nat /\ faults <= faults'
      /\ usage'[Today] + faults' + Recorders' >= usage[Today] + faults + Recorders
    BY <1>1, <1>3, <1>4
<1> QED BY <1>1, <1>5, <1>6, KeptByRows DEF RowsSettle

\* When the counter starts again in the last second, the quota it had granted is granted once more.
LEMMA KeptByExpiry ==
    ASSUME QuotaInv, TypeOK', QuotaExpires
    PROVE  QuotaInv'
<1>0. TypeOK
    BY DEF QuotaInv
<1>1. /\ Today' = Today /\ now' = now /\ UNCHANGED <<usage, served, faults, req>>
      /\ Recorders' = Recorders /\ \A k : Waiters(k)' = Waiters(k)
    BY DEF QuotaExpires, Today, Recorders, Recording, Waiters, Waiting, pastVars
<1>2. /\ expiry[Today] = "early" /\ expiry'[Today] = "expired" /\ dayCount'[Today] = 0
      /\ faults \in Nat
    BY <1>0, BucketsOfNow DEF QuotaExpires, TypeOK
<1>3. RowsLeft'
    BY <1>1 DEF QuotaInv, RowsLeft
<1>4. ASSUME NEW k \in Metered
      PROVE  served'[k][Today'] + Waiters(k)'
                <= Quota[k] - 1 + Cardinality(Reqs) + faults' + Granted(k)'
    <2>1. Waiters(k) \in Nat /\ Cardinality(Reqs) \in Nat
        BY WaitersAre
    <2>2. /\ Quota[k] \in Nat /\ served[k][Today] \in Nat /\ Granted(k) \in Nat
          /\ Counting(k) \in 0..Quota[k]
        BY <1>0, QuotaTyped
    <2>3. Granted(k) = Counting(k) /\ Granted(k)' = Quota[k]
        BY <1>1, <1>2, <2>2 DEF Granted, Counting
    <2>4. served[k][Today] + Waiters(k)
             <= Quota[k] - 1 + Cardinality(Reqs) + faults + Granted(k)
        BY DEF QuotaInv, Room
    <2> QED BY <1>1, <1>2, <2>1, <2>2, <2>3, <2>4
<1>5. Room'
    BY <1>4 DEF Room, Metered
<1> QED BY <1>1, <1>2, <1>3, <1>5, KeptToday

LEMMA KeptByTick ==
    ASSUME QuotaInv, TypeOK', Tick
    PROVE  QuotaInv'
<1>0. TypeOK
    BY DEF QuotaInv
<1>1. /\ now' = now + 1 /\ UNCHANGED <<usage, served, dayCount, expiry, faults, req>>
    BY DEF Tick, counterVars, pastVars
<1>2. now \in Nat /\ DayLength \in Nat \ {0} /\ faults \in Nat
    BY <1>0, GateAssumption DEF GateAssumption, TypeOK
<1>3. Today' = Today \/ Today' = Today + 1
    BY <1>1, <1>2, NextBucket DEF Today
<1>5. /\ \A k : Waiting(k)' = Waiting(k) /\ Waiters(k)' = Waiters(k)
      /\ Recorders' = Recorders /\ Recorders \in Nat
    BY <1>1, WaitersAre DEF Waiting, Waiters, Recording, Recorders
<1>6. Today \in Days /\ Days \subseteq Nat
    BY <1>0, BucketsOfNow DEF Days
<1>7. CASE Today' = Today
    BY <1>1, <1>5, <1>7 DEF QuotaInv, RowsLeft, NoneTomorrow, Room, PastDays, Granted, Counting, Metered
<1>8. CASE Today' = Today + 1
    <2>1. NoneTomorrow'
        BY <1>1, <1>6, <1>8 DEF QuotaInv, NoneTomorrow
    <2>2. ASSUME NEW k \in Metered, NEW d \in Days, d < Today + 1
          PROVE  served[k][d] <= 3 * Quota[k] - 1 + Cardinality(Reqs) + faults
        <3>1. d < Today \/ d = Today
            BY <1>6, <2>2
        <3> QED BY <3>1, RoomIsEnough DEF QuotaInv, PastDays
    <2>3. PastDays'
        BY <1>1, <1>8, <2>2 DEF PastDays, Metered
    <2>4. Today' \in Days
        <3>1. now' \in Nat /\ now' <= MaxTime /\ MaxTime \in Nat
            BY <1>1, <1>2, GateAssumption DEF Tick, GateAssumption
        <3>2. now' \div DayLength \in 0..now'
            BY <1>2, <3>1, Bucketed
        <3> DEFINE x == now' \div DayLength
        <3> HIDE DEF x
        <3>3. x \in 0..now'
            BY <3>2 DEF x
        <3>4. x \in 0..MaxTime
            BY <3>1, <3>3
        <3> QED BY <3>4 DEF x, Today, Days
    <2>5. \A k \in Keys : served[k][Today'] = 0
        BY <1>6, <1>8, <2>4 DEF QuotaInv, NoneTomorrow
    <2>6. RowsLeft'
        <3>1. usage[Today'] \in Nat
            BY <1>0, <2>4 DEF TypeOK
        <3>2. \A k \in Keys : served[k][Today'] <= usage[Today'] + faults + Recorders
            BY <1>2, <1>5, <2>5, <3>1
        <3> QED BY <1>1, <1>5, <3>2 DEF RowsLeft
    <2>7. ASSUME NEW k \in Metered
          PROVE  served[k][Today'] + Waiters(k)
                    <= Quota[k] - 1 + Cardinality(Reqs) + faults + Granted(k)'
        <3>1. k \in Keys /\ served[k][Today'] = 0
            BY <1>0, <2>5, QuotaTyped
        <3>2. /\ Waiters(k) \in Nat /\ Cardinality(Reqs) \in Nat /\ Waiters(k) + Recorders <= Cardinality(Reqs)
              /\ Quota[k] \in Nat \ {0} /\ faults \in Nat
            BY <1>0, WaitersAre, QuotaTyped
        <3>3. dayCount[Today'] \in Nat
            BY <1>0, <2>4 DEF TypeOK
        <3>4. Granted(k)' \in Nat
            BY <1>1, <3>2, <3>3 DEF Granted, Counting
        <3>5. Waiters(k) <= Cardinality(Reqs)
            BY <1>5, <3>2
        <3> QED BY <3>1, <3>2, <3>4, <3>5
    <2>8. Room'
        BY <1>1, <1>5, <2>7 DEF Room, Metered
    <2> QED BY <2>1, <2>3, <2>6, <2>8 DEF QuotaInv
<1> QED BY <1>3, <1>7, <1>8

LEMMA QuotaInit == Init => QuotaInv
<1> SUFFICES ASSUME Init PROVE QuotaInv
    OBVIOUS
<1>1. TypeOK
    BY TypeInit
<1>2. /\ \A k \in Keys, d \in Days : served[k][d] = 0 /\ usage[d] = 0
      /\ faults = 0
    BY DEF Init
<1>3. Today \in Days /\ Days \subseteq Nat
    BY <1>1, BucketsOfNow DEF Days
<1>w. Recorders \in Nat
    BY WaitersAre
<1>4. RowsLeft /\ NoneTomorrow
    BY <1>2, <1>3, <1>w DEF RowsLeft, NoneTomorrow
<1>5. ASSUME NEW k \in Metered
      PROVE  /\ served[k][Today] + Waiters(k)
                   <= Quota[k] - 1 + Cardinality(Reqs) + faults + Granted(k)
             /\ \A d \in Days : served[k][d] <= 3 * Quota[k] - 1 + Cardinality(Reqs) + faults
    <2>1. /\ k \in Keys /\ Quota[k] \in Nat \ {0} /\ Granted(k) \in Nat
          /\ Waiters(k) \in Nat /\ Recorders \in Nat /\ Cardinality(Reqs) \in Nat
          /\ Waiters(k) + Recorders <= Cardinality(Reqs)
        BY <1>1, QuotaTyped, WaitersAre
    <2>2. served[k][Today] = 0 /\ \A d \in Days : served[k][d] = 0
        BY <1>2, <1>3, <2>1
    <2>3. served[k][Today] + Waiters(k) <= Quota[k] - 1 + Cardinality(Reqs) + faults + Granted(k)
        <3>1. faults = 0 /\ 1 <= Quota[k] /\ Waiters(k) <= Cardinality(Reqs)
            BY <1>2, <2>1
        <3>2. served[k][Today] = 0
            BY <2>2
        <3> QED BY <2>1, <3>1, <3>2
    <2> QED BY <1>2, <2>1, <2>2, <2>3
<1> QED BY <1>1, <1>4, <1>5 DEF QuotaInv, Room, PastDays

LEMMA QuotaStep == QuotaInv /\ [Next]_vars => QuotaInv'
<1> SUFFICES ASSUME QuotaInv, [Next]_vars PROVE QuotaInv'
    OBVIOUS
<1>0. TypeOK /\ TypeOK'
    BY TypeStep DEF QuotaInv
<1>e. \A n : \/ Expiry(n)[Today] = expiry[Today]
             \/ expiry[Today] = "never" /\ Expiry(n)[Today] \in {"midnight", "early"}
    BY <1>0, BucketsOfNow DEF Expiry, TypeOK
<1>c. /\ [dayCount EXCEPT ![Today] = dayCount[Today] + 1][Today] = dayCount[Today] + 1
    BY <1>0, BucketsOfNow DEF TypeOK
<1>q. ASSUME NEW t \in Reqs, UNCHANGED <<usage, served, now, faults>>,
             dayCount'[Today] \in {dayCount[Today], dayCount[Today] + 1},
             expiry'[Today] = "expired" <=> expiry[Today] = "expired",
             req[t].pc # "record",
             Ends(t) \/ \E pc : Goes(t, pc) /\ pc # "record" /\ (pc # "serve" \/ req[t].key \notin Metered)
      PROVE  QuotaInv'
    <2>1. \A k \in Metered : Waiting(k)' \subseteq Waiting(k)
        BY <1>0, <1>q, EndsWaiting, GoesWaiting
    <2>2. Recording' = Recording
        BY <1>0, <1>q, EndsWaiting, GoesWaiting DEF Recording
    <2> QED BY <1>0, <1>q, <2>1, <2>2, KeptByQuietStep DEF QuietStep
<1>1. ASSUME NEW t \in Reqs, NEW w \in Workers, NEW k \in Keys, NEW g \in 1..MaxGen,
             NEW admin \in BOOLEAN, Arrive(t, w, k, g, admin)
      PROVE  QuotaInv'
    <2>1. Recording' = Recording /\ \A j : Waiting(j)' \subseteq Waiting(j)
        BY <1>0, <1>1 DEF Arrive, Waiting, Recording, TypeOK, ReqsTyped
    <2> QED BY <1>0, <1>1, <2>1, KeptByQuietStep DEF Arrive, QuietStep, counterVars, pastVars
<1>2. ASSUME NEW t \in Reqs, Resolve(t) PROVE QuotaInv'
    BY <1>2, <1>q DEF Resolve, counterVars, pastVars
<1>3. ASSUME NEW t \in Reqs, RateRedis(t) \/ RateLocal(t) PROVE QuotaInv'
    <2>1. /\ UNCHANGED <<usage, served, now, faults, dayCount, expiry>>
          /\ Ends(t) \/ Goes(t, AfterRate(t))
          /\ req[t].pc = "rate"
        BY <1>3 DEF RateRedis, RateLocal
    <2>2. AfterRate(t) # "record" /\ (AfterRate(t) # "serve" \/ req[t].key \notin Metered)
        BY DEF AfterRate, Metered
    <2> QED BY <1>q, <2>1, <2>2
<1>5. ASSUME NEW t \in Reqs, QuotaRedis(t) PROVE QuotaInv'
    <2>1. req[t].key \in Metered
        BY <1>0, <1>5, InFlightTyped DEF QuotaRedis, TypeOK, ReqsTyped, Metered
    <2>2. /\ dayCount'[Today] = dayCount[Today] + 1
          /\ expiry'[Today] = "expired" <=> expiry[Today] = "expired"
          /\ UNCHANGED <<usage, served, now, faults>> /\ req[t].pc = "quota"
          /\ IF dayCount[Today] + 1 > Quota[req[t].key] THEN Ends(t) ELSE Goes(t, "serve")
        BY <1>5, <1>e, <1>c DEF QuotaRedis, pastVars
    <2>3. CASE dayCount[Today] + 1 > Quota[req[t].key]
        BY <1>q, <2>2, <2>3
    <2>4. CASE ~(dayCount[Today] + 1 > Quota[req[t].key])
        <3>1. dayCount[Today] + 1 <= Quota[req[t].key]
            BY <1>0, <2>1, <2>4, QuotaTyped
        <3> QED BY <1>0, <2>1, <2>2, <2>4, <3>1, KeptByLetThrough DEF LetThrough
    <2> QED BY <2>3, <2>4
<1>6. ASSUME NEW t \in Reqs, QuotaFails(t) PROVE QuotaInv'
    <2>1. /\ dayCount'[Today] \in {dayCount[Today], dayCount[Today] + 1}
          /\ expiry'[Today] = "expired" <=> expiry[Today] = "expired"
          /\ UNCHANGED <<usage, served, now, faults>> /\ req[t].pc = "quota" /\ Goes(t, "dbquota")
        BY <1>6, <1>e, <1>c DEF QuotaFails, pastVars
    <2> QED BY <1>q, <2>1
<1>7. ASSUME NEW t \in Reqs, QuotaDb(t) PROVE QuotaInv'
    <2>1. req[t].key \in Metered
        BY <1>0, <1>7, InFlightTyped DEF QuotaDb, TypeOK, ReqsTyped, Metered
    <2>2. CASE Ends(t) /\ UNCHANGED faults
        BY <1>7, <1>q, <2>2 DEF QuotaDb, counterVars, pastVars
    <2>3. CASE Goes(t, "serve") /\ ~(usage[Today] >= Quota[req[t].key]) /\ UNCHANGED faults
        <3>1. usage[Today] < Quota[req[t].key]
            BY <1>0, <2>1, <2>3, QuotaTyped
        <3> QED BY <1>0, <1>7, <2>1, <2>3, <3>1, KeptByLetThrough
                DEF QuotaDb, LetThrough, counterVars, pastVars
    <2>4. CASE Goes(t, "serve") /\ Faults(1)
        BY <1>0, <1>7, <2>1, <2>4, KeptByLetThrough
           DEF QuotaDb, Faults, LetThrough, counterVars, pastVars
    <2> QED BY <1>7, <2>2, <2>3, <2>4 DEF QuotaDb
<1>8. ASSUME NEW t \in Reqs, Refuse403(t) PROVE QuotaInv'
    BY <1>8, <1>q DEF Refuse403, counterVars, pastVars
<1>9. ASSUME NEW t \in Reqs, Serve(t) \/ Record(t) \/ RecordFails(t) PROVE QuotaInv'
    BY <1>0, <1>9, KeptByServe, KeptByRecord
<1>10. ASSUME NEW w \in Workers, WorkerRestart(w) PROVE QuotaInv'
    BY <1>0, <1>10, KeptByRestart
<1>11. ASSUME NEW k \in Keys, Create(k) \/ Rotate(k) \/ Revoke(k) PROVE QuotaInv'
    <2>1. UNCHANGED <<counterVars, req, now, faults, pastVars>>
        BY <1>11 DEF Create, Rotate, Revoke
    <2>2. Recording' = Recording /\ \A j : Waiting(j)' \subseteq Waiting(j)
        BY <2>1 DEF Waiting, Recording
    <2> QED BY <1>0, <2>1, <2>2, KeptByQuietStep DEF QuietStep, counterVars, pastVars
<1>12. CASE Tick
    BY <1>0, <1>12, KeptByTick
<1>13. CASE UNCHANGED vars
    <2>1. UNCHANGED <<counterVars, req, now, faults, pastVars>>
        BY <1>13 DEF vars
    <2>2. Recording' = Recording /\ \A j : Waiting(j)' \subseteq Waiting(j)
        BY <2>1 DEF Waiting, Recording
    <2> QED BY <1>0, <2>1, <2>2, KeptByQuietStep DEF QuietStep, counterVars, pastVars
<1>14. CASE QuotaExpires
    BY <1>0, <1>14, KeptByExpiry
<1> QED BY <1>1, <1>2, <1>3, <1>5, <1>6, <1>7, <1>8, <1>9, <1>10, <1>11, <1>12, <1>13, <1>14 DEF Next

LEMMA QuotaFollows == QuotaInv => QuotaBounded
<1> SUFFICES ASSUME QuotaInv, NEW k \in Metered, NEW d \in Days
             PROVE  served[k][d] <= 3 * Quota[k] - 1 + Cardinality(Reqs) + faults
    BY DEF QuotaBounded, Metered
<1>1. /\ k \in Keys /\ Quota[k] \in Nat \ {0} /\ faults \in Nat /\ Cardinality(Reqs) \in Nat
      /\ Today \in Nat /\ d \in Nat
    BY QuotaTyped, WaitersAre DEF QuotaInv, Days
<1>2. d < Today \/ d = Today \/ d > Today
    BY <1>1
<1>3. CASE d > Today
    BY <1>1, <1>3 DEF QuotaInv, NoneTomorrow
<1> QED BY <1>2, <1>3, RoomIsEnough DEF QuotaInv, PastDays

\* On a day a key reaches the handler at most as often as the Redis counter, started twice, the usage
\* rows, the requests in flight and the rows never written let through: three times its quota less
\* one, and these.
THEOREM QuotaCorrect == Spec => []QuotaBounded
<1> QED BY QuotaInit, QuotaStep, QuotaFollows, PTL DEF Spec

=============================================================================
