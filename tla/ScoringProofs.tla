---------------------------- MODULE ScoringProofs ----------------------------
(***************************************************************************)
(* Scoring, for every set of races, entries, prices and imports.           *)
(***************************************************************************)
EXTENDS Scoring, SumTheorems

-----------------------------------------------------------------------------
(* What the two transactions know                                          *)

\* A transaction is a record; it writes only under the lock.
Shaped(t) ==
    t = [pc |-> t.pc, at |-> t.at, rows |-> t.rows, done |-> t.done, missed |-> t.missed]

LockOK ==
    /\ writer = [w \in Writers |-> writer[w]]
    /\ DOMAIN late = {"score", "features"} /\ running \subseteq Entries
    /\ \A w \in Writers :
          /\ Shaped(writer[w])
          /\ writer[w].pc # "write" => writer[w].done = {}
          /\ writer[w].pc = "write" => lock = w

\* It is about to write rows it has computed.
HasRows(w) == writer[w].pc = "write" \/ (w = "engine" /\ writer[w].pc = "lock")

\* They are of one writer and moment, and of a race they cover everyone in it
\* who has not joined since its field was read.
RowsOK ==
    \A w \in Writers : HasRows(w) =>
        LET rows == writer[w].rows
        IN  /\ \A e \in DOMAIN rows : rows[e].model = w /\ rows[e].at = writer[w].at
            /\ \A d \in running \ writer[w].missed, e \in DOMAIN rows :
                  RaceOf[d] = RaceOf[e] => d \in DOMAIN rows

-----------------------------------------------------------------------------
(* The lock                                                                *)

LEMMA LockInit == Init => LockOK
BY ScoringAssumption DEF Init, LockOK, Shaped, Idle, Writers

LEMMA LockNext == LockOK /\ [Next]_vars => LockOK'
<1> SUFFICES ASSUME LockOK, [Next]_vars PROVE LockOK'
    OBVIOUS
<1> USE DEF LockOK, Shaped, Writers
<1>1. CASE StartCycle
    BY <1>1 DEF StartCycle
<1>2. CASE ReadRace
    BY <1>2 DEF ReadRace, Idle
<1>3. ASSUME NEW R \in Imports, BeginLoad(R) PROVE LockOK'
    BY <1>3 DEF BeginLoad, Idle
<1>4. ASSUME NEW w \in Writers, TakeLock(w) PROVE LockOK'
    BY <1>4 DEF TakeLock
<1>5. ASSUME NEW w \in Writers, Commit(w) PROVE LockOK'
    BY <1>5 DEF Commit, Store, Idle
<1>6. ASSUME NEW w \in Writers, Fails(w) PROVE LockOK'
    BY <1>6 DEF Fails, Idle
<1>7. ASSUME NEW w \in Writers, NEW e \in Entries, WriteRow(w, e) PROVE LockOK'
  <2> DEFINE t == [writer[w] EXCEPT !.done = @ \cup {e}]
  <2>1. /\ writer' = [writer EXCEPT ![w] = t] /\ lock' = lock /\ writer[w].pc = "write"
        /\ late' = late /\ running' = running
    BY <1>7 DEF WriteRow, NextRow
  <2>2. t.pc = writer[w].pc /\ Shaped(t)
    OBVIOUS
  <2> HIDE DEF t
  <2> QED BY <2>1, <2>2
<1>8. ASSUME NEW e \in Entries, NEW p \in Prices, PriceMoves(e, p) PROVE LockOK'
    BY <1>8 DEF PriceMoves
<1>9. ASSUME NEW e \in Entries, Withdraw(e) PROVE LockOK'
    BY <1>9 DEF Withdraw
<1>13. ASSUME NEW e \in Entries, Join(e) PROVE LockOK'
  <2> DEFINE t(w) == IF writer[w].pc = "idle" THEN writer[w]
                     ELSE [writer[w] EXCEPT !.missed = @ \cup {e}]
  <2>1. writer' = [w \in Writers |-> t(w)] /\ lock' = lock /\ DOMAIN late' = DOMAIN late
        /\ running' \subseteq Entries
      BY <1>13 DEF Join
  <2>2. \A w \in Writers : /\ Shaped(t(w)) /\ t(w).pc = writer[w].pc
                           /\ t(w).done = writer[w].done
      OBVIOUS
  <2> HIDE DEF t
  <2> QED BY <2>1, <2>2
<1>10. ASSUME NEW r \in Races, Finish(r) PROVE LockOK'
    BY <1>10 DEF Finish
<1>11. CASE Tick
    BY <1>11 DEF Tick
<1>12. CASE UNCHANGED vars
    BY <1>12 DEF vars
<1> QED BY <1>1, <1>2, <1>3, <1>4, <1>5, <1>6, <1>7, <1>8, <1>9, <1>10, <1>11, <1>12, <1>13 DEF Next

(***************************************************************************)
(* Engine and loader never wait for rows of each other, since neither has  *)
(* written one before it holds the lock.                                   *)
(***************************************************************************)
THEOREM NoDeadlock == Spec => []WritersNeverDeadlock
<1>1. LockOK => WritersNeverDeadlock
    BY DEF LockOK, WritersNeverDeadlock, WaitsFor, NextRow, Writers
<1> QED BY <1>1, LockInit, LockNext, PTL DEF Spec

-----------------------------------------------------------------------------
(* The rows of a transaction                                               *)

LEMMA RowsInit == Init => RowsOK
BY DEF Init, RowsOK, HasRows, Idle, Writers

LEMMA RowsNext == LockOK /\ RowsOK /\ [Next]_vars => RowsOK'
<1> SUFFICES ASSUME LockOK, RowsOK, [Next]_vars PROVE RowsOK'
    OBVIOUS
<1> USE DEF LockOK, RowsOK, HasRows, Writers
<1>1. CASE StartCycle
    BY <1>1 DEF StartCycle
<1>2. CASE ReadRace
  <2> DEFINE r == Head(queue)
  <2>1. CASE Field(r) = {}
      BY <1>2, <2>1 DEF ReadRace
  <2>2. CASE Field(r) # {}
    <3> DEFINE rows == EngineRows(r)
    <3>1. /\ running' = running
          /\ writer' = [writer EXCEPT !["engine"] =
                          [pc |-> "lock", at |-> clock, rows |-> rows, done |-> {},
                           missed |-> {}]]
        BY <1>2, <2>2 DEF ReadRace
    <3>2. /\ DOMAIN rows = Field(r)
          /\ \A e \in Field(r) : rows[e].model = "engine" /\ rows[e].at = clock
        BY DEF EngineRows
    <3> HIDE DEF rows
    <3> QED BY <3>1, <3>2 DEF Field
  <2> QED BY <2>1, <2>2
<1>3. ASSUME NEW R \in Imports, BeginLoad(R) PROVE RowsOK'
    BY <1>3 DEF BeginLoad
<1>4. ASSUME NEW w \in Writers, TakeLock(w) PROVE RowsOK'
  <2>1. CASE w = "engine"
      BY <1>4, <2>1 DEF TakeLock
  <2>2. CASE w = "loader"
    <3> DEFINE R == DOMAIN writer["loader"].rows
               at == writer["loader"].at
               rows == LoaderRows(at, R)
    <3>1. /\ running' = running
          /\ writer' = [writer EXCEPT !["loader"] =
                          [pc |-> "write", at |-> at, done |-> {}, rows |-> rows,
                           missed |-> {}]]
        BY <1>4, <2>2 DEF TakeLock
    <3>2. /\ DOMAIN rows = UNION {Field(r) : r \in R}
          /\ \A e \in DOMAIN rows : rows[e].model = "loader" /\ rows[e].at = at
        BY DEF LoaderRows
    <3>3. \A d \in running, e \in DOMAIN rows : RaceOf[d] = RaceOf[e] => d \in DOMAIN rows
        BY <3>2 DEF Field
    <3> HIDE DEF rows, at
    <3> QED BY <3>1, <3>2, <3>3
  <2> QED BY <2>1, <2>2
<1>5. ASSUME NEW w \in Writers, Commit(w) PROVE RowsOK'
    BY <1>5 DEF Commit, Idle
<1>6. ASSUME NEW w \in Writers, Fails(w) PROVE RowsOK'
    BY <1>6 DEF Fails, Idle
<1>7. ASSUME NEW w \in Writers, NEW e \in Entries, WriteRow(w, e) PROVE RowsOK'
  <2>1. \A v \in Writers : /\ writer'[v].pc = writer[v].pc /\ writer'[v].at = writer[v].at
                           /\ writer'[v].rows = writer[v].rows
                           /\ writer'[v].missed = writer[v].missed
      BY <1>7 DEF WriteRow, Shaped
  <2>2. running' = running
      BY <1>7 DEF WriteRow
  <2> QED BY <2>1, <2>2
<1>8. ASSUME NEW e \in Entries, NEW p \in Prices, PriceMoves(e, p) PROVE RowsOK'
    BY <1>8 DEF PriceMoves
<1>9. ASSUME NEW e \in Entries, Withdraw(e) PROVE RowsOK'
    BY <1>9 DEF Withdraw
<1>13. ASSUME NEW e \in Entries, Join(e) PROVE RowsOK'
  <2>1. running' = running \cup {e}
      BY <1>13 DEF Join
  <2>2. \A w \in Writers : /\ writer'[w].pc = writer[w].pc /\ writer'[w].at = writer[w].at
                           /\ writer'[w].rows = writer[w].rows
                           /\ HasRows(w) => writer'[w].missed = writer[w].missed \cup {e}
      BY <1>13 DEF Join, Shaped
  <2> QED BY <2>1, <2>2
<1>10. ASSUME NEW r \in Races, Finish(r) PROVE RowsOK'
    BY <1>10 DEF Finish
<1>11. CASE Tick
    BY <1>11 DEF Tick
<1>12. CASE UNCHANGED vars
    BY <1>12 DEF vars
<1> QED BY <1>1, <1>2, <1>3, <1>4, <1>5, <1>6, <1>7, <1>8, <1>9, <1>10, <1>11, <1>12, <1>13 DEF Next

-----------------------------------------------------------------------------
(* The scores of a field                                                   *)

LEMMA FieldInit == Init => FieldOfOneWriter
BY ScoringAssumption DEF Init, FieldOfOneWriter, Field

LEMMA FieldNext == LockOK /\ RowsOK /\ FieldOfOneWriter /\ [Next]_vars => FieldOfOneWriter'
<1> SUFFICES ASSUME LockOK, RowsOK, FieldOfOneWriter, [Next]_vars PROVE FieldOfOneWriter'
    OBVIOUS
<1>1. ASSUME NEW w \in Writers, Commit(w) PROVE FieldOfOneWriter'
  <2> DEFINE rows == writer[w].rows
             missed == writer[w].missed
  <2>1. /\ \A e \in DOMAIN rows : rows[e].model = w /\ rows[e].at = writer[w].at
        /\ \A d \in running \ missed, e \in DOMAIN rows :
              RaceOf[d] = RaceOf[e] => d \in DOMAIN rows
      BY <1>1 DEF Commit, RowsOK, HasRows
  <2>2. /\ running' = running
        /\ \A e \in Entries : score'[e] = IF e \in DOMAIN rows THEN rows[e] ELSE score[e]
        /\ late'["score"] = TooLate(late["score"], w, rows)
      BY <1>1 DEF Commit, Store, Upserted, LockOK
  <2>a. \A d \in running \ late'["score"], e \in DOMAIN rows :
           RaceOf[d] = RaceOf[e] => d \in DOMAIN rows
      BY <2>1, <2>2 DEF TooLate
  <2>b. \A d \in running \ late'["score"] :
           d \in late["score"] => \E e \in DOMAIN rows : RaceOf[d] = RaceOf[e]
      BY <2>2 DEF TooLate
  <2> HIDE DEF rows, missed
  <2> SUFFICES ASSUME NEW r \in Races,
                      NEW d \in Field(r)' \ late'["score"], NEW e \in Field(r)' \ late'["score"]
               PROVE  score'[d].model = score'[e].model /\ score'[d].at = score'[e].at
      BY DEF FieldOfOneWriter
  <2>3. /\ d \in Entries /\ e \in Entries /\ RaceOf[d] = RaceOf[e] /\ RaceOf[d] = r
        /\ d \in running \ late'["score"] /\ e \in running \ late'["score"]
      BY <2>2 DEF Field, LockOK
  <2>4. CASE \E x \in DOMAIN rows : RaceOf[x] = r
    <3>1. d \in DOMAIN rows /\ e \in DOMAIN rows
        BY <2>a, <2>3, <2>4
    <3> QED BY <2>1, <2>2, <2>3, <3>1
  <2>5. CASE ~(\E x \in DOMAIN rows : RaceOf[x] = r)
    <3>1. d \notin DOMAIN rows /\ e \notin DOMAIN rows
        BY <2>3, <2>5
    <3>2. score'[d] = score[d] /\ score'[e] = score[e]
        BY <2>2, <2>3, <3>1
    <3>3. d \in Field(r) \ late["score"] /\ e \in Field(r) \ late["score"]
        BY <2>b, <2>3, <2>5 DEF Field
    <3> QED BY <3>2, <3>3 DEF FieldOfOneWriter
  <2> QED BY <2>4, <2>5
<1>2. ASSUME UNCHANGED score, running' \ late'["score"] \subseteq running \ late["score"]
      PROVE  FieldOfOneWriter'
    BY <1>2 DEF FieldOfOneWriter, Field
<1>3. CASE ~(\E w \in Writers : Commit(w))
  <2>1. UNCHANGED score /\ running' \ late'["score"] \subseteq running \ late["score"]
      BY <1>3 DEF Next, vars, StartCycle, ReadRace, BeginLoad, TakeLock, Fails, WriteRow,
                  PriceMoves, Withdraw, Join, Finish, Tick, LockOK
  <2> QED BY <2>1, <1>2
<1> QED BY <1>1, <1>3

(***************************************************************************)
(* Whoever wrote the scores of a race last wrote those of all that were in *)
(* its field and still are: a transaction's rows cover the field it read,  *)
(* and it knows who joined since.                                          *)
(***************************************************************************)
THEOREM FieldsAreComparable == Spec => []FieldOfOneWriter
BY LockInit, LockNext, RowsInit, RowsNext, FieldInit, FieldNext, PTL DEF Spec

-----------------------------------------------------------------------------
(* The ledger                                                              *)

\* Nothing in it is of later than the rows that are about to be written.
LedgerOK ==
    /\ clock \in Nat
    /\ \A s \in ledger : s.at \in Nat /\ s.at <= clock
    /\ HasRows("engine") =>
          /\ writer["engine"].at \in Nat /\ writer["engine"].at <= clock
          /\ \A s \in ledger : s.at <= writer["engine"].at

LEMMA LedgerInit == Init => LedgerOK /\ OnRecord
BY DEF Init, LedgerOK, OnRecord, HasRows, Idle, Writers

LEMMA LedgerNext ==
    LockOK /\ RowsOK /\ LedgerOK /\ OnRecord /\ [Next]_vars => LedgerOK' /\ OnRecord'
<1> SUFFICES ASSUME LockOK, RowsOK, LedgerOK, OnRecord, [Next]_vars
             PROVE  LedgerOK' /\ OnRecord'
    OBVIOUS
<1>1. CASE Commit("engine")
  <2> DEFINE rows == writer["engine"].rows
             new == Snapshots(rows)
  <2>1. /\ \A e \in DOMAIN rows : rows[e].at = writer["engine"].at
        /\ \A e \in DOMAIN rows : rows[e].at \in Nat /\ rows[e].at <= clock
        /\ \A s \in ledger, e \in DOMAIN rows : s.at <= rows[e].at
      BY <1>1 DEF Commit, RowsOK, HasRows, LedgerOK, Writers
  <2>2. /\ ledger' = ledger \cup new /\ clock' = clock
        /\ \A e \in Entries : features'[e] = IF e \in DOMAIN rows THEN rows[e] ELSE features[e]
        /\ ~HasRows("engine")'
      BY <1>1 DEF Commit, Store, Upserted, HasRows, Idle, LockOK, Writers
  <2>3. \A s \in new : \E e \in DOMAIN rows : s.at = rows[e].at
      BY DEF Snapshots
  <2>4. ASSUME NEW e \in DOMAIN rows
        PROVE  \E s \in ledger \cup new :
                  /\ s.entry = e /\ s.price = rows[e].price /\ s.prob = rows[e].prob
                  /\ s.at \in (rows[e].at - Window)..rows[e].at
    <3>1. Window \in Nat /\ rows[e].at \in Nat
        BY <2>1, ScoringAssumption
    <3>2. CASE Known(e, rows[e])
      <4>1. PICK s \in ledger : /\ s.entry = e /\ s.at >= rows[e].at - Window
                               /\ s.price = rows[e].price /\ s.prob = rows[e].prob
          BY <3>2 DEF Known
      <4>2. s.at \in Nat /\ s.at <= rows[e].at
          BY <2>1 DEF LedgerOK
      <4>3. s.at \in (rows[e].at - Window)..rows[e].at
          BY <3>1, <4>1, <4>2
      <4> QED BY <4>1, <4>3
    <3>3. CASE ~Known(e, rows[e])
      <4> DEFINE s == [entry |-> e, at |-> rows[e].at, price |-> rows[e].price,
                       prob |-> rows[e].prob, stake |-> CappedKelly(rows[e].prob, rows[e].price)]
      <4>1. s \in new
          BY <3>3 DEF Snapshots
      <4>2. s.at \in (rows[e].at - Window)..rows[e].at
          BY <3>1
      <4> QED BY <4>1, <4>2
    <3> QED BY <3>2, <3>3
  <2> HIDE DEF rows, new
  <2>5. LedgerOK'
      BY <2>1, <2>2, <2>3 DEF LedgerOK
  <2>6. OnRecord'
    <3> SUFFICES ASSUME NEW e \in Entries, features'[e] # NoRow
                 PROVE  \E s \in ledger' :
                           /\ s.entry = e /\ s.price = features'[e].price
                           /\ s.prob = features'[e].prob
                           /\ s.at \in (features'[e].at - Window)..features'[e].at
        BY DEF OnRecord
    <3>1. CASE e \in DOMAIN rows
        BY <2>2, <2>4, <3>1
    <3>2. CASE e \notin DOMAIN rows
        BY <2>2, <3>2 DEF OnRecord
    <3> QED BY <3>1, <3>2
  <2> QED BY <2>5, <2>6
<1>2. CASE ~Commit("engine")
  <2>1. UNCHANGED <<features, ledger>>
      BY <1>2 DEF Next, Writers, vars, StartCycle, ReadRace, BeginLoad, TakeLock, Commit, Store,
                  Fails, WriteRow, PriceMoves, Withdraw, Join, Finish, Tick
  <2>2. OnRecord'
      BY <2>1 DEF OnRecord
  <2>3. clock' \in Nat /\ clock <= clock'
      BY <1>2 DEF LedgerOK, Next, Writers, vars, StartCycle, ReadRace, BeginLoad, TakeLock, Commit,
                  Fails, WriteRow, PriceMoves, Withdraw, Join, Finish, Tick
  <2>4. HasRows("engine")' =>
           \/ HasRows("engine") /\ writer'["engine"].at = writer["engine"].at
           \/ writer'["engine"].at = clock
    <3> USE DEF HasRows, LockOK, Shaped, Writers
    <3>1. CASE ReadRace
        BY <3>1 DEF ReadRace
    <3>2. ASSUME NEW R \in Imports, BeginLoad(R) PROVE <2>4
        BY <3>2 DEF BeginLoad
    <3>3. ASSUME NEW w \in Writers, TakeLock(w) PROVE <2>4
        BY <3>3 DEF TakeLock
    <3>4. CASE Commit("loader")
        BY <3>4 DEF Commit
    <3>5. ASSUME NEW w \in Writers, Fails(w) PROVE <2>4
        BY <3>5 DEF Fails, Idle
    <3>6. ASSUME NEW w \in Writers, NEW e \in Entries, WriteRow(w, e) PROVE <2>4
        BY <3>6 DEF WriteRow
    <3>9. ASSUME NEW e \in Entries, Join(e) PROVE <2>4
        BY <3>9 DEF Join
    <3>7. CASE UNCHANGED writer
        BY <3>7
    <3>8. \/ ReadRace \/ Commit("loader") \/ UNCHANGED writer
          \/ \E R \in Imports : BeginLoad(R)
          \/ \E w \in Writers : TakeLock(w) \/ Fails(w)
          \/ \E w \in Writers, e \in Entries : WriteRow(w, e)
          \/ \E e \in Entries : Join(e)
        BY <1>2 DEF Next, vars, StartCycle, PriceMoves, Withdraw, Finish, Tick
    <3> QED BY <3>1, <3>2, <3>3, <3>4, <3>5, <3>6, <3>7, <3>8, <3>9
  <2>5. LedgerOK'
      BY <2>1, <2>3, <2>4 DEF LedgerOK
  <2> QED BY <2>2, <2>5
<1> QED BY <1>1, <1>2

(***************************************************************************)
(* The features of an entry are always on record: leaving out what the     *)
(* ledger has from the window before loses no prediction.                  *)
(***************************************************************************)
THEOREM FeaturesOnRecord == Spec => []OnRecord
BY LockInit, LockNext, RowsInit, RowsNext, LedgerInit, LedgerNext, PTL DEF Spec


-----------------------------------------------------------------------------
(* The arithmetic of predictions                                           *)

LEMMA Quotient ==
    ASSUME NEW a \in Nat, NEW b \in Nat, b > 0
    PROVE  a \div b \in Nat /\ b * (a \div b) <= a
OBVIOUS

LEMMA QuotientBounded ==
    ASSUME NEW a \in Nat, NEW b \in Nat, b > 0, NEW c \in Nat, a <= c * b
    PROVE  a \div b \in 0..c
OBVIOUS

\* What rounding to the nearest adds is at most a half.
LEMMA NearestRounds ==
    ASSUME NEW a \in Nat, NEW b \in Nat, b > 0
    PROVE  Nearest(a, b) \in Nat /\ 2 * (b * Nearest(a, b)) <= 2 * a + b
<1> DEFINE n == 2 * a + b
           d == 2 * b
           q == n \div d
<1>1. n \in Nat /\ d \in Nat /\ d > 0 /\ Nearest(a, b) = q
    BY DEF Nearest
<1> HIDE DEF n, d
<1>2. q \in Nat /\ d * q <= n
    BY <1>1, Quotient
<1> HIDE DEF q
<1> QED BY <1>1, <1>2 DEF n, d

LEMMA NearestBounded ==
    ASSUME NEW a \in Nat, NEW b \in Nat, b > 0, NEW c \in Nat, a <= c * b
    PROVE  Nearest(a, b) \in 0..c
<1> DEFINE q == Nearest(a, b)
<1>1. q \in Nat /\ 2 * (b * q) <= 2 * a + b
    BY NearestRounds
<1> HIDE DEF q
<1>2. CASE q <= c
    BY <1>1, <1>2 DEF q
<1>3. CASE q > c
  <2>1. q >= c + 1
      BY <1>1, <1>3
  <2>2. b * q >= b * (c + 1)
      BY <1>1, <2>1
  <2>3. b * (c + 1) = c * b + b
      OBVIOUS
  <2>4. b * q \in Int /\ c * b \in Int
      BY <1>1
  <2> QED BY <1>1, <2>2, <2>3, <2>4
<1> QED BY <1>1, <1>2, <1>3

LEMMA ImpliedIsNatural ==
    ASSUME NEW offered \in Nat
    PROVE  Implied(offered) \in Nat
BY Quotient DEF Implied, Book

LEMMA MarketInRange ==
    ASSUME NEW ps, IsFiniteSet(DOMAIN ps), \A e \in DOMAIN ps : ps[e] \in Nat,
           NEW e \in DOMAIN ps
    PROVE  MarketProbabilities(ps)[e] \in {Unknown} \cup 0..1000
<1> DEFINE implied == [d \in DOMAIN ps |-> Implied(ps[d])]
           total == SumFunctionOnSet(implied, DOMAIN ps)
<1>1. /\ DOMAIN implied = DOMAIN ps /\ implied[e] = Implied(ps[e])
      /\ Natural(implied, DOMAIN ps)
    BY ImpliedIsNatural DEF Natural
<1>2. MarketProbabilities(ps)[e] =
         IF Implied(ps[e]) = 0 THEN Unknown ELSE Nearest(1000 * Implied(ps[e]), total)
    BY <1>1 DEF MarketProbabilities, SumFunction
<1> HIDE DEF implied
<1>3. Implied(ps[e]) \in Nat /\ Implied(ps[e]) <= total /\ total \in Nat
    BY <1>1, ImpliedIsNatural, SumCoversMember, SumIsNatural
<1> HIDE DEF total
<1>4. CASE Implied(ps[e]) = 0
    BY <1>2, <1>4
<1>5. CASE Implied(ps[e]) # 0
  <2> DEFINE i == Implied(ps[e])
  <2>1. i \in Nat /\ total > 0 /\ 1000 * i \in Nat /\ 1000 * i <= 1000 * total
      BY <1>3, <1>5
  <2>2. Nearest(1000 * i, total) \in 0..1000
    <3>1. \A a, c \in Nat : a <= c * total => Nearest(a, total) \in 0..c
        BY <1>3, <2>1, NearestBounded, Zenon
    <3> DEFINE k == 1000
               a == 1000 * i
    <3>2. k \in Nat /\ a \in Nat /\ a <= k * total
        BY <2>1
    <3> HIDE DEF k, a
    <3>3. Nearest(a, total) \in 0..k
        BY <3>1, <3>2
    <3> QED BY <3>3 DEF k, a
  <2> QED BY <1>2, <1>5, <2>2
<1> QED BY <1>4, <1>5

LEMMA EvidenceInRange ==
    ASSUME NEW e \in Entries
    PROVE  EvidenceProbability[e] \in {Unknown} \cup 0..1000
<1> DEFINE rates == {i \in DOMAIN Rates[e] : Rates[e][i] <= 1000}
           mean == SumFunctionOnSet(Rates[e], rates) \div Cardinality(rates)
<1>1. EvidenceProbability[e] =
         IF rates = {} THEN Unknown ELSE IF mean < 10 THEN 10 ELSE IF mean > 800 THEN 800 ELSE mean
    BY DEF EvidenceProbability
<1>2. CASE rates = {}
    BY <1>1, <1>2
<1>3. CASE rates # {}
  <2>1. Rates[e] \in Seq(Nat)
      BY ScoringAssumption
  <2>2. /\ DOMAIN Rates[e] = 1..Len(Rates[e]) /\ Len(Rates[e]) \in Nat
        /\ \A i \in DOMAIN Rates[e] : Rates[e][i] \in Nat
      BY <2>1
  <2>a. IsFiniteSet(DOMAIN Rates[e])
      BY <2>2, FS_Interval
  <2>b. rates \in SUBSET DOMAIN Rates[e] /\ Natural(Rates[e], rates)
      BY <2>2 DEF Natural
  <2> HIDE DEF rates
  <2>3. IsFiniteSet(rates) /\ Cardinality(rates) \in Nat /\ Cardinality(rates) > 0
      BY <1>3, <2>a, <2>b, FS_Subset, FS_CardinalityType, FS_EmptySet
  <2>4. SumFunctionOnSet(Rates[e], rates) \in Nat
      BY <2>b, <2>3, SumIsNatural
  <2>5. mean \in Nat
      BY <2>3, <2>4, Quotient
  <2> HIDE DEF mean
  <2> QED BY <1>1, <1>3, <2>5
<1> QED BY <1>2, <1>3

LEMMA OddsIsNatural ==
    ASSUME NEW prob \in 0..1000
    PROVE  Odds(prob) \in Nat
<1>1. CASE prob = 1000
    BY <1>1 DEF Odds, Certain
<1>2. CASE prob # 1000
  <2>1. 1000 * prob \in Nat /\ 1000 - prob \in Nat /\ 1000 - prob > 0
      BY <1>2
  <2> QED BY <1>2, <2>1, Quotient DEF Odds
<1> QED BY <1>1, <1>2

LEMMA WeightIsNatural ==
    ASSUME NEW e \in Entries, NEW market \in {Unknown} \cup 0..1000
    PROVE  Weight(e, market) \in Nat
<1> DEFINE prior == IF market = Unknown THEN 1000 ELSE market
           signal == IF EvidenceProbability[e] = Unknown THEN prior ELSE EvidenceProbability[e]
<1>1. Unknown \notin 0..1000
    BY DEF Unknown
<1> DEFINE range == 0..1000
<1>2. prior \in range /\ signal \in range
    BY <1>1, EvidenceInRange
<1>3. \A x \in range : Odds(x) \in Nat
    BY OddsIsNatural
<1> DEFINE o == Odds(prior)
           q == Odds(signal)
<1>4. o \in Nat /\ q \in Nat
  <2> HIDE DEF prior, signal, range
  <2> QED BY <1>2, <1>3
<1>5. Weight(e, market) = (7 * o + 3 * q) \div 10
    BY DEF Weight
<1> HIDE DEF o, q
<1> QED BY <1>4, <1>5

\* Whatever the prices, the probabilities of a field, or of some of it, are at
\* most one together and half a thousandth each.
LEMMA ProbabilitiesOfField ==
    ASSUME NEW ps, DOMAIN ps \subseteq Entries, \A e \in DOMAIN ps : ps[e] \in Nat
    PROVE  LET prob == DeterministicProbabilities(ps)
           IN  /\ DOMAIN prob = DOMAIN ps
               /\ \A e \in DOMAIN ps : prob[e] \in 0..1000
               /\ \A S \in SUBSET DOMAIN ps :
                     2 * SumFunctionOnSet(prob, S) <= 2000 + Cardinality(S)
<1> DEFINE D == DOMAIN ps
           raw == [e \in D |-> Weight(e, MarketProbabilities(ps)[e])]
           sum == SumFunctionOnSet(raw, D)
           total == IF sum = 0 THEN 1 ELSE sum
           prob == [e \in D |-> Nearest(1000 * raw[e], total)]
<1>1. IsFiniteSet(D)
    BY ScoringAssumption, FS_Subset
<1>2. Natural(raw, D) /\ DOMAIN raw = D
  <2>1. \A e \in D : Weight(e, MarketProbabilities(ps)[e]) \in Nat
    <3> SUFFICES ASSUME NEW e \in D PROVE Weight(e, MarketProbabilities(ps)[e]) \in Nat
        OBVIOUS
    <3> DEFINE m == MarketProbabilities(ps)[e]
               range == {Unknown} \cup 0..1000
    <3>1. m \in range
        BY <1>1, MarketInRange
    <3>2. \A x \in range : Weight(e, x) \in Nat
        BY WeightIsNatural
    <3> HIDE DEF m, range
    <3>3. Weight(e, m) \in Nat
        BY <3>1, <3>2
    <3> QED BY <3>3 DEF m
  <2> QED BY <2>1 DEF Natural
<1>3. DeterministicProbabilities(ps) = prob
    BY <1>2 DEF DeterministicProbabilities, SumFunction
<1> HIDE DEF raw, D
<1>4. sum \in Nat /\ total \in Nat /\ total > 0 /\ sum <= total
      /\ \A e \in D : raw[e] \in Nat /\ raw[e] <= total
    BY <1>1, <1>2, SumIsNatural, SumCoversMember DEF Natural
<1> HIDE DEF total, sum
<1> DEFINE scaled  == [e \in D |-> 2000 * raw[e]]
           halves  == [e \in D |-> total * 1]
           ones    == [e \in D |-> 1]
           both    == [e \in D |-> scaled[e] + halves[e]]
           counted == [e \in D |-> (2 * total) * prob[e]]
<1>5. ASSUME NEW e \in D
      PROVE  /\ prob[e] \in 0..1000 /\ scaled[e] \in Int /\ halves[e] \in Int
             /\ counted[e] \in Int /\ counted[e] <= scaled[e] + halves[e]
  <2> DEFINE w == raw[e]
  <2>1. w \in Nat /\ w <= total
      BY <1>4
  <2> HIDE DEF w
  <2> DEFINE a == 1000 * w
             q == Nearest(a, total)
  <2>2. a \in Nat /\ a <= 1000 * total /\ 1000 \in Nat
      BY <1>4, <2>1
  <2>3. prob[e] = q /\ scaled[e] = 2 * a
      BY <2>1 DEF w
  <2> HIDE DEF a
  <2>4. q \in 0..1000 /\ 2 * (total * q) <= 2 * a + total
    <3>a. \A x, c \in Nat : x <= c * total => Nearest(x, total) \in 0..c
        BY <1>4, NearestBounded, Zenon
    <3> DEFINE k == 1000
    <3>b. k \in Nat /\ a <= k * total
        BY <2>2
    <3> HIDE DEF k, q
    <3>c. Nearest(a, total) \in 0..k
        BY <2>2, <3>a, <3>b
    <3>1. q \in 0..1000
        BY <3>c DEF k, q
    <3>2. 2 * (total * q) <= 2 * a + total
        BY <1>4, <2>2, NearestRounds DEF q
    <3> QED BY <3>1, <3>2
  <2> HIDE DEF q
  <2>5. (2 * total) * q \in Int /\ (2 * total) * q = 2 * (total * q)
      BY <1>4, <2>4
  <2>6. halves[e] = total
      BY <1>4
  <2> QED BY <1>4, <2>2, <2>3, <2>4, <2>5, <2>6
<1> DEFINE p(S) == SumFunctionOnSet(prob, S)
<1>6. ASSUME NEW S \in SUBSET D PROVE 2 * p(S) <= 2000 + Cardinality(S)
  <2> DEFINE n == Cardinality(S)
             rest == SumFunctionOnSet(raw, S)
  <2>1. IsFiniteSet(S) /\ n \in Nat
      BY <1>1, FS_Subset, FS_CardinalityType
  <2>2. /\ Integral(scaled, S) /\ Integral(halves, S) /\ Integral(both, S) /\ Integral(counted, S)
        /\ Integral(prob, S) /\ Integral(raw, S) /\ Integral(ones, S)
      BY <1>2, <1>5 DEF Integral, Natural
  <2>3. SumFunctionOnSet(counted, S) <= SumFunctionOnSet(both, S)
    <3>1. \A e \in S : counted[e] <= both[e]
        BY <1>5
    <3> HIDE DEF counted, both
    <3> QED BY <2>1, <2>2, <3>1, SumOfSmaller
  <2>4. SumFunctionOnSet(both, S) = SumFunctionOnSet(scaled, S) + SumFunctionOnSet(halves, S)
    <3>1. \A e \in S : both[e] = scaled[e] + halves[e]
        OBVIOUS
    <3> HIDE DEF both, scaled, halves
    <3> QED BY <2>1, <2>2, <3>1, SumOfBoth
  <2>5. SumFunctionOnSet(scaled, S) = 2000 * rest
    <3>1. \A e \in S : scaled[e] = 2000 * raw[e]
        OBVIOUS
    <3> HIDE DEF scaled
    <3> QED BY <2>1, <2>2, <3>1, SumOfMultiples
  <2>6. SumFunctionOnSet(halves, S) = total * n
    <3>1. \A e \in S : halves[e] = total * ones[e]
        OBVIOUS
    <3>2. \A e \in S : ones[e] = 1
        OBVIOUS
    <3> HIDE DEF halves, ones
    <3>3. SumFunctionOnSet(ones, S) = n
        BY <2>1, <3>2, SumOfOnes
    <3> HIDE DEF n
    <3>4. SumFunctionOnSet(halves, S) = total * SumFunctionOnSet(ones, S)
        BY <1>4, <2>1, <2>2, <3>1, SumOfMultiples
    <3> QED BY <3>3, <3>4
  <2>7. SumFunctionOnSet(counted, S) = (2 * total) * p(S)
    <3>1. (\A e \in S : counted[e] = (2 * total) * prob[e]) /\ 2 * total \in Int
        BY <1>4
    <3> HIDE DEF counted, prob
    <3> QED BY <2>1, <2>2, <3>1, SumOfMultiples
  <2>8. p(S) \in Int
    <3> HIDE DEF prob
    <3> QED BY <2>1, <2>2, SumIsInt
  <2>9. rest \in Nat /\ rest <= total
    <3>1. rest \in Nat /\ rest <= SumFunctionOnSet(raw, D)
        BY <1>1, <1>2, SumOfSubset
    <3> QED BY <1>4, <3>1 DEF sum
  <2> DEFINE q == p(S)
  <2> HIDE DEF n, rest, p
  <2> HIDE DEF q
  <2>10. (2 * total) * q <= 2000 * rest + total * n
      BY <2>3, <2>4, <2>5, <2>6, <2>7 DEF q
  <2>11. q \in Int
      BY <2>8 DEF q
  <2>12. 2000 * rest <= 2000 * total
      BY <1>4, <2>9
  <2>13. (2 * total) * q = total * (2 * q) /\ 2000 * total + total * n = total * (2000 + n)
      BY <1>4, <2>1, <2>11
  <2>14. total * (2 * q) <= total * (2000 + n)
      BY <1>4, <2>1, <2>9, <2>10, <2>11, <2>12, <2>13
  <2>15. 2 * q <= 2000 + n
      BY <1>4, <2>1, <2>11, <2>14
  <2> QED BY <2>15 DEF q, n
<1> QED BY <1>3, <1>5, <1>6 DEF D, p

LEMMA StakeIsWorth ==
    ASSUME NEW prob \in 0..1000, NEW offered \in Nat
    PROVE  /\ CappedKelly(prob, offered) \in 0..50
           /\ CappedKelly(prob, offered) > 0 => prob * offered > 1000
<1> DEFINE gain == prob * offered - 1000
           full == gain \div (offered - 1)
<1>1. CASE offered <= 1 \/ prob <= 0 \/ prob >= 1000
    BY <1>1 DEF CappedKelly
<1>2. CASE ~(offered <= 1 \/ prob <= 0 \/ prob >= 1000)
  <2>1. gain \in Int /\ offered - 1 \in Nat /\ offered - 1 > 0
      BY <1>2
  <2>2. prob * offered > 1000 <=> gain > 0
      BY <1>2
  <2> DEFINE b == offered - 1
  <2> HIDE DEF gain
  <2>3. full \in Int /\ (full > 0 => gain > 0)
    <3> HIDE DEF b
    <3>1. gain \div b \in Int /\ (gain \div b > 0 => gain > 0)
        BY <2>1 DEF b
    <3> QED BY <3>1 DEF b
  <2>4. CappedKelly(prob, offered) =
           IF full <= 0 THEN 0 ELSE IF full \div 4 > 50 THEN 50 ELSE full \div 4
      BY <1>2 DEF CappedKelly, gain
  <2> HIDE DEF full
  <2> QED BY <2>2, <2>3, <2>4
<1> QED BY <1>1, <1>2

-----------------------------------------------------------------------------
(* Types                                                                   *)

\* What a transaction is about to write are rows of entries.
RowsTyped ==
    \A w \in Writers :
        /\ writer[w].pc # "idle" => writer[w].at \in 0..MaxTime /\ writer[w].missed \subseteq Entries
        /\ HasRows(w) => LET rows == writer[w].rows
                         IN  DOMAIN rows \subseteq Entries /\ \A e \in DOMAIN rows : RowOK(rows[e])

LEMMA TypesInit == Init => TypeOK /\ RowsTyped
<1> SUFFICES ASSUME Init
             PROVE  TypeOK /\ RowsTyped
    OBVIOUS
<1>1. \A w \in Writers : writer[w].pc = "idle"
    BY DEF Init, Idle
<1>2. RowsTyped
    BY <1>1 DEF RowsTyped, HasRows
<1>3. {Before, Ahead, Recent, CycleLimit, Window, MaxTime, MaxMoves, MaxFails} \subseteq Nat
    BY ScoringAssumption
<1>4. \A e \in Entries : RowOK(features[e]) /\ RowOK(score[e])
    BY <1>3 DEF Init, RowOK, NoRow
<1>5. clock \in 0..MaxTime /\ moves \in 0..MaxMoves /\ fails \in 0..MaxFails
    BY <1>3 DEF Init
<1>6. price \in [Entries -> Prices \cup {0}]
    BY ScoringAssumption DEF Init
<1>7. /\ status \in [Races -> {"scheduled", "finished"}]
      /\ running \subseteq Entries /\ \A t \in DOMAIN late : late[t] \subseteq Entries
      /\ lock \in {"free"} \cup Writers
    BY ScoringAssumption DEF Init
<1> QED
    BY <1>1, <1>2, <1>4, <1>5, <1>6, <1>7 DEF TypeOK

LEMMA PriceIsNatural == Prices \cup {0} \subseteq Nat
<1>1. Prices \subseteq Nat
    BY ScoringAssumption
<1>2. {0} \subseteq Nat
    OBVIOUS
<1> QED BY <1>1, <1>2, Zenon

LEMMA PricesNatural == TypeOK => \A e \in Entries : price[e] \in Prices \cup {0} /\ price[e] \in Nat
<1>1. Prices \cup {0} \subseteq Nat
    BY PriceIsNatural
<1>2. TypeOK => price \in [Entries -> Prices \cup {0}]
    BY DEF TypeOK
<1> QED BY <1>1, <1>2, Zenon

LEMMA RowsNatural ==
    ASSUME NEW row, RowOK(row)
    PROVE  row.prob \in 0..1000 /\ row.prob \in Nat /\ row.price \in Nat
<1>1. Prices \cup {0} \subseteq Nat
    BY PriceIsNatural
<1>2. row.prob \in 0..1000 /\ row.price \in Prices \cup {0}
    BY DEF RowOK
<1>3. row.price \in Nat
    BY <1>1, <1>2, Zenon
<1> QED BY <1>2, <1>3

EngineRowsCertain(r) ==
    \A S \in SUBSET Field(r) :
        2 * SumFunctionOnSet([e \in Field(r) |-> EngineRows(r)[e].prob], S)
          <= 2000 + Cardinality(S)

LEMMA EngineRowsTyped ==
    ASSUME TypeOK, NEW r
    PROVE  /\ DOMAIN EngineRows(r) = Field(r) /\ Field(r) \subseteq Entries
           /\ \A e \in Field(r) : RowOK(EngineRows(r)[e])
           /\ EngineRowsCertain(r)
<1> DEFINE F == Field(r)
           ps == Restrict(price, F)
           prob == FieldProbabilities[ps]
           rows == [e \in F |-> [model |-> "engine", at |-> clock, price |-> price[e],
                                 prob |-> prob[e]]]
           probs == [e \in F |-> rows[e].prob]
<1>1. EngineRows(r) = rows
    BY DEF EngineRows
<1>2. F \subseteq Entries
    BY DEF Field, TypeOK
<1> HIDE DEF F
<1>3. DOMAIN ps = F /\ \A e \in F : ps[e] = price[e]
    BY DEF Restrict
<1>4. \A e \in Entries : price[e] \in Prices \cup {0} /\ price[e] \in Nat
    BY PricesNatural
<1>7. prob = DeterministicProbabilities(ps)
  <2>1. ps = [e \in F |-> price[e]]
      BY DEF Restrict
  <2>2. ps \in [F -> Prices \cup {0}]
      BY <1>2, <1>4, <2>1
  <2>3. ps \in UNION {[G -> Prices \cup {0}] : G \in SUBSET Entries}
      BY <1>2, <2>2
  <2> QED BY <2>3 DEF FieldProbabilities
<1> HIDE DEF ps
<1>5. /\ DOMAIN prob = F /\ \A e \in F : prob[e] \in 0..1000
      /\ \A S \in SUBSET F : 2 * SumFunctionOnSet(prob, S) <= 2000 + Cardinality(S)
  <2>1. DOMAIN ps \subseteq Entries /\ \A e \in DOMAIN ps : ps[e] \in Nat
      BY <1>2, <1>3, <1>4
  <2> QED BY <1>3, <1>7, <2>1, ProbabilitiesOfField
<1> HIDE DEF prob
<1>6. \A e \in F : RowOK(rows[e])
    BY <1>2, <1>4, <1>5 DEF RowOK, TypeOK, Writers
<1>8. \A S \in SUBSET F : 2 * SumFunctionOnSet(probs, S) <= 2000 + Cardinality(S)
  <2> SUFFICES ASSUME NEW S \in SUBSET F
               PROVE  2 * SumFunctionOnSet(probs, S) <= 2000 + Cardinality(S)
      OBVIOUS
  <2>1. IsFiniteSet(S) /\ \A e \in S : probs[e] = prob[e]
      BY <1>2, ScoringAssumption, FS_Subset
  <2>2. SumFunctionOnSet(probs, S) = SumFunctionOnSet(prob, S)
    <3> HIDE DEF probs
    <3> QED BY <2>1, SumOfEqual
  <2> QED BY <1>5, <2>2
<1> QED BY <1>1, <1>2, <1>6, <1>8 DEF F, EngineRowsCertain

LEMMA EngineRowsOK ==
    ASSUME TypeOK, NEW r, NEW rows, rows = EngineRows(r)
    PROVE  DOMAIN rows \subseteq Entries /\ \A e \in DOMAIN rows : RowOK(rows[e])
<1>1. /\ DOMAIN EngineRows(r) = Field(r) /\ Field(r) \subseteq Entries
      /\ \A e \in Field(r) : RowOK(EngineRows(r)[e])
    BY EngineRowsTyped
<1> QED BY <1>1

LEMMA LoaderRowsTyped ==
    ASSUME TypeOK, NEW at \in 0..MaxTime, NEW R
    PROVE  /\ DOMAIN LoaderRows(at, R) \subseteq Entries
           /\ \A e \in DOMAIN LoaderRows(at, R) : RowOK(LoaderRows(at, R)[e])
<1> DEFINE F == UNION {Field(r) : r \in R}
<1>1. F \subseteq Entries
    BY DEF Field, TypeOK
<1>2. ASSUME NEW e \in F
      PROVE  /\ price[e] \in Prices \cup {0}
             /\ (IF price[e] = 0 THEN 0 ELSE Nearest(100, price[e])) \in 0..1000
  <2>1. price[e] \in Prices \cup {0} /\ price[e] \in Nat
      BY <1>1, PricesNatural
  <2> DEFINE p == price[e]
  <2>2. CASE p # 0
    <3>1. p \in Nat /\ p > 0 /\ 100 \in Nat /\ 100 <= 100 * p
        BY <2>1, <2>2
    <3> HIDE DEF p
    <3>2. Nearest(100, p) \in 0..100
        BY <3>1, NearestBounded
    <3>3. Nearest(100, p) \in 0..1000
        BY <3>2
    <3> QED BY <2>1, <2>2, <3>3 DEF p
  <2>3. CASE p = 0
    <3>1. (IF price[e] = 0 THEN 0 ELSE Nearest(100, price[e])) = 0
        BY <2>3
    <3> QED BY <2>1, <3>1
  <2> QED BY <2>2, <2>3
<1> DEFINE prob == [e \in F |-> IF price[e] = 0 THEN 0 ELSE Nearest(100, price[e])]
<1>3. \A e \in F : prob[e] \in 0..1000
    BY <1>2
<1>4. LoaderRows(at, R) =
         [e \in F |-> [model |-> "loader", at |-> at, price |-> price[e], prob |-> prob[e]]]
    BY DEF LoaderRows
<1> HIDE DEF prob, F
<1> QED BY <1>1, <1>2, <1>3, <1>4 DEF RowOK, Writers

LEMMA TypesNext ==
    LockOK /\ TypeOK /\ RowsTyped /\ [Next]_vars => TypeOK' /\ RowsTyped'
<1> SUFFICES ASSUME LockOK, TypeOK, RowsTyped, [Next]_vars PROVE TypeOK' /\ RowsTyped'
    OBVIOUS
<1> DEFINE Rest == UNCHANGED <<clock, status, running, price, features, score, late, moves>>
<1> USE ScoringAssumption
<1>a. ASSUME Rest, fails' \in 0..MaxFails, lock' \in {"free"} \cup Writers,
             \A w \in Writers : writer'[w].pc \in {"idle", "lock", "write"}
      PROVE  TypeOK'
    BY <1>a DEF TypeOK
<1>b. ASSUME UNCHANGED writer PROVE RowsTyped'
    BY <1>b DEF RowsTyped, HasRows
<1>1. CASE StartCycle
    BY <1>1, <1>a, <1>b DEF StartCycle, TypeOK
<1>2. CASE ReadRace
  <2> DEFINE r == Head(queue)
  <2>1. CASE Field(r) = {}
      BY <1>2, <2>1, <1>a, <1>b DEF ReadRace, TypeOK
  <2>2. CASE Field(r) # {}
    <3> DEFINE rows == EngineRows(r)
    <3>1. /\ Rest /\ UNCHANGED <<lock, fails>>
          /\ writer' = [writer EXCEPT !["engine"] =
                          [pc |-> "lock", at |-> clock, rows |-> rows, done |-> {},
                           missed |-> {}]]
        BY <1>2, <2>2 DEF ReadRace
    <3>2. DOMAIN rows \subseteq Entries /\ \A e \in DOMAIN rows : RowOK(rows[e])
        BY EngineRowsOK
    <3> HIDE DEF rows
    <3>3. /\ writer'["engine"].rows = rows /\ writer'["engine"].at = clock
          /\ writer'["engine"].pc = "lock" /\ writer'["loader"] = writer["loader"]
          /\ writer'["engine"].missed = {}
        <4> DEFINE new == [pc |-> "lock", at |-> clock, rows |-> rows, done |-> {},
                           missed |-> {}]
        <4>1. new.rows = rows /\ new.at = clock /\ new.pc = "lock" /\ new.missed = {}
            OBVIOUS
        <4> HIDE DEF new
        <4>2. writer' = [writer EXCEPT !["engine"] = new]
            BY <3>1 DEF new
        <4>3. DOMAIN writer = {"engine", "loader"}
            BY DEF LockOK, Writers
        <4>4. writer'["engine"] = new /\ writer'["loader"] = writer["loader"]
            BY <4>2, <4>3
        <4> QED BY <4>1, <4>4
    <3>4. TypeOK'
        <4>1. /\ clock \in 0..MaxTime /\ fails \in 0..MaxFails /\ lock \in {"free"} \cup Writers
              /\ writer["loader"].pc \in {"idle", "lock", "write"}
            BY DEF TypeOK, Writers
        <4>2. \A w \in Writers : writer'[w].pc \in {"idle", "lock", "write"}
            BY <3>3, <4>1 DEF Writers
        <4> QED BY <3>1, <4>1, <4>2, <1>a
    <3>5. clock \in 0..MaxTime
        BY DEF TypeOK
    <3>6. RowsTyped'
        <4>1. ASSUME NEW w \in Writers, writer'[w].pc # "idle"
              PROVE  writer'[w].at \in 0..MaxTime /\ writer'[w].missed \subseteq Entries
            <5>1. writer["loader"].pc # "idle" =>
                     writer["loader"].at \in 0..MaxTime /\ writer["loader"].missed \subseteq Entries
                BY DEF RowsTyped, Writers
            <5> QED BY <3>3, <3>5, <4>1, <5>1 DEF Writers
        <4>2. ASSUME NEW w \in Writers, HasRows(w)'
              PROVE  /\ DOMAIN writer'[w].rows \subseteq Entries
                     /\ \A e \in DOMAIN writer'[w].rows : RowOK(writer'[w].rows[e])
            <5>1. CASE w = "engine"
                BY <3>2, <3>3, <5>1
            <5>2. CASE w = "loader"
                <6>1. HasRows("loader")
                    BY <3>3, <4>2, <5>2 DEF HasRows
                <6>2. /\ DOMAIN writer["loader"].rows \subseteq Entries
                      /\ \A e \in DOMAIN writer["loader"].rows : RowOK(writer["loader"].rows[e])
                    BY <6>1 DEF RowsTyped, Writers
                <6> QED BY <3>3, <5>2, <6>2
            <5> QED BY <5>1, <5>2 DEF Writers
        <4> QED BY <4>1, <4>2 DEF RowsTyped
    <3> QED BY <3>4, <3>6
  <2> QED BY <2>1, <2>2
<1>3. ASSUME NEW R \in Imports, BeginLoad(R) PROVE TypeOK' /\ RowsTyped'
    BY <1>3, <1>a DEF BeginLoad, TypeOK, RowsTyped, HasRows, LockOK, Writers
<1>4. ASSUME NEW w \in Writers, TakeLock(w) PROVE TypeOK' /\ RowsTyped'
  <2> DEFINE at == writer[w].at
             rows == IF w = "engine" THEN writer[w].rows ELSE LoaderRows(at, DOMAIN writer[w].rows)
             missed == IF w = "engine" THEN writer[w].missed ELSE {}
  <2>1. /\ Rest /\ UNCHANGED fails /\ lock' = w
        /\ writer' = [writer EXCEPT ![w] = [pc |-> "write", at |-> at, done |-> {}, rows |-> rows,
                                            missed |-> missed]]
        /\ writer[w].pc = "lock"
      BY <1>4 DEF TakeLock
  <2>2. at \in 0..MaxTime /\ missed \subseteq Entries
      BY <2>1 DEF RowsTyped
  <2>3. DOMAIN rows \subseteq Entries /\ \A e \in DOMAIN rows : RowOK(rows[e])
    <3>1. CASE w = "engine"
        BY <2>1, <3>1 DEF RowsTyped, HasRows
    <3>2. CASE w # "engine"
        BY <2>2, <3>2, LoaderRowsTyped
    <3> QED BY <3>1, <3>2
  <2> HIDE DEF rows, at, missed
  <2>4. TypeOK'
      BY <2>1, <1>a DEF TypeOK, LockOK, Writers
  <2>5. RowsTyped'
      BY <2>1, <2>2, <2>3 DEF RowsTyped, HasRows, LockOK, Writers
  <2> QED BY <2>4, <2>5
<1>5. ASSUME NEW w \in Writers, Commit(w) PROVE TypeOK' /\ RowsTyped'
  <2> DEFINE rows == writer[w].rows
  <2>1. \A e \in DOMAIN rows : RowOK(rows[e])
      BY <1>5 DEF Commit, RowsTyped, HasRows
  <2>2. /\ \A e \in Entries : score'[e] \in {score[e]} \cup {rows[d] : d \in DOMAIN rows}
        /\ \A e \in Entries : features'[e] \in {features[e]} \cup {rows[d] : d \in DOMAIN rows}
        /\ writer' = [writer EXCEPT ![w] = Idle] /\ lock' = "free"
        /\ UNCHANGED <<clock, status, running, price, moves, fails>>
      BY <1>5 DEF Commit, Store, Upserted
  <2>7. \A t \in DOMAIN late' : late'[t] \subseteq Entries
    <3>1. writer[w].missed \subseteq Entries
        BY <1>5 DEF Commit, RowsTyped
    <3>2. \A t \in DOMAIN late : TooLate(late[t], w, rows) \subseteq Entries
        BY <3>1 DEF TooLate, TypeOK
    <3>3. \/ late' = [t \in DOMAIN late |-> TooLate(late[t], w, rows)]
          \/ late' = [late EXCEPT !["score"] = TooLate(@, w, rows)]
        BY <1>5 DEF Commit, Store
    <3> DEFINE new(t) == TooLate(late[t], w, rows)
    <3>4. \/ late' = [t \in DOMAIN late |-> new(t)]
          \/ late' = [late EXCEPT !["score"] = new("score")]
        BY <3>3
    <3>5. \A t \in DOMAIN late : new(t) \subseteq Entries /\ late[t] \subseteq Entries
        BY <3>2 DEF TypeOK
    <3>6. "score" \in DOMAIN late
        BY DEF LockOK
    <3> HIDE DEF new
    <3> QED BY <3>4, <3>5, <3>6
  <2> HIDE DEF rows
  <2>3. \A e \in Entries : RowOK(score'[e]) /\ RowOK(features'[e])
      BY <2>1, <2>2 DEF TypeOK
  <2>4. \A v \in Writers : writer'[v] = writer[v] \/ writer'[v] = Idle
      BY <2>2 DEF LockOK, Writers
  <2>5. TypeOK'
    <3>1. /\ UNCHANGED <<clock, status, running, price, moves, fails>>
          /\ \A v \in Writers : writer'[v].pc \in {"idle", "lock", "write"}
        BY <2>2, <2>4 DEF TypeOK, Idle
    <3> QED BY <2>2, <2>3, <2>7, <3>1 DEF TypeOK, Writers
  <2>6. RowsTyped'
    <3>1. \A v \in Writers : writer'[v].pc # "idle" => writer'[v] = writer[v]
        BY <2>4 DEF Idle
    <3> QED BY <3>1 DEF RowsTyped, HasRows
  <2> QED BY <2>5, <2>6
<1>6. ASSUME NEW w \in Writers, Fails(w) PROVE TypeOK' /\ RowsTyped'
  <2>1. /\ Rest /\ fails' = fails + 1 /\ fails < MaxFails /\ lock' \in {lock, "free"}
        /\ writer' = [writer EXCEPT ![w] = Idle]
      BY <1>6 DEF Fails
  <2>2. \A v \in Writers : writer'[v] = writer[v] \/ writer'[v] = Idle
      BY <2>1 DEF LockOK
  <2>3. TypeOK'
      BY <2>1, <2>2, <1>a DEF TypeOK, Idle
  <2>4. RowsTyped'
    <3>1. \A v \in Writers : writer'[v].pc # "idle" => writer'[v] = writer[v]
        BY <2>2 DEF Idle
    <3> QED BY <3>1 DEF RowsTyped, HasRows
  <2> QED BY <2>3, <2>4
<1>7. ASSUME NEW w \in Writers, NEW e \in Entries, WriteRow(w, e) PROVE TypeOK' /\ RowsTyped'
  <2>1. \A v \in Writers : /\ writer'[v].pc = writer[v].pc /\ writer'[v].at = writer[v].at
                           /\ writer'[v].rows = writer[v].rows
                           /\ writer'[v].missed = writer[v].missed
      BY <1>7 DEF WriteRow, LockOK, Shaped
  <2>2. Rest /\ UNCHANGED <<lock, fails>>
      BY <1>7 DEF WriteRow
  <2>3. TypeOK'
      BY <2>1, <2>2, <1>a DEF TypeOK
  <2>4. RowsTyped'
      BY <2>1 DEF RowsTyped, HasRows
  <2> QED BY <2>3, <2>4
<1>8. ASSUME NEW e \in Entries, NEW p \in Prices, PriceMoves(e, p) PROVE TypeOK' /\ RowsTyped'
  <2>1. price' \in [Entries -> Prices \cup {0}] /\ moves' \in 0..MaxMoves
      BY <1>8 DEF PriceMoves, TypeOK
  <2> QED BY <2>1, <1>8, <1>b DEF PriceMoves, TypeOK
<1>9. ASSUME NEW e \in Entries, Withdraw(e) PROVE TypeOK' /\ RowsTyped'
  <2>1. running' \subseteq Entries /\ moves' \in 0..MaxMoves
      BY <1>9 DEF Withdraw, TypeOK
  <2> QED BY <2>1, <1>9, <1>b DEF Withdraw, TypeOK
<1>13. ASSUME NEW e \in Entries, Join(e) PROVE TypeOK' /\ RowsTyped'
  <2>1. /\ running' \subseteq Entries /\ moves' \in 0..MaxMoves
        /\ \A t \in DOMAIN late' : late'[t] \subseteq Entries
        /\ UNCHANGED <<clock, status, price, features, score, lock, fails>>
      BY <1>13 DEF Join, TypeOK
  <2>2. \A w \in Writers : /\ writer'[w].pc = writer[w].pc /\ writer'[w].at = writer[w].at
                           /\ writer'[w].rows = writer[w].rows
                           /\ writer[w].pc # "idle" => writer'[w].missed = writer[w].missed \cup {e}
      BY <1>13 DEF Join, LockOK, Shaped
  <2>3. TypeOK'
      BY <2>1, <2>2 DEF TypeOK
  <2>4. \A w \in Writers :
           /\ writer'[w].pc # "idle" => writer'[w].at \in 0..MaxTime /\ writer'[w].missed \subseteq Entries
           /\ HasRows(w)' => HasRows(w) /\ writer'[w].rows = writer[w].rows
      BY <2>2 DEF RowsTyped, HasRows
  <2>5. RowsTyped'
      BY <2>4 DEF RowsTyped
  <2> QED BY <2>3, <2>5
<1>10. ASSUME NEW r \in Races, Finish(r) PROVE TypeOK' /\ RowsTyped'
  <2>1. status' \in [Races -> {"scheduled", "finished"}]
      BY <1>10 DEF Finish, TypeOK
  <2> QED BY <2>1, <1>10, <1>b DEF Finish, TypeOK
<1>11. CASE Tick
  <2>1. clock' \in 0..MaxTime
      BY <1>11 DEF Tick, TypeOK
  <2> QED BY <2>1, <1>11, <1>b DEF Tick, TypeOK
<1>12. CASE UNCHANGED vars
    BY <1>12, <1>b DEF vars, TypeOK
<1> QED BY <1>1, <1>2, <1>3, <1>4, <1>5, <1>6, <1>7, <1>8, <1>9, <1>10, <1>11, <1>12, <1>13 DEF Next

(***************************************************************************)
(* The variables have their types; no probability leaves 0..1000 however   *)
(* prices, priors and evidence combine, and no division is by zero.        *)
(***************************************************************************)
THEOREM ScoringTypes == Spec => []TypeOK
BY LockInit, LockNext, TypesInit, TypesNext, PTL DEF Spec

-----------------------------------------------------------------------------
(* The probabilities of a field                                            *)

\* A sum is certain when it is at most one and what rounding may add.
Certainly(f, S) == 2 * SumFunctionOnSet(f, S) <= 2000 + Cardinality(S)

\* So are those of any part of the rows the engine is about to write ...
RowsAtMostCertain ==
    HasRows("engine") =>
        LET rows == writer["engine"].rows
        IN  \A S \in SUBSET DOMAIN rows : Certainly([e \in DOMAIN rows |-> rows[e].prob], S)

Probabilities(table) == [e \in Entries |-> table[e].prob]

\* ... and of a field: whatever is left of it adds up to no more.
PartsAtMostCertain ==
    \A r \in Races : \A S \in SUBSET (Field(r) \ late["features"]) :
        Certainly(Probabilities(features), S)

LEMMA CertainInit == Init => RowsAtMostCertain /\ PartsAtMostCertain
<1> SUFFICES ASSUME Init PROVE RowsAtMostCertain /\ PartsAtMostCertain
    OBVIOUS
<1>1. RowsAtMostCertain
    BY DEF Init, RowsAtMostCertain, HasRows, Idle, Writers
<1>2. ASSUME NEW S \in SUBSET Entries PROVE Certainly(Probabilities(features), S)
  <2> DEFINE f == Probabilities(features)
  <2>1. IsFiniteSet(S) /\ Integral(f, S) /\ \A e \in S : f[e] = 0 * f[e]
      BY ScoringAssumption, FS_Subset DEF Init, Probabilities, NoRow, Integral
  <2>2. Cardinality(S) \in Nat
      BY <2>1, FS_CardinalityType
  <2> HIDE DEF f
  <2>3. SumFunctionOnSet(f, S) = 0 * SumFunctionOnSet(f, S) /\ SumFunctionOnSet(f, S) \in Int
      BY <2>1, SumOfMultiples, SumIsInt
  <2>4. SumFunctionOnSet(f, S) = 0
      BY <2>3
  <2> QED BY <2>2, <2>4 DEF f, Certainly
<1>3. \A r \in Races : Field(r) \subseteq Entries
    BY ScoringAssumption DEF Init, Field
<1> QED BY <1>1, <1>2, <1>3 DEF PartsAtMostCertain

LEMMA RowsCertainNext ==
    ASSUME LockOK, TypeOK, RowsAtMostCertain, [Next]_vars
    PROVE  RowsAtMostCertain'
<1> USE DEF LockOK, Writers
<1>1. ASSUME HasRows("engine")' => /\ HasRows("engine")
                                   /\ writer'["engine"].rows = writer["engine"].rows
      PROVE  RowsAtMostCertain'
    BY <1>1 DEF RowsAtMostCertain
<1>2. CASE ReadRace
  <2> DEFINE r == Head(queue)
             rows == EngineRows(r)
  <2>1. CASE Field(r) = {}
      BY <1>2, <2>1, <1>1 DEF ReadRace, HasRows
  <2>2. CASE Field(r) # {}
    <3>1. writer'["engine"].rows = rows
        BY <1>2, <2>2 DEF ReadRace
    <3>2. /\ DOMAIN rows = Field(r)
          /\ \A S \in SUBSET Field(r) : Certainly([e \in Field(r) |-> rows[e].prob], S)
        <4>1. DOMAIN EngineRows(r) = Field(r) /\ EngineRowsCertain(r)
            BY EngineRowsTyped
        <4> QED BY <4>1 DEF EngineRowsCertain, Certainly
    <3> HIDE DEF rows
    <3> QED BY <3>1, <3>2 DEF RowsAtMostCertain
  <2> QED BY <2>1, <2>2
<1>3. ASSUME NEW R \in Imports, BeginLoad(R) PROVE RowsAtMostCertain'
    BY <1>3, <1>1 DEF BeginLoad, HasRows
<1>4. ASSUME NEW w \in Writers, TakeLock(w) PROVE RowsAtMostCertain'
    BY <1>4, <1>1 DEF TakeLock, HasRows
<1>5. ASSUME NEW w \in Writers, Commit(w) PROVE RowsAtMostCertain'
    BY <1>5, <1>1 DEF Commit, HasRows, Idle
<1>6. ASSUME NEW w \in Writers, Fails(w) PROVE RowsAtMostCertain'
    BY <1>6, <1>1 DEF Fails, HasRows, Idle
<1>7. ASSUME NEW w \in Writers, NEW e \in Entries, WriteRow(w, e) PROVE RowsAtMostCertain'
    BY <1>7, <1>1 DEF WriteRow, HasRows, Shaped
<1>10. ASSUME NEW e \in Entries, Join(e) PROVE RowsAtMostCertain'
    BY <1>10, <1>1 DEF Join, HasRows, Shaped
<1>8. CASE UNCHANGED writer
    BY <1>8, <1>1 DEF HasRows
<1>9. \/ ReadRace \/ UNCHANGED writer
      \/ \E R \in Imports : BeginLoad(R)
      \/ \E w \in Writers : TakeLock(w) \/ Commit(w) \/ Fails(w)
      \/ \E w \in Writers, e \in Entries : WriteRow(w, e)
      \/ \E e \in Entries : Join(e)
    BY DEF Next, vars, StartCycle, PriceMoves, Withdraw, Finish, Tick
<1> QED BY <1>2, <1>3, <1>4, <1>5, <1>6, <1>7, <1>8, <1>9, <1>10

LEMMA CertainNext ==
    ASSUME LockOK, RowsOK, TypeOK, RowsTyped, RowsAtMostCertain, PartsAtMostCertain, [Next]_vars
    PROVE  PartsAtMostCertain'
<1>1. CASE Commit("engine")
  <2> DEFINE rows == writer["engine"].rows
             missed == writer["engine"].missed
             probs == [e \in DOMAIN rows |-> rows[e].prob]
             f == Probabilities(features')
  <2>1. /\ running' = running
        /\ \A e \in Entries : features'[e] = IF e \in DOMAIN rows THEN rows[e] ELSE features[e]
        /\ late'["features"] = TooLate(late["features"], "engine", rows)
        /\ \A S \in SUBSET DOMAIN rows : Certainly(probs, S)
        /\ \A d \in running \ missed, e \in DOMAIN rows : RaceOf[d] = RaceOf[e] => d \in DOMAIN rows
      BY <1>1 DEF Commit, Store, Upserted, RowsAtMostCertain, RowsOK, HasRows, Writers, LockOK
  <2>2. /\ \A d \in running \ late'["features"], e \in DOMAIN rows :
              RaceOf[d] = RaceOf[e] => d \in DOMAIN rows
        /\ \A d \in running \ late'["features"] :
              d \in late["features"] => \E e \in DOMAIN rows : RaceOf[d] = RaceOf[e]
      BY <2>1 DEF TooLate
  <2> HIDE DEF rows, missed
  <2> SUFFICES ASSUME NEW r \in Races, NEW S \in SUBSET (Field(r)' \ late'["features"])
               PROVE  Certainly(f, S)
      BY DEF PartsAtMostCertain
  <2>3. /\ S \subseteq Entries /\ S \subseteq running \ late'["features"]
        /\ \A e \in S : RaceOf[e] = r
      BY <2>1 DEF Field, LockOK
  <2>4. IsFiniteSet(S)
      BY <2>3, ScoringAssumption, FS_Subset
  <2>5. CASE \E x \in DOMAIN rows : RaceOf[x] = r
    <3>1. S \subseteq DOMAIN rows
        BY <2>2, <2>3, <2>5
    <3>2. \A e \in S : f[e] = probs[e]
        BY <2>1, <2>3, <3>1 DEF Probabilities
    <3> HIDE DEF f, probs
    <3>3. SumFunctionOnSet(f, S) = SumFunctionOnSet(probs, S)
        BY <2>4, <3>2, SumOfEqual
    <3> QED BY <2>1, <3>1, <3>3 DEF Certainly
  <2>6. CASE ~(\E x \in DOMAIN rows : RaceOf[x] = r)
    <3>1. S \subseteq Field(r) \ late["features"]
        BY <2>2, <2>3, <2>6 DEF Field
    <3>2. \A e \in S : f[e] = Probabilities(features)[e]
        BY <2>1, <2>3, <2>6 DEF Probabilities
    <3> HIDE DEF f
    <3>3. SumFunctionOnSet(f, S) = SumFunctionOnSet(Probabilities(features), S)
        BY <2>4, <3>2, SumOfEqual
    <3> QED BY <3>1, <3>3 DEF Certainly, PartsAtMostCertain
  <2> QED BY <2>5, <2>6
<1>2. CASE ~Commit("engine")
  <2>1. UNCHANGED features /\ running' \ late'["features"] \subseteq running \ late["features"]
      BY <1>2 DEF Next, Writers, vars, StartCycle, ReadRace, BeginLoad, TakeLock, Commit, Store,
                  Fails, WriteRow, PriceMoves, Withdraw, Join, Finish, Tick, LockOK
  <2>2. \A r \in Races : Field(r)' \ late'["features"] \subseteq Field(r) \ late["features"]
      BY <2>1 DEF Field
  <2> QED BY <2>1, <2>2 DEF PartsAtMostCertain, Probabilities
<1> QED BY <1>1, <1>2

(***************************************************************************)
(* The probabilities of a race's runners are at most one together and half *)
(* a thousandth each: the engine writes whole fields, whoever joined later *)
(* is known, and less than a field adds up to no more.                     *)
(***************************************************************************)
THEOREM FieldsAtMostCertain == Spec => []FieldAtMostCertain
<1> DEFINE Inv == LockOK /\ RowsOK /\ TypeOK /\ RowsTyped /\ RowsAtMostCertain
                  /\ PartsAtMostCertain
<1>1. Init => Inv
    BY LockInit, RowsInit, TypesInit, CertainInit
<1>2. Inv /\ [Next]_vars => Inv'
    BY LockNext, RowsNext, TypesNext, RowsCertainNext, CertainNext
<1>3. Inv => FieldAtMostCertain
    BY DEF PartsAtMostCertain, FieldAtMostCertain, Certainly, Probabilities
<1> QED BY <1>1, <1>2, <1>3, PTL DEF Spec

LEMMA StakesInit == Init => StakesPay
BY DEF Init, StakesPay

LEMMA StakesNext == TypeOK /\ RowsTyped /\ StakesPay /\ [Next]_vars => StakesPay'
<1> SUFFICES ASSUME TypeOK, RowsTyped, StakesPay, [Next]_vars PROVE StakesPay'
    OBVIOUS
<1>1. CASE Commit("engine")
  <2> DEFINE rows == writer["engine"].rows
  <2>1. \A e \in DOMAIN rows : rows[e].prob \in 0..1000 /\ rows[e].price \in Nat
    <3>1. \A e \in DOMAIN rows : RowOK(rows[e])
        BY <1>1 DEF Commit, RowsTyped, HasRows, Writers
    <3> QED BY <3>1, RowsNatural
  <2>2. ledger' = ledger \cup Snapshots(rows)
      BY <1>1 DEF Commit, Store
  <2>3. ASSUME NEW s \in Snapshots(rows)
        PROVE  s.stake \in 0..50 /\ (s.stake > 0 => s.prob * s.price > 1000)
    <3>1. PICK e \in DOMAIN rows : /\ s.stake = CappedKelly(rows[e].prob, rows[e].price)
                                   /\ s.prob = rows[e].prob /\ s.price = rows[e].price
        BY DEF Snapshots
    <3> DEFINE p == rows[e].prob
               o == rows[e].price
               range == 0..1000
               Worth(x, y) == CappedKelly(x, y) \in 0..50 /\ (CappedKelly(x, y) > 0 => x * y > 1000)
    <3>2. p \in range /\ o \in Nat
        BY <2>1
    <3>3. Worth(p, o)
      <4>1. \A x \in range, y \in Nat : Worth(x, y)
          BY StakeIsWorth
      <4> HIDE DEF p, o, range, Worth
      <4> QED BY <3>2, <4>1
    <3>4. s.stake = CappedKelly(p, o) /\ s.prob = p /\ s.price = o
        BY <3>1
    <3> HIDE DEF p, o
    <3> QED BY <3>3, <3>4 DEF Worth
  <2> QED BY <2>2, <2>3 DEF StakesPay
<1>2. CASE ~Commit("engine")
  <2>1. UNCHANGED ledger
      BY <1>2 DEF Next, Writers, vars, StartCycle, ReadRace, BeginLoad, TakeLock, Commit, Store, Fails,
                  WriteRow, PriceMoves, Withdraw, Join, Finish, Tick
  <2> QED BY <2>1 DEF StakesPay
<1> QED BY <1>1, <1>2

(***************************************************************************)
(* Every prediction is on record, and a stake is put only on a price that  *)
(* pays more than the probability asks for, never more than a twentieth.   *)
(***************************************************************************)
THEOREM PredictionsOnRecord == Spec => []PredictionsRecorded
<1>1. Spec => []StakesPay
    BY LockInit, LockNext, TypesInit, TypesNext, StakesInit, StakesNext, PTL DEF Spec
<1>2. OnRecord /\ StakesPay => PredictionsRecorded
    BY DEF PredictionsRecorded
<1> QED BY <1>1, <1>2, FeaturesOnRecord, PTL

=============================================================================
