------------------------------ MODULE Scoring ------------------------------
(***************************************************************************)
(* The scoring service (services/scoring/app) next to the TAB loader, which *)
(* derives horse_scores as well.  The engine reads the inputs of a race,   *)
(* computes the predictions and writes them in one transaction: features   *)
(* and scores are updated, a row goes to the ledger of predictions unless  *)
(* the same was recorded minutes ago.  Both writers take one advisory lock *)
(* before they touch a row; a row that was written stays locked until its  *)
(* transaction ends.  The import changes the fields as well: it takes      *)
(* runners out, puts them back and adds late ones, before its scores.      *)
(*                                                                         *)
(* Probabilities and stakes are in thousandths, prices are whole numbers   *)
(* of the unit; 0 is no price.                                             *)
(***************************************************************************)
EXTENDS Integers, FiniteSets, Sequences, TLC, SequencesExt, FiniteSetsExt

CONSTANTS
    Races,      \* the races, in the order of their ids
    Entries,    \* race_entries
    RaceOf,     \* RaceOf[e]: the race of an entry
    Declared,   \* the entries that run when the first import is over
    Start,      \* Start[r]: scheduled_start_time
    Prices,     \* prices offered
    Opening,    \* Opening[e]: the price the race was imported with, 0 if none
    Rates,      \* Rates[e]: the winning rates known of an entry's barrier and trainer
    Imports,    \* sets of races an import may cover
    Before, Ahead,  \* the engine's window around now: 30 minutes, 48 hours
    Recent,     \* how long a finished race is made up for: 7 days
    CycleLimit, \* races of one cycle: 400
    Window,     \* the ledger's window: 5 minutes
    MaxTime, MaxMoves, MaxFails  \* bounds: clock, changes by imports, failures

ASSUME ScoringAssumption ==
    /\ Races \subseteq Nat /\ IsFiniteSet(Races) /\ IsFiniteSet(Entries)
    /\ Imports \subseteq SUBSET Races /\ Declared \subseteq Entries
    /\ RaceOf \in [Entries -> Races] /\ Start \in [Races -> Nat]
    /\ Prices \subseteq Nat /\ Opening \in [Entries -> Prices \cup {0}]
    /\ Rates \in [Entries -> Seq(Nat)]
    /\ {Before, Ahead, Recent, CycleLimit, Window, MaxTime, MaxMoves, MaxFails} \subseteq Nat

VARIABLES
    clock,
    status,     \* status[r]: "scheduled" or "finished"
    running,    \* entries that are there and not scratched
    price,      \* price[e]: the newest of fixed_odds_ticks and odds_snapshots
    features,   \* features[e]: row of race_analysis_features
    score,      \* score[e]: row of horse_scores
    ledger,     \* race_prediction_snapshots
    late,       \* late[t]: entries that joined a race after its field was read
                \* for the rows that table t now has of it
    writer,     \* writer[w]: the transaction of the engine and of the loader
    queue,      \* races left in the engine's cycle
    lock,       \* holder of the advisory lock
    moves, fails

vars == <<clock, status, running, price, features, score, ledger, late, writer, queue,
          lock, moves, fails>>

Writers == {"engine", "loader"}
NoRow   == [model |-> "none", at |-> 0, price |-> 0, prob |-> 0]
\* missed: the entries that joined since the transaction read its fields.
Idle    == [pc |-> "idle", at |-> 0, rows |-> <<>>, done |-> {}, missed |-> {}]

Field(r) == {e \in running : RaceOf[e] = r}

-----------------------------------------------------------------------------
(* analysis_features.py                                                    *)

Unknown == -1
Certain == 1000000   \* the odds of a probability the logit bounds at 1 - 1e-6
Book    == 24        \* a multiple of every price

\* A quotient rounded to the nearest thousandth.
Nearest(a, b) == (2 * a + b) \div (2 * b)

\* Only prices above 1 are usable.
Implied(offered) == IF offered > 1 THEN Book \div offered ELSE 0

MarketProbabilities(ps) ==
    LET total == SumFunction([e \in DOMAIN ps |-> Implied(ps[e])])
    IN  [e \in DOMAIN ps |->
            IF Implied(ps[e]) = 0 THEN Unknown ELSE Nearest(1000 * Implied(ps[e]), total)]

\* The mean of the rates that are rates, kept away from never and always.
EvidenceProbability == [e \in Entries |->
    LET rates == {i \in DOMAIN Rates[e] : Rates[e][i] <= 1000}
        mean  == SumFunctionOnSet(Rates[e], rates) \div Cardinality(rates)
    IN  IF rates = {} THEN Unknown
        ELSE IF mean < 10 THEN 10 ELSE IF mean > 800 THEN 800 ELSE mean]

Odds(prob) == IF prob = 1000 THEN Certain ELSE (1000 * prob) \div (1000 - prob)

\* The odds of market prior and evidence in the proportion 7 to 3; the
\* arithmetic mean stands for the geometric one of the code.  A runner
\* without a price has prior 1.0, one without evidence has only its prior.
Weight(e, market) ==
    LET prior  == IF market = Unknown THEN 1000 ELSE market
        signal == IF EvidenceProbability[e] = Unknown THEN prior ELSE EvidenceProbability[e]
    IN  (7 * Odds(prior) + 3 * Odds(signal)) \div 10

\* Each runner's odds back to a probability, without the rest of the field.
ProbabilitiesUnnormalised(ps) ==
    LET market == MarketProbabilities(ps)
    IN  [e \in DOMAIN ps |-> Nearest(1000 * Weight(e, market[e]), 1000 + Weight(e, market[e]))]

\* The sum over the runners with a price, as for the market's.
ProbabilitiesOfPriced(ps) ==
    LET market == MarketProbabilities(ps)
        raw    == [e \in DOMAIN ps |-> Weight(e, market[e])]
        priced == SumFunctionOnSet(raw, {e \in DOMAIN ps : market[e] # Unknown})
    IN  [e \in DOMAIN ps |-> Nearest(1000 * raw[e], IF priced = 0 THEN 1 ELSE priced)]

DeterministicProbabilities(ps) ==
    LET market == MarketProbabilities(ps)
        raw    == [e \in DOMAIN ps |-> Weight(e, market[e])]
        total  == IF SumFunction(raw) = 0 THEN 1 ELSE SumFunction(raw)
    IN  [e \in DOMAIN ps |-> Nearest(1000 * raw[e], total)]

\* The probabilities of every field at all its prices, worked out once.
FieldProbabilities ==
    [ps \in UNION {[F -> Prices \cup {0}] : F \in SUBSET Entries} |->
        DeterministicProbabilities(ps)]

CappedKelly(prob, offered) ==
    IF offered <= 1 \/ prob <= 0 \/ prob >= 1000 THEN 0
    ELSE LET full == (prob * offered - 1000) \div (offered - 1)
         IN  IF full <= 0 THEN 0 ELSE IF full \div 4 > 50 THEN 50 ELSE full \div 4

-----------------------------------------------------------------------------

Init ==
    /\ clock = 0
    /\ status = [r \in Races |-> "scheduled"]
    /\ running = Declared
    /\ price = Opening
    /\ features = [e \in Entries |-> NoRow]
    /\ score = [e \in Entries |-> NoRow]
    /\ ledger = {}
    /\ late = [t \in {"score", "features"} |-> {}]
    /\ writer = [w \in Writers |-> Idle]
    /\ queue = <<>>
    /\ lock = "free"
    /\ moves = 0
    /\ fails = 0

-----------------------------------------------------------------------------
(* The engine                                                              *)

\* The races a cycle works on, without the making up for finished ones.
DueRacesScheduled ==
    {r \in Races : status[r] = "scheduled" /\ Start[r] \in (clock - Before)..(clock + Ahead)}

DueRaces ==
    {r \in Races :
       \/ status[r] = "scheduled" /\ Start[r] \in (clock - Before)..(clock + Ahead)
       \/ /\ status[r] = "finished" /\ Start[r] >= clock - Recent
          /\ \E e \in Field(r) : features[e] = NoRow}

Sooner(r, s) == Start[r] < Start[s] \/ (Start[r] = Start[s] /\ r < s)

StartCycle ==
    /\ writer["engine"] = Idle /\ queue = <<>> /\ DueRaces # {}
    /\ LET due == SetToSortSeq(DueRaces, Sooner)
       IN  queue' = SubSeq(due, 1, Min({Len(due), CycleLimit}))
    /\ UNCHANGED <<clock, status, running, price, features, score, ledger, late, writer,
                   lock, moves, fails>>

\* The rows the engine is going to write for the entries it read.
EngineRows(r) ==
    LET prob == FieldProbabilities[Restrict(price, Field(r))]
    IN  [e \in Field(r) |->
            [model |-> "engine", at |-> clock, price |-> price[e], prob |-> prob[e]]]

\* _score_race up to the transaction: inputs are read and calculated_at is
\* taken here.  A race without runners is passed over.
ReadRace ==
    /\ writer["engine"] = Idle /\ queue # <<>>
    /\ queue' = Tail(queue)
    /\ writer' = IF Field(Head(queue)) = {} THEN writer
                 ELSE [writer EXCEPT !["engine"] =
                         [pc |-> "lock", at |-> clock, rows |-> EngineRows(Head(queue)),
                          done |-> {}, missed |-> {}]]
    /\ UNCHANGED <<clock, status, running, price, features, score, ledger, late, lock,
                   moves, fails>>

-----------------------------------------------------------------------------
(* The loader's derived scores                                             *)

\* The transaction of an import of races R begins: now() is fixed.
BeginLoad(R) ==
    /\ writer["loader"] = Idle
    /\ writer' = [writer EXCEPT !["loader"] =
                    [pc |-> "lock", at |-> clock, rows |-> [r \in R |-> 0], done |-> {},
                     missed |-> {}]]
    /\ UNCHANGED <<clock, status, running, price, features, score, ledger, late, queue,
                   lock, moves, fails>>

\* INSERT ... SELECT reads once the lock is there.  Percentages, not
\* fractions: the model's version says which of the two a row holds.
LoaderRows(at, R) ==
    [e \in UNION {Field(r) : r \in R} |->
        [model |-> "loader", at |-> at, price |-> price[e],
         prob |-> IF price[e] = 0 THEN 0 ELSE Nearest(100, price[e])]]

-----------------------------------------------------------------------------
(* Either transaction                                                      *)

TakeNoLock(w) ==
    /\ writer[w].pc = "lock"
    /\ writer' = [writer EXCEPT ![w] =
                    [pc |-> "write", at |-> @.at, done |-> {},
                     rows |-> IF w = "engine" THEN @.rows ELSE LoaderRows(@.at, DOMAIN @.rows),
                     missed |-> IF w = "engine" THEN @.missed ELSE {}]]
    /\ UNCHANGED <<clock, status, running, price, features, score, ledger, late, queue,
                   lock, moves, fails>>

\* pg_advisory_xact_lock
TakeLock(w) ==
    /\ writer[w].pc = "lock" /\ lock = "free"
    /\ lock' = w
    /\ writer' = [writer EXCEPT ![w] =
                    [pc |-> "write", at |-> @.at, done |-> {},
                     rows |-> IF w = "engine" THEN @.rows ELSE LoaderRows(@.at, DOMAIN @.rows),
                     missed |-> IF w = "engine" THEN @.missed ELSE {}]]
    /\ UNCHANGED <<clock, status, running, price, features, score, ledger, late, queue,
                   moves, fails>>

Left(w) == DOMAIN writer[w].rows \ writer[w].done

\* The engine goes by the entries' ids, a statement of the loader as its plan
\* has it.
NextRow(w, e) ==
    /\ writer[w].pc = "write" /\ e \in Left(w)
    /\ w = "engine" => \A x \in Left(w) : e <= x

\* The upsert of one row waits while the other transaction holds it.
WriteRow(w, e) ==
    /\ NextRow(w, e)
    /\ \A v \in Writers \ {w} : e \notin writer[v].done
    /\ writer' = [writer EXCEPT ![w].done = @ \cup {e}]
    /\ UNCHANGED <<clock, status, running, price, features, score, ledger, late, queue,
                   lock, moves, fails>>

\* The snapshot of a prediction is left out when the ledger has the same one
\* from the last minutes, whatever it has in between; probabilities are the
\* same when they are in their thousandths (less than 0.0001 apart in the code).
KnownForever(e, row) ==
    \E s \in ledger : s.entry = e /\ s.price = row.price /\ s.prob = row.prob

Known(e, row) ==
    \E s \in ledger : /\ s.entry = e /\ s.at >= row.at - Window
                      /\ s.price = row.price /\ s.prob = row.prob

Snapshots(rows) ==
    {[entry |-> e, at |-> rows[e].at, price |-> rows[e].price, prob |-> rows[e].prob,
      stake |-> CappedKelly(rows[e].prob, rows[e].price)] :
        e \in {x \in DOMAIN rows : ~Known(x, rows[x])}}

Upserted(table, rows) == [e \in Entries |-> IF e \in DOMAIN rows THEN rows[e] ELSE table[e]]

\* Of the races that rows are of, those that joined too late to be in them.
TooLate(before, w, rows) ==
    LET races == {RaceOf[e] : e \in DOMAIN rows}
    IN  {e \in before : RaceOf[e] \notin races}
        \cup {e \in writer[w].missed \ DOMAIN rows : RaceOf[e] \in races}

\* The rows become visible.
Store(w, rows) ==
    /\ score' = Upserted(score, rows)
    /\ IF w = "engine"
       THEN /\ features' = Upserted(features, rows)
            /\ ledger' = ledger \cup Snapshots(rows)
            /\ late' = [t \in DOMAIN late |-> TooLate(late[t], w, rows)]
       ELSE /\ late' = [late EXCEPT !["score"] = TooLate(@, w, rows)]
            /\ UNCHANGED <<features, ledger>>

\* The rows become visible one by one, as without a transaction.
CommitPart(w) ==
    /\ writer[w].pc = "write" /\ writer[w].done # {}
    /\ Store(w, [e \in writer[w].done |-> writer[w].rows[e]])
    /\ writer' = [writer EXCEPT ![w] = IF Left(w) = {} THEN Idle ELSE @]
    /\ lock' = IF Left(w) = {} THEN "free" ELSE lock
    /\ UNCHANGED <<clock, status, running, price, queue, moves, fails>>

Commit(w) ==
    /\ writer[w].pc = "write" /\ Left(w) = {}
    /\ Store(w, writer[w].rows)
    /\ writer' = [writer EXCEPT ![w] = Idle]
    /\ lock' = "free"
    /\ UNCHANGED <<clock, status, running, price, queue, moves, fails>>

\* An error or a restart rolls the transaction back.  It ends the engine's
\* whole cycle: run logs it and waits for the next one.
Fails(w) ==
    /\ fails < MaxFails
    /\ writer[w].pc # "idle" \/ (w = "engine" /\ queue # <<>>)
    /\ fails' = fails + 1
    /\ writer' = [writer EXCEPT ![w] = Idle]
    /\ lock' = IF lock = w THEN "free" ELSE lock
    /\ queue' = IF w = "engine" THEN <<>> ELSE queue
    /\ UNCHANGED <<clock, status, running, price, features, score, ledger, late, moves>>

-----------------------------------------------------------------------------
(* What the rest of an import does to the inputs                           *)

\* The engine reads prices up to the start, so later ones are left out.
PriceMoves(e, p) ==
    /\ moves < MaxMoves /\ price[e] # p /\ clock <= Start[RaceOf[e]]
    /\ moves' = moves + 1
    /\ price' = [price EXCEPT ![e] = p]
    /\ UNCHANGED <<clock, status, running, features, score, ledger, late, writer, queue, lock,
                   fails>>

\* scratched = EXCLUDED.scratched, which takes a runner out ...
Withdraw(e) ==
    /\ moves < MaxMoves /\ e \in running
    /\ moves' = moves + 1
    /\ running' = running \ {e}
    /\ UNCHANGED <<clock, status, price, features, score, ledger, late, writer, queue, lock,
                   fails>>

\* ... and puts it back; an entry that was not there is inserted.
Join(e) ==
    /\ moves < MaxMoves /\ e \notin running
    /\ moves' = moves + 1
    /\ running' = running \cup {e}
    /\ late' = [t \in DOMAIN late |-> late[t] \cup {e}]
    /\ writer' = [w \in Writers |->
                    IF writer[w].pc = "idle" THEN writer[w]
                    ELSE [writer[w] EXCEPT !.missed = @ \cup {e}]]
    /\ UNCHANGED <<clock, status, price, features, score, ledger, queue, lock, fails>>

Finish(r) ==
    /\ status[r] = "scheduled" /\ clock > Start[r]
    /\ status' = [status EXCEPT ![r] = "finished"]
    /\ UNCHANGED <<clock, running, price, features, score, ledger, late, writer, queue,
                   lock, moves, fails>>

Tick ==
    /\ clock < MaxTime
    /\ clock' = clock + 1
    /\ UNCHANGED <<status, running, price, features, score, ledger, late, writer, queue,
                   lock, moves, fails>>

-----------------------------------------------------------------------------

Transaction(w) == TakeLock(w) \/ (\E e \in Entries : WriteRow(w, e)) \/ Commit(w)

Next ==
    \/ StartCycle \/ ReadRace
    \/ \E R \in Imports : BeginLoad(R)
    \/ \E w \in Writers : TakeLock(w) \/ Commit(w) \/ Fails(w)
    \/ \E w \in Writers, e \in Entries : WriteRow(w, e)
    \/ \E e \in Entries, p \in Prices : PriceMoves(e, p)
    \/ \E e \in Entries : Withdraw(e) \/ Join(e)
    \/ \E r \in Races : Finish(r)
    \/ Tick

\* The engine's loop goes on, transactions end, and the lock is handed out in
\* the order of its queue: the engine gets it although imports come again.
Fairness ==
    /\ SF_vars(StartCycle \/ ReadRace \/ Transaction("engine"))
    /\ WF_vars(Transaction("loader"))

Spec == Init /\ [][Next]_vars /\ Fairness

-----------------------------------------------------------------------------
(***************************************************************************)
(* The variables have their types.                                         *)
(***************************************************************************)
RowOK(row) ==
    /\ row.model \in {"none"} \cup Writers
    /\ row.at \in 0..MaxTime /\ row.price \in Prices \cup {0} /\ row.prob \in 0..1000

TypeOK ==
    /\ clock \in 0..MaxTime /\ moves \in 0..MaxMoves /\ fails \in 0..MaxFails
    /\ status \in [Races -> {"scheduled", "finished"}]
    /\ running \subseteq Entries /\ \A t \in DOMAIN late : late[t] \subseteq Entries
    /\ price \in [Entries -> Prices \cup {0}]
    /\ \A e \in Entries : RowOK(features[e]) /\ RowOK(score[e])
    /\ \A w \in Writers : writer[w].pc \in {"idle", "lock", "write"}
    /\ lock \in {"free"} \cup Writers

(***************************************************************************)
(* "A shared transaction advisory lock serializes both writers"            *)
(* (score_engine.py): the engine never waits for a row of the loader that  *)
(* in turn waits for a row of the engine.                                  *)
(***************************************************************************)
WaitsFor(w, v) == \E e \in writer[v].done : NextRow(w, e)

WritersNeverDeadlock == ~(WaitsFor("engine", "loader") /\ WaitsFor("loader", "engine"))

(***************************************************************************)
(* The runners of a race can be compared: whoever derived last, engine     *)
(* (fractions) or loader (percentages), derived all that were in its field *)
(* then and still are, and all at once.  Only those that joined since the  *)
(* field was read may have an older row, or none.                          *)
(***************************************************************************)
FieldOfOneWriter ==
    \A r \in Races : \A d, e \in Field(r) \ late["score"] :
        score[d].model = score[e].model /\ score[d].at = score[e].at

(***************************************************************************)
(* The engine's probabilities of the runners of a race add up to one, with *)
(* at most half a thousandth per runner from rounding on top, also after   *)
(* withdrawals, late prices and rolled back cycles; a runner that joined   *)
(* since does not count with what it was given in an earlier field.        *)
(***************************************************************************)
FieldAtMostCertain ==
    \A r \in Races :
        LET field == Field(r) \ late["features"]
        IN  2 * SumFunctionOnSet([e \in Entries |-> features[e].prob], field)
              <= 2000 + Cardinality(field)

(***************************************************************************)
(* Every prediction is on record: the ledger has the price and probability *)
(* of the current features of an entry, taken no more than the window      *)
(* before, and stakes only on a price that pays more than the probability  *)
(* asks for.                                                               *)
(***************************************************************************)
OnRecord ==
    \A e \in Entries : features[e] # NoRow =>
        \E s \in ledger :
            /\ s.entry = e /\ s.price = features[e].price /\ s.prob = features[e].prob
            /\ s.at \in (features[e].at - Window)..features[e].at

StakesPay ==
    \A s \in ledger : s.stake \in 0..50 /\ (s.stake > 0 => s.prob * s.price > 1000)

PredictionsRecorded == OnRecord /\ StakesPay

(***************************************************************************)
(* A race that is due, or finished without features, gets its features     *)
(* unless it leaves the engine's window first or a cycle is full of sooner *)
(* races: a cycle that ends in an error is made up for by later ones.      *)
(***************************************************************************)
Lacking(r) == \E e \in Field(r) : features[e] = NoRow

Wanting(r) ==
    /\ status[r] = "finished" => Lacking(r)
    /\ Start[r] <= clock + Ahead
    /\ Start[r] >= clock - (IF status[r] = "finished" THEN Recent ELSE Before)

Unscored(r) ==
    /\ Lacking(r) /\ Wanting(r)
    /\ Cardinality({s \in Races : Wanting(s) /\ Sooner(s, r)}) < CycleLimit

RacesAreScored == \A r \in {RaceOf[e] : e \in Entries} : Unscored(r) ~> ~Unscored(r)

=============================================================================
