------------------------------- MODULE ReadApi -------------------------------
(***************************************************************************)
(* The read API (services/api/app/routers races, tracks and analytics)     *)
(* over the racing tables while the loader writes them.  No handler runs   *)
(* in a transaction: each of its statements sees what has been committed   *)
(* when it runs, and the loader commits after each of its own.             *)
(*                                                                         *)
(* Columns nothing is computed from are left out, prices are numbers, and  *)
(* a rate is compared as the fraction it is rounded from.                  *)
(***************************************************************************)
EXTENDS Integers, Sequences, FiniteSets, FiniteSetsExt, Functions

CONSTANTS
    Races,        \* races that get a row
    Meetings,     \* meetings that get a row
    Entries,      \* entries that get a row
    RaceOf,       \* RaceOf[e]: the race of an entry
    Unverified,   \* entries whose result row is not of quality 'verified'
    Docs,         \* Docs[r]: event documents the loader may get for race r
    Kinds,        \* requests clients make
    Asks,         \* Asks[k]: how often a client makes a request of kind k
    Before,       \* Before[k]: tables a request of kind k may find
    About,        \* About[k]: requests of kind k: for a race, a window of days, a distance band
    Start,        \* when the model starts: the tables hold what was fetched before
    MaxLoads,     \* MaxLoads[k]: bound on the loader's runs around requests of kind k
    MaxSnapshots, \* MAX_ODDS_SNAPSHOTS_PER_ENTRY
    Notable,      \* number of movements an odds analysis lists
    PageSize,     \* limit of a page of races
    Limit         \* limit of a table of the statistics

VARIABLES
    db,       \* the committed rows, see Tables
    load,     \* the loader's run: race, document and next statement
    clock,    \* the fetch time of the last run
    client,   \* the request: its kind and what it asks for
    got,      \* what the statements of the request in progress returned
    asking,   \* a request is in progress
    known,    \* history: the barrier outcomes there were when the request came in
    loaded,   \* history: races whose rows were written since the client's first request
    moved,    \* history: of these, the listed ones that got another day or track
    answers   \* the answers it got

clientVars == <<client, got, asking, known, answers>>
vars == <<db, load, clock, loaded, moved, clientVars>>

NoLoad   == [step |-> "none"]
NoBand   == "any"
NotFound == [found |-> FALSE]

\* NULL in a column of numbers; in a column of strings it is "".
Null == -1
Nullable == Nat \cup {Null}

Zones == {"inside_third", "middle_third", "outside_third"}
NoOutcome == [zone |-> "none"]

MeetingRows == [track : Nat, day : Nat]
RaceRows    == [meeting : Meetings, number : Nat, distance : Nullable,
                class : STRING, surface : STRING]
EntryRows   == [barrier : Nullable, trainer : STRING, jockey : STRING]
OutcomeRows == [zone : Zones, barrier : Nat, field : Nat, position : Nat, track : Nat, day : Nat,
                distance : Nat, class : STRING, surface : STRING,
                going : STRING \cup {"unknown"}]

Tables ==
    [meeting  : [Meetings -> MeetingRows],                             \* meetings
     listed   : SUBSET Races,                                          \* races
     race     : [Races -> RaceRows],
     status   : [Races -> {"scheduled", "finished"}],
     horse    : [Entries -> STRING],                                   \* runners
     entered  : SUBSET Entries,                                        \* race_entries
     entry    : [Entries -> EntryRows],
     scratched: SUBSET Entries,
     position : [Entries -> Nullable],
     result   : [Entries -> Nullable],                                 \* race_results, Null: no row
     going    : [Races -> STRING],                                     \* track_condition_readings
     outcome  : [Entries -> {NoOutcome} \cup OutcomeRows],             \* barrier_outcomes
     snaps    : [Entries -> Seq(Nat \X Nat)],                          \* odds_snapshots
     ticks    : [Entries -> SUBSET (Nat \X Nat)],                      \* fixed_odds_ticks
     moves    : [Entries -> SUBSET [at : Nat, from : Nat, to : Nat]],  \* odds_movements
     counted  : [Entries -> [firm : Nat, drift : Nat, ticks : Nat]],   \* odds_analytics
     cells    : SUBSET [entry : Entries, row : OutcomeRows]]
                         \* the outcomes track_heatmap_cells was rebuilt from

-----------------------------------------------------------------------------
(* Operators of the loader and of the statements                           *)

Runs(r) == {e \in Entries : RaceOf[e] = r}
In(S) == {e \in db.entered : RaceOf[e] \in S}

\* The meeting that tables t have a race in.
Held(t, r) == t.meeting[t.race[r].meeting]
Day(r)   == Held(db, r).day
Track(r) == Held(db, r).track

\* COALESCE(condition_category, 'unknown')
Going(category) == IF category = "" THEN "unknown" ELSE category

Third(n) == (n + 2) \div 3
TwoThirds(n) == (2 * n + 2) \div 3

\* The zone a loaded result gets in barrier_outcomes.
OutcomeZone(barrier, field) ==
    IF barrier <= Third(field) THEN "inside_third"
    ELSE IF barrier <= TwoThirds(field) THEN "middle_third"
    ELSE "outside_third"

\* mutant: divided before it is rounded up
ContextZoneFloored(barrier, field) ==
    IF barrier = Null THEN "none"
    ELSE IF barrier <= Max({1, field \div 3}) THEN "inside_third"
    ELSE IF barrier <= Max({2, 2 * (field \div 3)}) THEN "middle_third"
    ELSE "outside_third"

\* The zone the barrier context of a race shows before it is run.
ContextZone(barrier, field) ==
    IF barrier = Null THEN "none"
    ELSE IF barrier <= Max({1, Third(field)}) THEN "inside_third"
    ELSE IF barrier <= Max({2, TwoThirds(field)}) THEN "middle_third"
    ELSE "outside_third"

\* The movements between ticks that follow one another.
MovesIn(ticks) ==
    {[at |-> p[2][1], from |-> p[1][2], to |-> p[2][2]] :
        p \in {q \in ticks \X ticks :
                  /\ q[1][1] < q[2][1]
                  /\ q[1][2] # q[2][2]
                  /\ ~\E u \in ticks : q[1][1] < u[1] /\ u[1] < q[2][1]}}

Firming(ms) == {m \in ms : m.to < m.from}
Size(m) == IF m.to < m.from THEN m.from - m.to ELSE m.to - m.from

\* ORDER BY ABS(movement_pct) DESC, detected_at DESC
Bigger(m, n) ==
    \/ Size(m) * n.from > Size(n) * m.from
    \/ Size(m) * n.from = Size(n) * m.from /\ m.at > n.at

\* What ORDER BY and LIMIT n may leave of S: rows that tie come in any order.
Tops(S, n, Above(_, _)) ==
    {K \in SUBSET S : /\ Cardinality(K) = Min({n, Cardinality(S)})
                      /\ \A x \in S \ K, y \in K : ~Above(x, y)}

\* ORDER BY meeting_date DESC, track_name without race_number
ListedBeforeNoNumber(q, r) ==
    \/ Day(q) > Day(r)
    \/ Day(q) = Day(r) /\ Track(q) < Track(r)

ListedBefore(q, r) ==
    \/ Day(q) > Day(r)
    \/ Day(q) = Day(r) /\ Track(q) < Track(r)
    \/ Day(q) = Day(r) /\ Track(q) = Track(r) /\ db.race[q].number < db.race[r].number

\* Orders the rows of a page may be cut from.
Orders(S) == {s \in [1 .. Cardinality(S) -> S] :
                 /\ \A i, j \in DOMAIN s : i # j => s[i] # s[j]
                 /\ \A i, j \in DOMAIN s : i < j => ~ListedBefore(s[j], s[i])}

\* round() of Python: to the nearest integer, a half to the even one.
Round(a, b) ==
    LET q == a \div b
        r == 2 * (a % b)
    IN  IF r < b \/ (r = b /\ q % 2 = 0) THEN q ELSE q + 1

\* mutant: the step is taken over all items, not over the gaps between them
SampleIndexByCount(n, limit) ==
    [i \in 1 .. limit |-> 1 + (Round((i - 1) * n, limit) % n)]

\* The items _sample_time_series keeps of n > limit.
SampleIndex(n, limit) ==
    LET index[i \in 0 .. limit - 1] ==
            LET near == Round(i * (n - 1), limit - 1)
                next == IF i > 0 /\ near <= index[i - 1] THEN index[i - 1] + 1 ELSE near
            IN  Min({next, n - 1})
    IN  [i \in 1 .. limit |-> 1 + index[i - 1]]

SampleTimeSeries(items, limit) ==
    CASE Len(items) <= limit -> items
      [] Len(items) > limit /\ limit <= 2 ->
            SubSeq(<<items[1], items[Len(items)]>>, 1, limit)
      [] OTHER -> [i \in 1 .. limit |-> items[SampleIndex(Len(items), limit)[i]]]

-----------------------------------------------------------------------------
(* The loader, statement by statement                                      *)

\* A row of barrier_outcomes as the loader writes them.
Zoned(o) == o = NoOutcome \/ o.zone = OutcomeZone(o.barrier, o.field)

\* The market of an entry as the loader leaves it: prices in the order they
\* were fetched, movements that moved, and no more of them counted than there
\* are.
Marketed(t, e, now) ==
    /\ \A i, j \in DOMAIN t.snaps[e] : i < j => t.snaps[e][i][1] < t.snaps[e][j][1]
    /\ \A i \in DOMAIN t.snaps[e] : t.snaps[e][i][1] <= now
    /\ IsFiniteSet(t.ticks[e]) /\ IsFiniteSet(t.moves[e])
    /\ \A m \in t.moves[e] : m.from # m.to
    /\ t.counted[e].firm <= Cardinality(Firming(t.moves[e]))
    /\ t.counted[e].drift <= Cardinality(t.moves[e] \ Firming(t.moves[e]))

\* Documents are of the runners of their race.  With one that lacks what a
\* table insists on, such as the number of the race, the statement fails.
Document(r, d) ==
    /\ d.meeting \in MeetingRows /\ d.race \in RaceRows /\ d.going \in STRING
    /\ d.status \in {"scheduled", "finished"}
    /\ d.horse \in [Runs(r) -> STRING] /\ d.entry \in [Runs(r) -> EntryRows]
    /\ d.scratched \subseteq Runs(r)
    /\ d.place \in [Runs(r) -> Nullable] /\ d.price \in [Runs(r) -> Nat]
    /\ \A e \in Runs(r) : d.flucs[e] \subseteq Nat \X Nat /\ IsFiniteSet(d.flucs[e])

\* The tables there are when the model starts are the loader's work.
ASSUME ReadAssumption ==
    /\ IsFiniteSet(Races) /\ IsFiniteSet(Entries)
    /\ {Start, Notable, PageSize, Limit} \subseteq Nat /\ MaxSnapshots \in Nat \ {0, 1}
    /\ \A k \in Kinds : /\ Asks[k] \in Nat /\ MaxLoads[k] \in Nat
                        /\ \A request \in About[k] : request.kind = k
    /\ RaceOf \in [Entries -> Races]
    /\ \A r \in Races : \A d \in Docs[r] : Document(r, d)
    /\ \A k \in Kinds : \A t \in Before[k] :
          t \in Tables /\ \A e \in Entries : Zoned(t.outcome[e]) /\ Marketed(t, e, Start)

Steps == <<"meetings", "races", "runners", "entries", "results", "repair", "conditions",
           "outcomes", "snapshots", "ticks", "movements", "analytics">>

StartLoad ==
    /\ load = NoLoad /\ clock < Start + MaxLoads[client.kind]
    /\ \E r \in Races : \E d \in Docs[r] : load' = [step |-> 1, race |-> r, doc |-> d]
    /\ clock' = clock + 1
    /\ UNCHANGED <<db, loaded, moved, clientVars>>

Moved(rows) == {r \in Races : Held(rows, r) # Held(db, r)}

Commit(step, rows) ==
    /\ load # NoLoad /\ Steps[load.step] = step
    /\ db' = rows
    /\ load' = IF load.step = Len(Steps) THEN NoLoad ELSE [load EXCEPT !.step = @ + 1]
    /\ loaded' = loaded \cup {load.race} \cup Moved(rows)
    /\ moved' = moved \cup (db.listed \cap Moved(rows))
    /\ UNCHANGED <<clock, clientVars>>

OfRun(old, new) == [e \in Entries |-> IF RaceOf[e] = load.race THEN new[e] ELSE old[e]]

\* A meeting is one row for all its races.
LoadMeetings ==
    Commit("meetings", [db EXCEPT !.meeting[load.doc.race.meeting] = load.doc.meeting])

LoadRaces ==
    Commit("races", [db EXCEPT !.listed = @ \cup {load.race},
                               !.race[load.race] = load.doc.race,
                               !.status[load.race] = IF @ = "finished" THEN @ ELSE load.doc.status])

LoadRunners ==
    Commit("runners", [db EXCEPT !.horse =
        OfRun(@, [e \in Runs(load.race) |->
                     IF load.doc.horse[e] # "" THEN load.doc.horse[e] ELSE db.horse[e]])])

LoadEntries ==
    Commit("entries", [db EXCEPT !.entered   = @ \cup Runs(load.race),
                                 !.entry     = OfRun(@, load.doc.entry),
                                 !.scratched = (@ \ Runs(load.race)) \cup load.doc.scratched,
                                 !.position  = OfRun(@, load.doc.place)])

LoadResults ==
    Commit("results", [db EXCEPT !.result =
        OfRun(@, [e \in Runs(load.race) |->
                     IF load.doc.place[e] # Null THEN load.doc.place[e] ELSE db.result[e]])])

\* Result rows are authoritative for the positions of entries.
RepairEntries ==
    Commit("repair", [db EXCEPT !.position =
        OfRun(@, [e \in Runs(load.race) |->
                     IF db.result[e] > 0 THEN db.result[e] ELSE db.position[e]])])

\* The reading of this fetch is the newest.
LoadConditions ==
    Commit("conditions", [db EXCEPT !.going[load.race] =
        IF load.doc.going # "" THEN load.doc.going ELSE @])

\* mutant: runners without a barrier are not left out
EligibleUndrawn == {e \in In({load.race}) : /\ e \notin db.scratched
                                            /\ db.position[e] # Null
                                            /\ db.race[load.race].distance # Null}

Eligible == {e \in In({load.race}) : /\ e \notin db.scratched
                                     /\ db.entry[e].barrier # Null /\ db.position[e] # Null
                                     /\ db.race[load.race].distance # Null}

OutcomeRow(e) ==
    LET race == db.race[RaceOf[e]]
        n    == Cardinality(Eligible)
    IN  [zone     |-> OutcomeZone(db.entry[e].barrier, n),
         barrier  |-> db.entry[e].barrier,
         field    |-> n,
         position |-> db.position[e],
         track    |-> Track(RaceOf[e]), day |-> Day(RaceOf[e]),
         distance |-> race.distance, class |-> race.class, surface |-> race.surface,
         going    |-> db.going[RaceOf[e]]]

LoadOutcomes ==
    Commit("outcomes", [db EXCEPT !.outcome =
        [e \in Entries |-> IF e \in Eligible THEN OutcomeRow(e) ELSE @[e]]])

LoadSnapshots ==
    Commit("snapshots", [db EXCEPT !.snaps =
        OfRun(@, [e \in Runs(load.race) |->
                     IF load.doc.price[e] > 0 THEN Append(db.snaps[e], <<clock, load.doc.price[e]>>)
                                              ELSE db.snaps[e]])])

\* The price of the fetch, and the earlier ones TAB gives its time for.
LoadTicks ==
    Commit("ticks", [db EXCEPT !.ticks =
        OfRun(@, [e \in Runs(load.race) |->
                     db.ticks[e] \cup {t \in {<<clock, load.doc.price[e]>>} \cup load.doc.flucs[e] :
                                          t[2] > 0}])])

\* Movements are added, and stay when a late tick comes between their ticks.
LoadMovements ==
    Commit("movements", [db EXCEPT !.moves =
        OfRun(@, [e \in Runs(load.race) |-> db.moves[e] \cup MovesIn(db.ticks[e])])])

LoadAnalytics ==
    Commit("analytics", [db EXCEPT !.counted =
        OfRun(@, [e \in Runs(load.race) |->
                     IF db.ticks[e] = {} THEN db.counted[e]
                     ELSE [firm  |-> Cardinality(Firming(db.moves[e])),
                           drift |-> Cardinality(db.moves[e] \ Firming(db.moves[e])),
                           ticks |-> Cardinality(db.ticks[e])]])])

\* A statement fails: what was committed stays.
LoadFails ==
    /\ load # NoLoad
    /\ load' = NoLoad
    /\ UNCHANGED <<db, clock, loaded, moved, clientVars>>

Outcomes == {[entry |-> e, row |-> db.outcome[e]] : e \in {x \in Entries : db.outcome[x] # NoOutcome}}

\* rebuild_derived_intelligence.sql, in one transaction.
RebuildCells ==
    /\ db' = [db EXCEPT !.cells = {[o EXCEPT !.row.going = Going(@)] :
                                      o \in {x \in Outcomes : x.row.position > 0}}]
    /\ db' # db
    /\ UNCHANGED <<load, clock, loaded, moved, clientVars>>

Load == \/ StartLoad \/ LoadFails \/ RebuildCells
        \/ LoadMeetings \/ LoadRaces \/ LoadRunners \/ LoadEntries
        \/ LoadResults \/ RepairEntries \/ LoadConditions \/ LoadOutcomes
        \/ LoadSnapshots \/ LoadTicks \/ LoadMovements \/ LoadAnalytics

-----------------------------------------------------------------------------
(* Requests                                                                *)

Ask ==
    /\ ~asking /\ Len(answers) < Asks[client.kind]
    /\ asking' = TRUE
    /\ known' = Outcomes
    /\ loaded' = IF answers = <<>> THEN {} ELSE loaded
    /\ moved' = IF answers = <<>> THEN {} ELSE moved
    /\ UNCHANGED <<db, load, clock, client, got, answers>>

Serving(kind) == asking /\ client.kind = kind
After(n) == Len(got) = n

\* The statement number n of a handler.
Read(n, rows) ==
    /\ After(n - 1)
    /\ got' = Append(got, rows)
    /\ UNCHANGED <<db, load, clock, loaded, moved, client, asking, known, answers>>

\* It may find any of these.
ReadAny(n, results) == After(n - 1) /\ \E rows \in results : Read(n, rows)

Reply(n, answer) ==
    /\ After(n)
    /\ answers' = Append(answers, answer)
    /\ got' = <<>>
    /\ asking' = FALSE
    /\ UNCHANGED <<db, load, clock, loaded, moved, client, known>>

\* Handlers of one race read its row first, and answer 404 without it.
RaceRow == {[status |-> db.status[r]] : r \in {client.race} \cap db.listed}
Missing == After(1) /\ got[1] = {} /\ Reply(1, NotFound)
ReadNext(n, rows) == After(n - 1) /\ got[1] # {} /\ Read(n, rows)

Field == In({client.race})

GetRace ==
    /\ Serving("race")
    /\ \/ Read(1, RaceRow)
       \/ Missing
       \/ ReadNext(2, {[entry     |-> e,
                        scratched |-> e \in db.scratched,
                        position  |-> db.position[e]] : e \in Field})
       \/ Reply(2, [found |-> TRUE, race |-> got[1], entries |-> got[2]])

\* Snapshots by entry, also an entry without any, thinned when there are many.
OddsEntries(rows) == {[row EXCEPT !.snapshots = SampleTimeSeries(@, MaxSnapshots)] : row \in rows}

\* /odds and /odds-drift, which can be asked for one entry.
GetRaceOdds ==
    /\ Serving("odds")
    /\ \/ Read(1, RaceRow)
       \/ Missing
       \/ \E wanted \in {Field} \cup {{e} : e \in Field} :
             ReadNext(2, {[entry |-> e, snapshots |-> db.snaps[e]] : e \in wanted})
       \/ Reply(2, [found |-> TRUE, entries |-> OddsEntries(got[2])])

AnalyticsRows ==
    {[entry   |-> e,
      firm    |-> db.counted[e].firm,
      drift   |-> db.counted[e].drift,
      biggest |-> {m \in db.moves[e] : \A n \in db.moves[e] : ~Bigger(n, m)}] :
        e \in {x \in Field : db.counted[x].ticks > 0}}

MoveRows == UNION {{[entry |-> e, move |-> m] : m \in db.moves[e]} : e \in Field}
BiggerRow(x, y) == Bigger(x.move, y.move)

\* mutant: the movements are read before the analytics
GetOddsAnalysisMovesFirst ==
    /\ Serving("analysis")
    /\ \/ Read(1, RaceRow)
       \/ Missing
       \/ After(1) /\ got[1] # {} /\ ReadAny(2, Tops(MoveRows, Notable, BiggerRow))
       \/ ReadNext(3, AnalyticsRows)
       \/ Reply(3, [found |-> TRUE, entries |-> got[3], notable |-> got[2]])

GetOddsAnalysis ==
    /\ Serving("analysis")
    /\ \/ Read(1, RaceRow)
       \/ Missing
       \/ ReadNext(2, AnalyticsRows)
       \/ ReadAny(3, Tops(MoveRows, Notable, BiggerRow))
       \/ Reply(3, [found |-> TRUE, entries |-> got[2], notable |-> got[3]])

\* No code writes barrier_statistics: the third statement finds no row.
GetBarrierContext ==
    /\ Serving("context")
    /\ \/ Read(1, RaceRow)
       \/ Missing
       \/ ReadNext(2,
                   {[entry   |-> e,
                     barrier |-> db.entry[e].barrier,
                     field   |-> Cardinality(Field),
                     zone    |-> ContextZone(db.entry[e].barrier, Cardinality(Field))] :
                        e \in Field})
       \/ ReadNext(3, {})
       \/ Reply(3, [found |-> TRUE, entries |-> got[2]])

-----------------------------------------------------------------------------
(* Records of a runner at the track, the distance and the going of a race  *)

\* mutant: the race itself is not left out
PastStartsAll(e) ==
    {h \in db.entered : /\ db.horse[h] = db.horse[e] /\ db.horse[h] # ""
                        /\ h \notin db.scratched
                        /\ db.result[h] # Null /\ h \notin Unverified}

PastStarts(e) ==
    {h \in db.entered : /\ db.horse[h] = db.horse[e] /\ db.horse[h] # ""
                        /\ RaceOf[h] # RaceOf[e]
                        /\ h \notin db.scratched
                        /\ db.result[h] # Null /\ h \notin Unverified}

Record(S) == [starts |-> Cardinality(S),
              wins   |-> Cardinality({h \in S : db.result[h] = 1}),
              places |-> Cardinality({h \in S : db.result[h] \in {2, 3}})]

\* What races are compared by.
Conditions(r) ==
    [track |-> Track(r), distance |-> db.race[r].distance, going |-> Going(db.going[r])]

\* The horse and the conditions are what it was computed for, not in the answer.
FitRow(e) ==
    LET Like(c) == {h \in PastStarts(e) : Conditions(RaceOf[h])[c] = Conditions(client.race)[c]}
    IN  [entry    |-> e,
         horse    |-> db.horse[e],
         for      |-> Conditions(client.race),
         track    |-> Record(Like("track")),
         distance |-> Record({h \in Like("distance") : db.race[client.race].distance # Null}),
         going    |-> Record(Like("going"))]

GetRunnerFit ==
    /\ Serving("fit")
    /\ \/ Read(1, RaceRow)
       \/ Missing
       \/ ReadNext(2, {FitRow(e) : e \in Field \ db.scratched})
       \/ Reply(2, [found |-> TRUE, rows |-> got[2]])

-----------------------------------------------------------------------------
(* Lists and statistics                                                    *)

Wanted == {r \in db.listed : Day(r) \in client.days}

Page(order, offset) == SubSeq(order, offset + 1, Min({Len(order), offset + PageSize}))

\* One page after the other.  COUNT(*) OVER() is lost with the last row.
ListRaces ==
    /\ Serving("list")
    /\ \/ ReadAny(1, {Page(order, PageSize * Len(answers)) : order \in Orders(Wanted)})
       \/ Reply(1, [races |-> got[1]])

\* COALESCE(win_sp, win_price) of the last snapshot, 0 if there is none.
ClosingPrice(e) == IF db.snaps[e] = <<>> THEN 0 ELSE db.snaps[e][Len(db.snaps[e])][2]

\* The rows of the people statements.  No position, no row.
PersonRows(role, split) ==
    {[entry    |-> e,
      person   |-> db.entry[e][role],
      split    |-> IF split = "track" THEN Track(RaceOf[e])
                   ELSE IF split = "barrier" THEN db.entry[e].barrier ELSE 0,
      position |-> db.position[e],
      price    |-> ClosingPrice(e)] :
        e \in {x \in In(Wanted) : /\ db.entry[x][role] # "" /\ x \notin db.scratched
                                  /\ db.position[x] # Null}}

Profit(row) == IF row.position = 1 THEN row.price - 1 ELSE -1

PersonItem(rows, key) ==
    LET mine   == {row \in rows : row.person = key[1] /\ row.split = key[2]}
        priced == {row \in mine : row.price > 0}
    IN  [person  |-> key[1],
         split   |-> key[2],
         runners |-> Cardinality(mine),
         wins    |-> Cardinality({row \in mine : row.position = 1}),
         places  |-> Cardinality({row \in mine : row.position <= 3}),
         priced  |-> Cardinality(priced),
         profit  |-> SumFunctionOnSet([row \in mine |-> Profit(row)], priced)]

\* mutant: one item for a person, of one of the splits
PersonMetricsOneSplit(rows, min) ==
    {item \in {PersonItem(rows, <<person, Min({row.split : row \in {x \in rows : x.person = person}})>>) :
                  person \in {row.person : row \in rows}} :
        item.runners >= min}

PersonMetrics(rows, min) ==
    {item \in {PersonItem(rows, <<row.person, row.split>>) : row \in rows} : item.runners >= min}

\* What compute_person_metrics sorts by, as a fraction; no ROI is above any.
Value(item, order) ==
    CASE order = "win_rate" -> <<item.wins, item.runners>>
      [] order = "roi"      -> <<item.profit, item.priced>>
      [] OTHER              -> <<item[order], 1>>

Outranks(x, y, order) ==
    LET a == Value(x, order)
        b == Value(y, order)
    IN  \/ a[2] = 0 /\ b[2] # 0
        \/ a[2] # 0 /\ b[2] # 0 /\ a[1] * b[2] > b[1] * a[2]
        \/ /\ (a[2] = 0) = (b[2] = 0) /\ a[1] * b[2] = b[1] * a[2]
           /\ \/ x.runners > y.runners
              \/ x.runners = y.runners /\ x.wins > y.wins

Table(rows, min, order) ==
    LET Above(x, y) == Outranks(x, y, order)
    IN  Tops(PersonMetrics(rows, min), Limit, Above)

\* /trainer-win-rates and /jockey-win-rates, then the same split in groups.
GetPeopleRates ==
    /\ Serving("people")
    /\ \/ ReadAny(1, {PersonRows(client.role, split) :
                          split \in IF answers = <<>> THEN {"none"} ELSE {"track", "barrier"}})
       \/ /\ After(1)
          /\ \E items \in Table(got[1], 1, client.order) :
                Reply(1, [rows |-> Cardinality(got[1]), items |-> items])

\* The counts of the window, or of a group of its races.
Activity(g, S) == [group |-> g, races |-> Cardinality(S), runners |-> Cardinality(In(S))]
Busier(x, y) == \/ x.runners > y.runners
                \/ x.runners = y.runners /\ x.races > y.races

\* What they are grouped by.
Group(r, column) == IF column = "class" THEN db.race[r].class ELSE Held(db, r)[column]

\* mutant: JOIN race_entries instead of LEFT JOIN
GroupedInner(column) ==
    {Activity(g, {r \in Wanted : Group(r, column) = g /\ In({r}) # {}}) :
        g \in {Group(r, column) : r \in {x \in Wanted : In({x}) # {}}}}

Grouped(column) ==
    {Activity(g, {r \in Wanted : Group(r, column) = g}) : g \in {Group(r, column) : r \in Wanted}}

\* The last price of every entry, and the favourite of every race with one:
\* the code does not ask whether it was scratched, or whether the race is over.
Priced == {e \in In(Wanted) : ClosingPrice(e) > 0}
Shortest(r) == {e \in Priced : /\ RaceOf[e] = r
                               /\ \A f \in Priced : RaceOf[f] = r =>
                                     ClosingPrice(e) <= ClosingPrice(f)}
Favourites == {F \in SUBSET UNION {Shortest(r) : r \in Wanted} :
                  \A r \in Wanted : Shortest(r) # {} => Cardinality(F \cap Shortest(r)) = 1}

GetRacingPulse ==
    /\ Serving("pulse")
    /\ \/ Read(1, Activity("all", Wanted))
       \/ Read(2, Grouped("day"))
       \/ ReadAny(3, Tops(Grouped("track"), Limit, Busier))
       \/ ReadAny(4, Tops(Grouped("class"), Limit, Busier))
       \/ ReadAny(5, {[priced |-> Cardinality(Priced),
                       races  |-> Cardinality(F),
                       wins   |-> Cardinality({e \in F : db.position[e] = 1})] : F \in Favourites})
       \/ ReadAny(6, Table(PersonRows("jockey", "none"), 3, "wins"))
       \/ ReadAny(7, Table(PersonRows("trainer", "none"), 3, "wins"))
       \/ Reply(7, [totals |-> got[1], coverage |-> got[2], tracks |-> got[3],
                    classes |-> got[4], market |-> got[5],
                    jockeys |-> got[6], trainers |-> got[7]])

Band(distance) ==
    IF distance <= 1200 THEN "sprint"
    ELSE IF distance <= 1600 THEN "mile"
    ELSE "staying"

\* The filters of a request: for each column it asks for, the values it takes.
Matches(o) == \A column \in DOMAIN client.where : o.row[column] \in client.where[column]

Sample == {o \in Outcomes : Matches(o)}

\* mutant: the size of the sample is read without the filters of the rows
SampleRacesUnfiltered == {RaceOf[o.entry] : o \in Outcomes}

SampleRaces == {RaceOf[o.entry] : o \in Sample}

BarrierRows ==
    {[barrier |-> b,
      total   |-> Cardinality({o \in Sample : o.row.barrier = b}),
      wins    |-> Cardinality({o \in Sample : o.row.barrier = b /\ o.row.position = 1})] :
        b \in {o.row.barrier : o \in Sample}}

GetBarrierAnalysis ==
    /\ Serving("barriers")
    /\ \/ Read(1, BarrierRows)
       \/ Read(2, SampleRaces)
       \/ Reply(2, [rows |-> got[1], races |-> Cardinality(got[2])])

\* mutant: clients' "middle" is looked up as it is
StoredBandAsIs(band) == band

StoredBand(band) == IF band = "middle" THEN "mile" ELSE band

Banded(S) == {o \in S : /\ Matches(o)
                        /\ client.band = NoBand \/ Band(o.row.distance) = StoredBand(client.band)}

ZonesAndBands(S) == {<<o.row.zone, Band(o.row.distance)>> : o \in S}

\* Runners, wins and places of each zone and band.
Cells(S) ==
    {LET C == {o \in S : o.row.zone = c[1] /\ Band(o.row.distance) = c[2]}
     IN  [zone |-> c[1], band |-> c[2], runners |-> Cardinality(C),
          wins   |-> Cardinality({o \in C : o.row.position = 1}),
          places |-> Cardinality({o \in C : o.row.position <= 3})] :
        c \in ZonesAndBands(S)}

\* Stored cells are shares of their band's wins and places: a band without
\* either has no share, which the response model does not take (500).
NoShare(cells) ==
    \E c \in cells : LET band == {d \in cells : d.band = c.band}
                     IN  (\A d \in band : d.wins = 0) \/ (\A d \in band : d.places = 0)

GetHeatmap ==
    /\ Serving("heatmap")
    /\ \/ Read(1, Cells(Banded(db.cells)))
       \/ After(1) /\ got[1] = {} /\ Read(2, Cells(Banded(Outcomes)))
       \/ /\ After(1) /\ got[1] # {}
          /\ Reply(1, [error |-> NoShare(got[1]), cells |-> got[1]])
       \/ Reply(2, [error |-> FALSE, cells |-> got[2]])

-----------------------------------------------------------------------------
Init ==
    /\ \E k \in Kinds : client \in About[k] /\ db \in Before[k]
    /\ load = NoLoad /\ clock = Start
    /\ got = <<>> /\ asking = FALSE /\ known = {} /\ loaded = {} /\ moved = {} /\ answers = <<>>

Serve == \/ GetRace \/ GetRaceOdds \/ GetOddsAnalysis \/ GetBarrierContext \/ GetRunnerFit
         \/ ListRaces \/ GetPeopleRates \/ GetRacingPulse \/ GetBarrierAnalysis \/ GetHeatmap

Next == Load \/ Ask \/ Serve

Spec == Init /\ [][Next]_vars

-----------------------------------------------------------------------------
TypeOK ==
    /\ db \in Tables
    /\ asking \in BOOLEAN
    /\ clock \in Start .. Start + MaxLoads[client.kind]
    /\ loaded \subseteq Races /\ moved \subseteq loaded
    /\ load # NoLoad => load.step \in DOMAIN Steps /\ load.race \in Races
    /\ Len(answers) <= Asks[client.kind]

Answered(kind) == client.kind = kind /\ answers # <<>>
Found(kind) == Answered(kind) /\ answers[Len(answers)].found
Answer == answers[Len(answers)]

(***************************************************************************)
(* An odds analysis counts no movement it cannot show: of an entry it says *)
(* firmed or drifted so many times, as many movements are among those it   *)
(* lists, and the biggest one is, unless bigger ones fill the list.  Two   *)
(* statements of the handler and two of the loader have to be in the right *)
(* order for this.                                                         *)
(***************************************************************************)
AnalysisIsBacked ==
    Found("analysis") =>
        \A row \in Answer.entries :
            LET shown == {n.move : n \in {x \in Answer.notable : x.entry = row.entry}}
            IN  /\ Cardinality(Answer.notable) < Notable =>
                      /\ row.firm <= Cardinality({m \in shown : m.to < m.from})
                      /\ row.drift <= Cardinality({m \in shown : m.to > m.from})
                /\ \A m \in row.biggest :
                      m \in shown \/ \A n \in Answer.notable : ~Bigger(m, n.move)

(***************************************************************************)
(* The zone a runner is shown in before the race is the zone its result is *)
(* counted in afterwards, when it has kept its barrier and the field is of *)
(* the same size and not one.  Which of the entries a field counts differs *)
(* in the two, and so does the formula of the zone.                        *)
(***************************************************************************)
ZonesAgree ==
    Found("context") =>
        \A row \in Answer.entries :
            LET outcome == db.outcome[row.entry]
            IN  outcome # NoOutcome /\ outcome.barrier = row.barrier
                    /\ outcome.field = row.field /\ row.field >= 2
                => outcome.zone = row.zone

(***************************************************************************)
(* The records of the runners of a race do not count the race itself:      *)
(* while no other race is loaded, a record changes only with the horse, or *)
(* with the track, distance or going it is of, all of which loading the    *)
(* race may correct; its results, and corrections of them, change none.    *)
(***************************************************************************)
FitLooksBack ==
    /\ client.kind = "fit" /\ Len(answers) = 2
    /\ answers[1].found /\ answers[2].found
    /\ loaded \subseteq {client.race}
    => \A x \in answers[1].rows, y \in answers[2].rows :
          x.entry = y.entry /\ x.horse = y.horse =>
              \A c \in {"track", "distance", "going"} : x.for[c] = y.for[c] => x[c] = y[c]

(***************************************************************************)
(* The pages of a list of races that nobody changes show every race, when  *)
(* there are enough of them; races that tie in the order, as no key of the *)
(* tables rules out, may take the place of one another on pages that are   *)
(* cut apart, but a place each they have.                                  *)
(***************************************************************************)
Tie(q, r) == /\ Held(db, q) = Held(db, r) /\ db.race[q].number = db.race[r].number

PagesCover ==
    /\ client.kind = "list" /\ PageSize * Len(answers) >= Cardinality(Wanted)
    /\ loaded = {}
    => \A r \in Wanted :
          Cardinality({at \in (1 .. Len(answers)) \X (1 .. PageSize) :
                          /\ at[2] <= Len(answers[at[1]].races)
                          /\ Tie(answers[at[1]].races[at[2]], r)})
            = Cardinality({q \in Wanted : Tie(q, r)})

(***************************************************************************)
(* A series of prices that is too long is thinned to the limit, in order,  *)
(* without losing its first or its last price.                             *)
(***************************************************************************)
SeriesSpans ==
    Found("odds") =>
        \A row \in Answer.entries :
            LET s == row.snapshots
                all == db.snaps[row.entry]
            IN  /\ \A i \in 1 .. Len(s) - 1 : s[i][1] < s[i + 1][1]
                /\ s # <<>> => s[1] = all[1]
                /\ loaded = {} =>
                      /\ Len(s) = Min({Len(all), MaxSnapshots})
                      /\ s # <<>> => s[Len(s)] = all[Len(all)]

(***************************************************************************)
(* A table of people split by track or by barrier accounts for the same    *)
(* runners, wins and places as the table without the split, and that one   *)
(* for every row, when neither is cut off and nothing is loaded between.   *)
(***************************************************************************)
Total(items, column) == SumFunction([item \in items |-> item[column]])

SplitsAddUp ==
    /\ client.kind = "people" /\ Len(answers) = 2 /\ loaded = {}
    /\ \A i \in 1 .. 2 : Cardinality(answers[i].items) < Limit
    => /\ Total(answers[1].items, "runners") = answers[1].rows
       /\ \A whole \in answers[1].items :
             LET parts == {item \in answers[2].items : item.person = whole.person}
             IN  \A column \in {"runners", "wins", "places", "priced", "profit"} :
                    Total(parts, column) = whole[column]

(***************************************************************************)
(* The tables of the racing pulse add up: each is of a later statement and *)
(* accounts for at least what the ones before do, but for races an import  *)
(* has moved to another meeting or day; for the same if nothing is loaded  *)
(* meanwhile; no more favourites win than there are races.                 *)
(***************************************************************************)
PulseAddsUp ==
    Answered("pulse") =>
        LET tables == {t \in {"coverage", "tracks", "classes"} : Cardinality(Answer[t]) < Limit}
        IN  /\ \A t \in tables :
                  /\ Answer.totals.races <= Total(Answer[t], "races") + Cardinality(moved)
                  /\ Answer.totals.runners <= Total(Answer[t], "runners")
                                                + Cardinality({e \in Entries : RaceOf[e] \in moved})
                  /\ loaded = {} => \A column \in {"races", "runners"} :
                                      Answer.totals[column] = Total(Answer[t], column)
            /\ Answer.market.wins <= Answer.market.races
            /\ loaded = {} => Answer.market.races <= Answer.totals.races

(***************************************************************************)
(* Both statements of a barrier analysis speak of the sample there was     *)
(* when it was asked for, but for races loaded meanwhile: rows count every *)
(* runner of the others that its filters take, at the barrier it had, and  *)
(* the size of the sample is the number of races they are of.              *)
(***************************************************************************)
Kept == {o \in known : Matches(o) /\ RaceOf[o.entry] \notin loaded}
LoadedEntries == {e \in Entries : RaceOf[e] \in loaded}

SampleCoversBarriers ==
    Answered("barriers") /\ ~asking =>
        /\ \A o \in Kept : \E row \in Answer.rows : row.barrier = o.row.barrier
        /\ \A row \in Answer.rows :
              LET there == Cardinality({o \in Kept : o.row.barrier = row.barrier})
              IN  row.total \in there .. there + Cardinality(LoadedEntries)
        /\ LET there == Cardinality({RaceOf[o.entry] : o \in Kept})
           IN  Answer.races \in there .. there + Cardinality(loaded)

(***************************************************************************)
(* A track with results under the conditions asked for has a heatmap,      *)
(* whether or not the stored cells know of them yet.                       *)
(***************************************************************************)
Asked(o) == /\ Matches(o) /\ RaceOf[o.entry] \notin loaded
            /\ \/ client.band = NoBand
               \/ client.band = "middle" /\ o.row.distance \in 1201 .. 1600
               \/ client.band = "sprint" /\ o.row.distance <= 1200

HeatmapIsNotBlank ==
    Answered("heatmap") /\ ~asking /\ (\E o \in known : Asked(o)) =>
        Answer.error \/ Answer.cells # {}

=============
