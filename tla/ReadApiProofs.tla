---------------------------- MODULE ReadApiProofs ----------------------------
(***************************************************************************)
(* ReadApi, for every set of races, entries, documents and requests.       *)
(***************************************************************************)
EXTENDS ReadApi, FiniteSetTheorems, TLAPS

-----------------------------------------------------------------------------
(* The tables while the loader works on them                               *)

Shaped(t) ==
    /\ t = [meeting |-> t.meeting, listed |-> t.listed, race |-> t.race, status |-> t.status,
            horse |-> t.horse, entered |-> t.entered, entry |-> t.entry,
            scratched |-> t.scratched, position |-> t.position, result |-> t.result,
            going |-> t.going, outcome |-> t.outcome, snaps |-> t.snaps, ticks |-> t.ticks,
            moves |-> t.moves, counted |-> t.counted, cells |-> t.cells]
    /\ DOMAIN t.race = Races /\ DOMAIN t.going = Races

\* An outcome is of a barrier, and in the zone of it.
Placed(o) == o # NoOutcome => o.barrier \in Nat /\ o.zone = OutcomeZone(o.barrier, o.field)

TablesOK ==
    /\ Shaped(db)
    /\ db.entered \subseteq Entries
    /\ \A e \in Entries : db.entry[e].barrier \in Nullable
    /\ \A e \in Entries : Placed(db.outcome[e])

LoadOK ==
    /\ loaded \subseteq Races
    /\ load # NoLoad =>
          /\ load = [step |-> load.step, race |-> load.race, doc |-> load.doc]
          /\ load.race \in Races /\ load.doc \in Docs[load.race]

\* Statements of the request in progress, and answers given before it.
ClientOK ==
    /\ \E S : got \in Seq(S)
    /\ \E S : answers \in Seq(S)
    /\ ~asking => got = <<>>

LEMMA Appended ==
    ASSUME NEW S, NEW s \in Seq(S), NEW x
    PROVE  /\ \E T : Append(s, x) \in Seq(T)
           /\ Len(Append(s, x)) = Len(s) + 1
           /\ Append(s, x)[Len(s) + 1] = x
           /\ \A i \in 1..Len(s) : Append(s, x)[i] = s[i]
<1>1. s \in Seq(S \cup {x}) /\ x \in S \cup {x}
    OBVIOUS
<1> QED BY <1>1

\* What a statement of a loader's run leaves of the other races, but for their meetings.
Others ==
    /\ \A h \in Entries : RaceOf[h] # load.race =>
          /\ h \in db'.entered <=> h \in db.entered
          /\ h \in db'.scratched <=> h \in db.scratched
          /\ db'.result[h] = db.result[h] /\ db'.horse[h] = db.horse[h]
          /\ db'.outcome[h] = db.outcome[h]
    /\ \A r \in Races \ {load.race} : /\ db'.going[r] = db.going[r]
                                       /\ db'.race[r] = db.race[r]

\* What a step of the loader leaves of the races that it has not loaded.
Elsewhere ==
    /\ loaded \subseteq loaded'
    /\ \A h \in Entries : RaceOf[h] \notin loaded' =>
          /\ h \in db'.entered <=> h \in db.entered
          /\ h \in db'.scratched <=> h \in db.scratched
          /\ db'.result[h] = db.result[h] /\ db'.horse[h] = db.horse[h]
          /\ db'.outcome[h] = db.outcome[h]
    /\ \A r \in Races \ loaded' : Conditions(r)' = Conditions(r)

LEMMA Committed ==
    ASSUME TablesOK, LoadOK, NEW step, NEW rows, Commit(step, rows)
    PROVE  /\ load # NoLoad /\ db' = rows /\ UNCHANGED clientVars /\ LoadOK'
           /\ load.race \in Races /\ load.doc \in Docs[load.race]
           /\ Document(load.race, load.doc)
           /\ Others => Elsewhere
<1>1. /\ load # NoLoad /\ db' = rows /\ UNCHANGED clientVars
      /\ load.race \in Races /\ load.doc \in Docs[load.race]
      /\ loaded' = loaded \cup {load.race} \cup Moved(rows)
    BY DEF Commit, LoadOK
<1>2. Document(load.race, load.doc)
    BY <1>1, ReadAssumption
<1>3. LoadOK'
    BY <1>1 DEF Commit, LoadOK, Moved
<1>4. \A r \in Races \ loaded' : Held(db', r) = Held(db, r)
    BY <1>1 DEF Moved
<1>5. ASSUME Others PROVE Elsewhere
    BY <1>1, <1>4, <1>5 DEF Others, Elsewhere, Conditions, Track, Held
<1> QED BY <1>1, <1>2, <1>3, <1>5

\* A statement that writes none of these columns.
LEMMA OtherColumns ==
    ASSUME TablesOK, Shaped(db'),
           db'.entered = db.entered, db'.scratched = db.scratched, db'.result = db.result,
           db'.horse = db.horse, db'.outcome = db.outcome, db'.entry = db.entry,
           db'.going = db.going, db'.race = db.race
    PROVE  TablesOK' /\ Others
BY DEF TablesOK, Placed, Others

LEMMA OutcomesPlaced ==
    ASSUME TablesOK, LoadOK, load # NoLoad, NEW e \in Eligible
    PROVE  /\ e \in Entries /\ RaceOf[e] = load.race
           /\ OutcomeRow(e) # NoOutcome /\ Placed(OutcomeRow(e))
<1> DEFINE n == Cardinality(Eligible)
           b == db.entry[e].barrier
<1>1. e \in Entries /\ RaceOf[e] = load.race /\ b \in Nat
    BY DEF Eligible, In, TablesOK, Nullable
<1> HIDE DEF n, b
<1>2. OutcomeRow(e).barrier = b /\ OutcomeRow(e).field = n /\ OutcomeRow(e).zone = OutcomeZone(b, n)
    BY DEF OutcomeRow, n, b
<1>3. OutcomeZone(b, n) # "none"
    BY DEF OutcomeZone
<1>4. OutcomeRow(e) # NoOutcome
    BY <1>2, <1>3 DEF NoOutcome
<1> QED BY <1>1, <1>2, <1>4 DEF Placed

LEMMA LoaderSteps ==
    ASSUME TablesOK, LoadOK, Load
    PROVE  TablesOK' /\ LoadOK' /\ UNCHANGED clientVars /\ Elsewhere
<1> USE DEF Shaped
<1>t. Shaped(db)
    BY DEF TablesOK
<1>0. ASSUME UNCHANGED <<loaded, clientVars>>, LoadOK', Shaped(db'),
             db'.entered = db.entered, db'.scratched = db.scratched, db'.result = db.result,
             db'.horse = db.horse, db'.outcome = db.outcome, db'.entry = db.entry,
             db'.going = db.going, db'.race = db.race, db'.meeting = db.meeting
      PROVE  TablesOK' /\ LoadOK' /\ UNCHANGED clientVars /\ Elsewhere
    BY <1>0 DEF TablesOK, Placed, Elsewhere, Conditions, Track, Held
<1>1. CASE StartLoad
    BY <1>0, <1>1, <1>t DEF StartLoad, LoadOK
<1>2. CASE LoadFails
    BY <1>0, <1>2, <1>t DEF LoadFails, LoadOK
<1>3. CASE RebuildCells
    <2> DEFINE cells == {[o EXCEPT !.row.going = Going(@)] : o \in {x \in Outcomes : x.row.position > 0}}
    <2>1. db' = [db EXCEPT !.cells = cells]
        BY <1>3 DEF RebuildCells
    <2> HIDE DEF cells
    <2> QED BY <1>0, <1>3, <1>t, <2>1 DEF RebuildCells, LoadOK
<1>4. CASE LoadMeetings
    <2> DEFINE meeting == [db.meeting EXCEPT ![load.doc.race.meeting] = load.doc.meeting]
    <2>1. db' = [db EXCEPT !.meeting = meeting]
        BY <1>4 DEF LoadMeetings, Commit
    <2> HIDE DEF meeting
    <2>2. TablesOK' /\ Others
        BY <2>1, <1>t, OtherColumns
    <2> QED BY <1>4, <2>2, Committed DEF LoadMeetings
<1>5. CASE LoadSnapshots
    <2> DEFINE snaps == OfRun(db.snaps, [e \in Runs(load.race) |->
                            IF load.doc.price[e] > 0
                            THEN Append(db.snaps[e], <<clock, load.doc.price[e]>>)
                            ELSE db.snaps[e]])
    <2>1. db' = [db EXCEPT !.snaps = snaps]
        BY <1>5 DEF LoadSnapshots, Commit
    <2> HIDE DEF snaps
    <2>2. TablesOK' /\ Others
        BY <2>1, <1>t, OtherColumns
    <2> QED BY <1>5, <2>2, Committed DEF LoadSnapshots
<1>6. CASE LoadTicks
    <2> DEFINE ticks == OfRun(db.ticks, [e \in Runs(load.race) |->
                            db.ticks[e] \cup {t \in {<<clock, load.doc.price[e]>>} \cup load.doc.flucs[e] :
                                                 t[2] > 0}])
    <2>1. db' = [db EXCEPT !.ticks = ticks]
        BY <1>6 DEF LoadTicks, Commit
    <2> HIDE DEF ticks
    <2>2. TablesOK' /\ Others
        BY <2>1, <1>t, OtherColumns
    <2> QED BY <1>6, <2>2, Committed DEF LoadTicks
<1>7. CASE LoadMovements
    <2> DEFINE moves == OfRun(db.moves, [e \in Runs(load.race) |-> db.moves[e] \cup MovesIn(db.ticks[e])])
    <2>1. db' = [db EXCEPT !.moves = moves]
        BY <1>7 DEF LoadMovements, Commit
    <2> HIDE DEF moves
    <2>2. TablesOK' /\ Others
        BY <2>1, <1>t, OtherColumns
    <2> QED BY <1>7, <2>2, Committed DEF LoadMovements
<1>8. CASE LoadAnalytics
    <2> DEFINE counted == OfRun(db.counted, [e \in Runs(load.race) |->
                            IF db.ticks[e] = {} THEN db.counted[e]
                            ELSE [firm  |-> Cardinality(Firming(db.moves[e])),
                                  drift |-> Cardinality(db.moves[e] \ Firming(db.moves[e])),
                                  ticks |-> Cardinality(db.ticks[e])]])
    <2>1. db' = [db EXCEPT !.counted = counted]
        BY <1>8 DEF LoadAnalytics, Commit
    <2> HIDE DEF counted
    <2>2. TablesOK' /\ Others
        BY <2>1, <1>t, OtherColumns
    <2> QED BY <1>8, <2>2, Committed DEF LoadAnalytics
<1>9. CASE RepairEntries
    <2> DEFINE position == OfRun(db.position, [e \in Runs(load.race) |->
                            IF db.result[e] > 0 THEN db.result[e] ELSE db.position[e]])
    <2>1. db' = [db EXCEPT !.position = position]
        BY <1>9 DEF RepairEntries, Commit
    <2> HIDE DEF position
    <2>2. TablesOK' /\ Others
        BY <2>1, <1>t, OtherColumns
    <2> QED BY <1>9, <2>2, Committed DEF RepairEntries
<1>10. CASE LoadRaces
    <2> DEFINE listed == db.listed \cup {load.race}
               race == [db.race EXCEPT ![load.race] = load.doc.race]
               status == [db.status EXCEPT ![load.race] = IF @ = "finished" THEN @ ELSE load.doc.status]
    <2>1. db' = [db EXCEPT !.listed = listed,
                           !.race = race,
                           !.status = status]
        BY <1>10 DEF LoadRaces, Commit
    <2>2. DOMAIN race = Races /\ \A r \in Races \ {load.race} : race[r] = db.race[r]
        BY <1>t
    <2> HIDE DEF listed, race, status
    <2>8. Shaped(db')
          /\ db'.listed = listed /\ db'.race = race /\ db'.status = status
          /\ db'.entered = db.entered
          /\ db'.scratched = db.scratched
          /\ db'.result = db.result
          /\ db'.horse = db.horse
          /\ db'.outcome = db.outcome
          /\ db'.entry = db.entry
          /\ db'.going = db.going
        BY <2>1, <1>t, <2>2
    <2>9. TablesOK' /\ Others
        BY <2>2, <2>8 DEF TablesOK, Placed, Others
    <2> QED BY <1>10, <2>9, Committed DEF LoadRaces
<1>11. CASE LoadRunners
    <2> DEFINE horse == OfRun(db.horse, [e \in Runs(load.race) |->
                            IF load.doc.horse[e] # "" THEN load.doc.horse[e] ELSE db.horse[e]])
    <2>1. db' = [db EXCEPT !.horse = horse]
        BY <1>11 DEF LoadRunners, Commit
    <2>2. \A h \in Entries : RaceOf[h] # load.race => horse[h] = db.horse[h]
        BY DEF OfRun
    <2> HIDE DEF horse
    <2>8. Shaped(db')
          /\ db'.horse = horse
          /\ db'.entered = db.entered
          /\ db'.scratched = db.scratched
          /\ db'.result = db.result
          /\ db'.outcome = db.outcome
          /\ db'.entry = db.entry
          /\ db'.going = db.going
          /\ db'.race = db.race
        BY <2>1, <1>t
    <2>9. TablesOK' /\ Others
        BY <2>2, <2>8 DEF TablesOK, Placed, Others
    <2> QED BY <1>11, <2>9, Committed DEF LoadRunners
<1>12. CASE LoadEntries
    <2> DEFINE entered == db.entered \cup Runs(load.race)
               entry == OfRun(db.entry, load.doc.entry)
               scratched == (db.scratched \ Runs(load.race)) \cup load.doc.scratched
               position == OfRun(db.position, load.doc.place)
    <2>1. db' = [db EXCEPT !.entered = entered,
                           !.entry = entry,
                           !.scratched = scratched,
                           !.position = position]
        BY <1>12 DEF LoadEntries, Commit
    <2>d. Document(load.race, load.doc)
        BY <1>12, Committed DEF LoadEntries
    <2>2. \A h \in Entries : RaceOf[h] # load.race =>
             /\ h \in entered <=> h \in db.entered
             /\ h \in scratched <=> h \in db.scratched
        BY <2>d DEF Runs, Document
    <2>3. entered \subseteq Entries
        BY DEF TablesOK, Runs
    <2>4. \A e \in Entries : entry[e].barrier \in Nullable
        <3>1. \A e \in Runs(load.race) : load.doc.entry[e].barrier \in Nullable
            BY <2>d DEF Document, EntryRows
        <3> QED BY <3>1 DEF OfRun, Runs, TablesOK
    <2> HIDE DEF entered, entry, scratched, position
    <2>8. Shaped(db')
          /\ db'.entered = entered /\ db'.entry = entry /\ db'.scratched = scratched /\ db'.position = position
          /\ db'.result = db.result
          /\ db'.horse = db.horse
          /\ db'.outcome = db.outcome
          /\ db'.going = db.going
          /\ db'.race = db.race
        BY <2>1, <1>t
    <2>9. TablesOK' /\ Others
        BY <2>2, <2>3, <2>4, <2>8 DEF TablesOK, Placed, Others
    <2> QED BY <1>12, <2>9, Committed DEF LoadEntries
<1>13. CASE LoadResults
    <2> DEFINE result == OfRun(db.result, [e \in Runs(load.race) |->
                            IF load.doc.place[e] # Null THEN load.doc.place[e] ELSE db.result[e]])
    <2>1. db' = [db EXCEPT !.result = result]
        BY <1>13 DEF LoadResults, Commit
    <2>2. \A h \in Entries : RaceOf[h] # load.race => result[h] = db.result[h]
        BY DEF OfRun
    <2> HIDE DEF result
    <2>8. Shaped(db')
          /\ db'.result = result
          /\ db'.entered = db.entered
          /\ db'.scratched = db.scratched
          /\ db'.horse = db.horse
          /\ db'.outcome = db.outcome
          /\ db'.entry = db.entry
          /\ db'.going = db.going
          /\ db'.race = db.race
        BY <2>1, <1>t
    <2>9. TablesOK' /\ Others
        BY <2>2, <2>8 DEF TablesOK, Placed, Others
    <2> QED BY <1>13, <2>9, Committed DEF LoadResults
<1>14. CASE LoadConditions
    <2> DEFINE going == [db.going EXCEPT ![load.race] =
                            IF load.doc.going # "" THEN load.doc.going ELSE @]
    <2>1. db' = [db EXCEPT !.going = going]
        BY <1>14 DEF LoadConditions, Commit
    <2>2. DOMAIN going = Races /\ \A r \in Races \ {load.race} : going[r] = db.going[r]
        BY <1>t
    <2> HIDE DEF going
    <2>8. Shaped(db')
          /\ db'.going = going
          /\ db'.entered = db.entered
          /\ db'.scratched = db.scratched
          /\ db'.result = db.result
          /\ db'.horse = db.horse
          /\ db'.outcome = db.outcome
          /\ db'.entry = db.entry
          /\ db'.race = db.race
        BY <2>1, <1>t, <2>2
    <2>9. TablesOK' /\ Others
        BY <2>2, <2>8 DEF TablesOK, Placed, Others
    <2> QED BY <1>14, <2>9, Committed DEF LoadConditions
<1>15. CASE LoadOutcomes
    <2> DEFINE outcome == [e \in Entries |-> IF e \in Eligible THEN OutcomeRow(e) ELSE db.outcome[e]]
    <2>1. db' = [db EXCEPT !.outcome = outcome]
        BY <1>15 DEF LoadOutcomes, Commit
    <2>n. load # NoLoad
        BY <1>15, Committed DEF LoadOutcomes
    <2>2. \A h \in Entries : RaceOf[h] # load.race => outcome[h] = db.outcome[h]
        BY <2>n, OutcomesPlaced
    <2>3. \A e \in Entries : Placed(outcome[e])
        BY <2>n, OutcomesPlaced DEF TablesOK
    <2> HIDE DEF outcome
    <2>8. Shaped(db')
          /\ db'.outcome = outcome
          /\ db'.entered = db.entered
          /\ db'.scratched = db.scratched
          /\ db'.result = db.result
          /\ db'.horse = db.horse
          /\ db'.entry = db.entry
          /\ db'.going = db.going
          /\ db'.race = db.race
        BY <2>1, <1>t
    <2>9. TablesOK' /\ Others
        BY <2>2, <2>3, <2>8 DEF TablesOK, Others
    <2> QED BY <1>15, <2>9, Committed DEF LoadOutcomes
<1> QED
    BY <1>1, <1>2, <1>3, <1>4, <1>5, <1>6, <1>7, <1>8, <1>9, <1>10, <1>11, <1>12, <1>13, <1>14,
       <1>15 DEF Load

LEMMA ServesKind ==
    ASSUME Serve
    PROVE  /\ client.kind = "race" => GetRace
           /\ client.kind = "odds" => GetRaceOdds
           /\ client.kind = "analysis" => GetOddsAnalysis
           /\ client.kind = "context" => GetBarrierContext
           /\ client.kind = "fit" => GetRunnerFit
           /\ client.kind = "list" => ListRaces
           /\ client.kind = "people" => GetPeopleRates
           /\ client.kind = "pulse" => GetRacingPulse
           /\ client.kind = "barriers" => GetBarrierAnalysis
           /\ client.kind = "heatmap" => GetHeatmap
<1>1. ASSUME NEW k, Serving(k) PROVE client.kind = k
    BY <1>1 DEF Serving
<1>2. GetRace => Serving("race")                   BY DEF GetRace
<1>3. GetRaceOdds => Serving("odds")               BY DEF GetRaceOdds
<1>4. GetOddsAnalysis => Serving("analysis")       BY DEF GetOddsAnalysis
<1>5. GetBarrierContext => Serving("context")      BY DEF GetBarrierContext
<1>6. GetRunnerFit => Serving("fit")               BY DEF GetRunnerFit
<1>7. ListRaces => Serving("list")                 BY DEF ListRaces
<1>8. GetPeopleRates => Serving("people")          BY DEF GetPeopleRates
<1>9. GetRacingPulse => Serving("pulse")           BY DEF GetRacingPulse
<1>10. GetBarrierAnalysis => Serving("barriers")   BY DEF GetBarrierAnalysis
<1>11. GetHeatmap => Serving("heatmap")            BY DEF GetHeatmap
<1> QED
    BY <1>1, <1>2, <1>3, <1>4, <1>5, <1>6, <1>7, <1>8, <1>9, <1>10, <1>11 DEF Serve

LEMMA ReadStep ==
    ASSUME ClientOK, asking, NEW n \in Nat, NEW rows, Read(n, rows)
    PROVE  /\ ClientOK'
           /\ n = Len(got) + 1 /\ Len(got') = n /\ got'[n] = rows
           /\ \A i \in 1..Len(got) : got'[i] = got[i]
           /\ UNCHANGED <<db, load, loaded, moved, client, known, answers, asking>>
<1> PICK S : got \in Seq(S)
    BY DEF ClientOK
<1>1. /\ got' = Append(got, rows) /\ Len(got) = n - 1
      /\ UNCHANGED <<db, load, loaded, moved, client, known, answers, asking>>
    BY DEF Read, After
<1>2. Len(got) \in Nat
    OBVIOUS
<1>3. Len(got) + 1 = n
    BY <1>1, <1>2
<1>4. /\ \E T : Append(got, rows) \in Seq(T)
      /\ Len(Append(got, rows)) = Len(got) + 1
      /\ Append(got, rows)[Len(got) + 1] = rows
      /\ \A i \in 1..Len(got) : Append(got, rows)[i] = got[i]
    BY Appended
<1>5. ClientOK'
    BY <1>1, <1>4 DEF ClientOK
<1> QED BY <1>1, <1>3, <1>4, <1>5

LEMMA ReplyStep ==
    ASSUME ClientOK, NEW n \in Nat, NEW answer, Reply(n, answer)
    PROVE  /\ ClientOK'
           /\ n = Len(got) /\ got' = <<>>
           /\ Len(answers') = Len(answers) + 1 /\ answers'[Len(answers) + 1] = answer
           /\ \A i \in 1..Len(answers) : answers'[i] = answers[i]
           /\ UNCHANGED <<db, load, loaded, moved, client, known>> /\ ~asking'
<1> PICK S : answers \in Seq(S)
    BY DEF ClientOK
<1>1. /\ answers' = Append(answers, answer) /\ got' = <<>> /\ Len(got) = n
      /\ UNCHANGED <<db, load, loaded, moved, client, known>> /\ ~asking'
    BY DEF Reply, After
<1>2. got' \in Seq({})
    BY <1>1
<1>3. /\ \E T : Append(answers, answer) \in Seq(T)
      /\ Len(Append(answers, answer)) = Len(answers) + 1
      /\ Append(answers, answer)[Len(answers) + 1] = answer
      /\ \A i \in 1..Len(answers) : Append(answers, answer)[i] = answers[i]
    BY Appended
<1>4. ClientOK'
    BY <1>1, <1>2, <1>3 DEF ClientOK
<1> QED BY <1>1, <1>3, <1>4

-----------------------------------------------------------------------------
(* The zones of barrier contexts                                           *)

ContextRow(x) ==
    /\ x.entry \in Entries /\ x.field \in Nat
    /\ x.zone = ContextZone(x.barrier, x.field)

ContextOK ==
    client.kind = "context" =>
        /\ Len(got) >= 2 => \A x \in got[2] : ContextRow(x)
        /\ \A i \in 1..Len(answers) :
              answers[i].found => \A x \in answers[i].entries : ContextRow(x)

\* An inside third of no more than a barrier, a middle of no more than two,
\* are all the context of a race makes different.
LEMMA SameZone ==
    ASSUME NEW barrier \in Nat, NEW field \in Nat, field >= 2
    PROVE  OutcomeZone(barrier, field) = ContextZone(barrier, field)
<1>1. /\ Third(field) \in Nat /\ Third(field) >= 1
      /\ TwoThirds(field) \in Nat /\ TwoThirds(field) >= 2
    BY DEF Third, TwoThirds
<1>2. ASSUME NEW a \in Nat, NEW b \in Nat, b >= a PROVE Max({a, b}) = b
    <2>1. \A x \in {a, b} : (\A y \in {a, b} : x >= y) <=> x = b
        BY <1>2
    <2> QED BY <2>1 DEF Max
<1>3. Max({1, Third(field)}) = Third(field) /\ Max({2, TwoThirds(field)}) = TwoThirds(field)
    BY <1>1, <1>2
<1>4. barrier # Null
    BY DEF Null
<1> QED BY <1>3, <1>4 DEF OutcomeZone, ContextZone

LEMMA ZonesAgreeFrom ==
    ASSUME TablesOK, ClientOK, ContextOK
    PROVE  ZonesAgree
<1> SUFFICES ASSUME Found("context"), NEW row \in Answer.entries,
                    db.outcome[row.entry] # NoOutcome,
                    db.outcome[row.entry].barrier = row.barrier,
                    db.outcome[row.entry].field = row.field, row.field >= 2
             PROVE  db.outcome[row.entry].zone = row.zone
    BY DEF ZonesAgree
<1>1. /\ client.kind = "context" /\ answers # <<>> /\ answers[Len(answers)].found
      /\ row \in answers[Len(answers)].entries
    BY DEF Found, Answered, Answer
<1>2. Len(answers) \in 1..Len(answers)
    BY <1>1 DEF ClientOK
<1>3. ContextRow(row)
    BY <1>1, <1>2 DEF ContextOK
<1>4. /\ row.entry \in Entries /\ row.field \in Nat
      /\ row.zone = ContextZone(row.barrier, row.field)
    BY <1>3 DEF ContextRow
<1>5. row.barrier \in Nat /\ db.outcome[row.entry].zone = OutcomeZone(row.barrier, row.field)
    BY <1>4 DEF TablesOK, Placed
<1> QED BY <1>4, <1>5, SameZone

LEMMA ContextKept ==
    ASSUME TablesOK, ClientOK, ContextOK, client.kind = "context", GetBarrierContext
    PROVE  ClientOK' /\ ContextOK' /\ UNCHANGED <<db, load, loaded, client>>
<1> USE DEF ContextOK
<1>a. asking
    BY DEF GetBarrierContext, Serving
<1>b. Len(answers) \in Nat
    BY DEF ClientOK
<1>c. /\ \A x : ContextRow(x)' <=> ContextRow(x)
    BY DEF ContextRow
<1>1. CASE Read(1, RaceRow)
    <2>1. Len(got') = 1 /\ ClientOK' /\ UNCHANGED <<db, load, loaded, client, answers>>
        BY <1>1, <1>a, ReadStep
    <2> QED BY <2>1, <1>c
<1>2. CASE Missing
    <2>1. Reply(1, NotFound) /\ NotFound.found = FALSE
        BY <1>2 DEF Missing, NotFound
    <2> QED BY <2>1, <1>b, <1>c, ReplyStep
<1>3. CASE ReadNext(2,
                    {[entry   |-> e,
                      barrier |-> db.entry[e].barrier,
                      field   |-> Cardinality(Field),
                      zone    |-> ContextZone(db.entry[e].barrier, Cardinality(Field))] :
                         e \in Field})
    <2> DEFINE rows == {[entry   |-> e,
                         barrier |-> db.entry[e].barrier,
                         field   |-> Cardinality(Field),
                         zone    |-> ContextZone(db.entry[e].barrier, Cardinality(Field))] :
                            e \in Field}
    <2>1. Read(2, rows)
        BY <1>3 DEF ReadNext
    <2>2. Field \subseteq Entries /\ Cardinality(Field) \in Nat
        <3>1. Field \subseteq Entries
            BY DEF Field, In, TablesOK
        <3> QED BY <3>1, ReadAssumption, FS_Subset, FS_CardinalityType
    <2>3. \A x \in rows : ContextRow(x)
        BY <2>2 DEF ContextRow
    <2> HIDE DEF rows
    <2> QED BY <2>1, <2>3, <1>a, <1>c, ReadStep
<1>4. CASE ReadNext(3, {})
    <2>1. Read(3, {})
        BY <1>4 DEF ReadNext
    <2>2. /\ ClientOK' /\ 3 = Len(got) + 1
          /\ \A i \in 1..Len(got) : got'[i] = got[i]
          /\ UNCHANGED <<db, load, loaded, client, answers>>
        BY <2>1, <1>a, ReadStep
    <2>3. Len(got) \in Nat
        BY DEF ClientOK
    <2>4. Len(got) = 2 /\ 2 \in 1..Len(got)
        <3>1. 3 = Len(got) + 1
            BY <2>2
        <3>2. \A n \in Nat : 3 = n + 1 => n = 2
            OBVIOUS
        <3>3. Len(got) = 2
            BY <2>3, <3>1, <3>2
        <3> QED BY <3>3
    <2>5. got'[2] = got[2] /\ \A x \in got[2] : ContextRow(x)
        BY <2>2, <2>4
    <2> QED BY <2>2, <2>5, <1>c
<1>5. CASE Reply(3, [found |-> TRUE, entries |-> got[2]])
    BY <1>5, <1>b, <1>c, ReplyStep
<1> QED BY <1>1, <1>2, <1>3, <1>4, <1>5 DEF GetBarrierContext

-----------------------------------------------------------------------------
(* The records of the runners of a race                                    *)

\* The starts of a horse in other races, and of these the ones with v in the column c.
Starts(horse) ==
    {h \in db.entered : /\ db.horse[h] = horse /\ horse # ""
                        /\ RaceOf[h] # client.race
                        /\ h \notin db.scratched
                        /\ db.result[h] # Null /\ h \notin Unverified}

Of(horse, c, v) ==
    {h \in Starts(horse) : Conditions(RaceOf[h])[c] = v /\ (c = "distance" => v # Null)}

FitIs(x) ==
    /\ x.entry \in Entries /\ RaceOf[x.entry] = client.race
    /\ \A c \in {"track", "distance", "going"} : x[c] = Record(Of(x.horse, c, x.for[c]))

FitOK ==
    client.kind = "fit" /\ loaded \subseteq {client.race} =>
        /\ Len(got) >= 2 => \A x \in got[2] : FitIs(x)
        /\ \A i \in 1..Len(answers) :
              answers[i].found => \A x \in answers[i].rows : FitIs(x)

LEMMA RowFits ==
    ASSUME TablesOK, NEW e \in Field
    PROVE  FitIs(FitRow(e))
<1> DEFINE for == Conditions(client.race)
           horse == db.horse[e]
           Like(c) == {h \in PastStarts(e) : Conditions(RaceOf[h])[c] = for[c]}
           near == {h \in Like("distance") : db.race[client.race].distance # Null}
<1>1. e \in Entries /\ RaceOf[e] = client.race
    BY DEF Field, In, TablesOK
<1>2. PastStarts(e) = Starts(horse)
    BY <1>1 DEF PastStarts, Starts
<1>3. for.distance = db.race[client.race].distance
    BY DEF Conditions
<1>4. /\ Like("track") = Of(horse, "track", for["track"])
      /\ near = Of(horse, "distance", for["distance"])
      /\ Like("going") = Of(horse, "going", for["going"])
    BY <1>2, <1>3 DEF Of
<1>5. FitRow(e) = [entry |-> e, horse |-> horse, for |-> for, track |-> Record(Like("track")),
                   distance |-> Record(near), going |-> Record(Like("going"))]
    BY DEF FitRow
<1> HIDE DEF for, horse, Like, near
<1>6. /\ FitRow(e).entry = e /\ FitRow(e).horse = horse /\ FitRow(e).for = for
      /\ FitRow(e).track = Record(Like("track")) /\ FitRow(e).distance = Record(near)
      /\ FitRow(e).going = Record(Like("going"))
    BY <1>5
<1>7. ASSUME NEW c \in {"track", "distance", "going"}
      PROVE  FitRow(e)[c] = Record(Of(horse, c, for[c]))
    <2>1. CASE c = "track"
        BY <1>4, <1>6, <2>1
    <2>2. CASE c = "distance"
        BY <1>4, <1>6, <2>2
    <2>3. CASE c = "going"
        BY <1>4, <1>6, <2>3
    <2> QED BY <2>1, <2>2, <2>3
<1> QED BY <1>1, <1>6, <1>7 DEF FitIs

\* No row a record is made of is of the race itself.
LEMMA RecordsKept ==
    ASSUME TablesOK, TablesOK', Elsewhere, client' = client, loaded' \subseteq {client.race},
           NEW horse, NEW c, NEW v
    PROVE  Record(Of(horse, c, v))' = Record(Of(horse, c, v))
<1>1. \A h \in Entries : RaceOf[h] # client.race =>
         /\ h \in db'.entered <=> h \in db.entered
         /\ h \in db'.scratched <=> h \in db.scratched
         /\ db'.result[h] = db.result[h] /\ db'.horse[h] = db.horse[h]
    BY DEF Elsewhere
<1>2. \A h \in Entries : RaceOf[h] # client.race => Conditions(RaceOf[h])' = Conditions(RaceOf[h])
    BY ReadAssumption DEF Elsewhere
<1>3. Starts(horse)' = Starts(horse) /\ Starts(horse) \subseteq Entries
    BY <1>1 DEF Starts, TablesOK
<1>4. \A h \in Starts(horse) : RaceOf[h] # client.race
    BY DEF Starts
<1>5. Of(horse, c, v)' = Of(horse, c, v)
    BY <1>2, <1>3, <1>4 DEF Of
<1>6. \A h \in Of(horse, c, v) : db'.result[h] = db.result[h]
    BY <1>1, <1>3, <1>4 DEF Of
<1> QED BY <1>5, <1>6 DEF Record

LEMMA FitKeptByLoader ==
    ASSUME TablesOK, TablesOK', Elsewhere, FitOK, UNCHANGED clientVars
    PROVE  FitOK'
<1> SUFFICES ASSUME client.kind = "fit", loaded' \subseteq {client.race} PROVE FitOK'
    BY DEF FitOK, clientVars
<1>1. loaded \subseteq {client.race}
    BY DEF Elsewhere
<1>2. client' = client
    BY DEF clientVars
<1>3. ASSUME NEW x, FitIs(x) PROVE FitIs(x)'
    BY <1>2, <1>3, RecordsKept DEF FitIs
<1> QED BY <1>1, <1>3 DEF FitOK, clientVars

\* What records are of, when nothing is written.
LEMMA FitSame ==
    ASSUME UNCHANGED <<db, client>>, NEW x
    PROVE  FitIs(x)' <=> FitIs(x)
BY DEF FitIs, Of, Starts, Conditions, Track, Held, Record

LEMMA FitKept ==
    ASSUME TablesOK, ClientOK, FitOK, client.kind = "fit", GetRunnerFit
    PROVE  ClientOK' /\ FitOK' /\ UNCHANGED <<db, load, loaded, client>>
<1> USE DEF FitOK
<1>a. asking
    BY DEF GetRunnerFit, Serving
<1>b. Len(answers) \in Nat
    BY DEF ClientOK
<1>c. ASSUME db' = db, client' = client PROVE \A x : FitIs(x)' <=> FitIs(x)
    BY <1>c, FitSame
<1>1. CASE Read(1, RaceRow)
    <2>1. Len(got') = 1 /\ ClientOK' /\ UNCHANGED <<db, load, loaded, client, answers>>
        BY <1>1, <1>a, ReadStep
    <2> QED BY <2>1, <1>c
<1>2. CASE Missing
    <2>1. Reply(1, NotFound) /\ NotFound.found = FALSE
        BY <1>2 DEF Missing, NotFound
    <2> QED BY <2>1, <1>b, <1>c, ReplyStep
<1>3. CASE ReadNext(2, {FitRow(e) : e \in Field \ db.scratched})
    <2> DEFINE rows == {FitRow(e) : e \in Field \ db.scratched}
    <2>1. Read(2, rows)
        BY <1>3 DEF ReadNext
    <2>4. \A x \in rows : FitIs(x)
        BY RowFits
    <2> HIDE DEF rows
    <2>5. /\ ClientOK' /\ Len(got') = 2 /\ got'[2] = rows
          /\ UNCHANGED <<db, load, loaded, client, answers>>
        BY <2>1, <1>a, ReadStep
    <2> QED BY <2>4, <2>5, <1>c
<1>4. CASE Reply(2, [found |-> TRUE, rows |-> got[2]])
    BY <1>4, <1>b, <1>c, ReplyStep
<1> QED BY <1>1, <1>2, <1>3, <1>4 DEF GetRunnerFit

LEMMA FitLooksBackFrom ==
    ASSUME ClientOK, FitOK
    PROVE  FitLooksBack
<1>1. ASSUME NEW x, NEW y, FitIs(x), FitIs(y), x.horse = y.horse,
             NEW c \in {"track", "distance", "going"}, x.for[c] = y.for[c]
      PROVE  x[c] = y[c]
    BY <1>1 DEF FitIs
<1>2. ASSUME client.kind = "fit", Len(answers) = 2, answers[1].found, answers[2].found,
             loaded \subseteq {client.race},
             NEW x \in answers[1].rows, NEW y \in answers[2].rows
      PROVE  FitIs(x) /\ FitIs(y)
    BY <1>2 DEF FitOK
<1> QED BY <1>1, <1>2 DEF FitLooksBack

-----------------------------------------------------------------------------
(* The theorems                                                            *)

\* Handlers read.
ReadsOnly == UNCHANGED <<db, load, loaded, moved, client, known>>

LEMMA ServeReads ==
    ASSUME Serve
    PROVE  ReadsOnly
<1>1. ASSUME NEW n, NEW rows, Read(n, rows) PROVE ReadsOnly
    BY <1>1 DEF Read, ReadsOnly
<1>2. ASSUME NEW n, NEW results, ReadAny(n, results) PROVE ReadsOnly
    BY <1>1, <1>2 DEF ReadAny
<1>3. ASSUME NEW n, NEW rows, ReadNext(n, rows) PROVE ReadsOnly
    BY <1>1, <1>3 DEF ReadNext
<1>4. ASSUME NEW n, NEW answer, Reply(n, answer) PROVE ReadsOnly
    BY <1>4 DEF Reply, ReadsOnly
<1>5. ASSUME Missing PROVE ReadsOnly
    BY <1>4, <1>5 DEF Missing
<1>11. CASE GetRace
    BY <1>1, <1>3, <1>4, <1>5, <1>11 DEF GetRace
<1>12. CASE GetRaceOdds
    BY <1>1, <1>3, <1>4, <1>5, <1>12 DEF GetRaceOdds
<1>13. CASE GetOddsAnalysis
    BY <1>1, <1>2, <1>3, <1>4, <1>5, <1>13 DEF GetOddsAnalysis
<1>14. CASE GetBarrierContext
    BY <1>1, <1>3, <1>4, <1>5, <1>14 DEF GetBarrierContext
<1>15. CASE GetRunnerFit
    BY <1>1, <1>3, <1>4, <1>5, <1>15 DEF GetRunnerFit
<1>16. CASE ListRaces
    BY <1>2, <1>4, <1>16 DEF ListRaces
<1>17. CASE GetPeopleRates
    BY <1>2, <1>4, <1>17 DEF GetPeopleRates
<1>18. CASE GetRacingPulse
    BY <1>1, <1>2, <1>4, <1>18 DEF GetRacingPulse
<1>19. CASE GetBarrierAnalysis
    BY <1>1, <1>4, <1>19 DEF GetBarrierAnalysis
<1>20. CASE GetHeatmap
    BY <1>1, <1>4, <1>20 DEF GetHeatmap
<1> QED
    BY <1>11, <1>12, <1>13, <1>14, <1>15, <1>16, <1>17, <1>18, <1>19, <1>20 DEF Serve

IInv ==
    /\ TablesOK
    /\ LoadOK
    /\ client.kind \in {"context", "fit"} => ClientOK
    /\ ContextOK
    /\ FitOK

LEMMA Initially ==
    ASSUME Init
    PROVE  IInv
<1>1. PICK k \in Kinds : client \in About[k] /\ db \in Before[k]
    BY DEF Init
<1>2. TablesOK
    <2>1. db \in Tables /\ \A e \in Entries : Zoned(db.outcome[e])
        BY <1>1, ReadAssumption
    <2>2. Shaped(db) /\ db.entered \subseteq Entries
        BY <2>1 DEF Shaped, Tables
    <2>3. \A e \in Entries : db.entry[e].barrier \in Nullable
        BY <2>1 DEF Tables, EntryRows
    <2>4. ASSUME NEW e \in Entries, db.outcome[e] # NoOutcome PROVE db.outcome[e].barrier \in Nat
        <3>1. db.outcome[e] \in OutcomeRows
            BY <2>1, <2>4 DEF Tables
        <3> QED BY <3>1 DEF OutcomeRows
    <2> QED BY <2>1, <2>2, <2>3, <2>4 DEF TablesOK, Placed, Zoned
<1>3. load = NoLoad /\ loaded = {} /\ got = <<>> /\ answers = <<>>
    BY DEF Init
<1>4. ClientOK
    <2>1. <<>> \in Seq({})
        OBVIOUS
    <2> QED BY <1>3, <2>1 DEF ClientOK
<1> QED BY <1>2, <1>3, <1>4 DEF IInv, LoadOK, ContextOK, FitOK

LEMMA StepKept ==
    ASSUME IInv, Next
    PROVE  IInv'
<1> USE DEF IInv
<1>1. CASE Load
    <2>1. TablesOK' /\ LoadOK' /\ UNCHANGED clientVars /\ Elsewhere
        BY <1>1, LoaderSteps
    <2>2. client.kind \in {"context", "fit"} => ClientOK'
        BY <2>1 DEF ClientOK, clientVars
    <2>3. ContextOK'
        BY <2>1 DEF ContextOK, ContextRow, clientVars
    <2>4. FitOK'
        BY <2>1, FitKeptByLoader
    <2> QED BY <2>1, <2>2, <2>3, <2>4 DEF clientVars
<1>2. CASE Ask
    <2>1. /\ UNCHANGED <<db, load, client, got, answers>> /\ ~asking
          /\ loaded' = IF answers = <<>> THEN {} ELSE loaded
        BY <1>2 DEF Ask
    <2>2. TablesOK' /\ LoadOK'
        BY <2>1 DEF TablesOK, Shaped, Placed, LoadOK
    <2>3. client.kind \in {"context", "fit"} => ClientOK' /\ got = <<>>
        BY <2>1 DEF ClientOK
    <2>4. ContextOK'
        BY <2>1 DEF ContextOK, ContextRow
    <2>5. FitOK'
        <3> SUFFICES ASSUME client.kind = "fit" PROVE FitOK'
            BY <2>1 DEF FitOK
        <3>1. Len(got') = 0
            BY <2>1, <2>3
        <3>2. CASE answers = <<>>
            BY <2>1, <3>1, <3>2 DEF FitOK
        <3>3. CASE answers # <<>>
            <4>1. \A x : FitIs(x)' <=> FitIs(x)
                BY <2>1, FitSame
            <4> QED BY <2>1, <3>1, <3>3, <4>1 DEF FitOK
        <3> QED BY <3>2, <3>3
    <2> QED BY <2>1, <2>2, <2>3, <2>4, <2>5
<1>3. CASE Serve
    <2>1. UNCHANGED <<db, load, loaded, client>>
        BY <1>3, ServeReads DEF ReadsOnly
    <2>2. TablesOK' /\ LoadOK'
        BY <2>1 DEF TablesOK, Shaped, Placed, LoadOK
    <2>3. CASE client.kind \notin {"context", "fit"}
        BY <2>1, <2>2, <2>3 DEF ContextOK, FitOK
    <2>4. CASE client.kind = "context" /\ GetBarrierContext
        <3>1. ClientOK' /\ ContextOK'
            BY <2>4, ContextKept
        <3> QED BY <2>1, <2>2, <2>4, <3>1 DEF FitOK
    <2>5. CASE client.kind = "fit" /\ GetRunnerFit
        <3>1. ClientOK' /\ FitOK'
            BY <2>5, FitKept
        <3> QED BY <2>1, <2>2, <2>5, <3>1 DEF ContextOK
    <2> QED BY <1>3, <2>3, <2>4, <2>5, ServesKind
<1> QED BY <1>1, <1>2, <1>3 DEF Next

LEMMA Stuttered ==
    ASSUME IInv, UNCHANGED vars
    PROVE  IInv'
<1>1. \A x : FitIs(x)' <=> FitIs(x)
    BY FitSame DEF vars, clientVars
<1>2. \A x : ContextRow(x)' <=> ContextRow(x)
    BY DEF ContextRow
<1> QED
    BY <1>1, <1>2 DEF IInv, vars, clientVars, TablesOK, Shaped, Placed, LoadOK, ClientOK,
                      ContextOK, FitOK

LEMMA Inductive == Spec => []IInv
<1>1. Init => IInv
    BY Initially
<1>2. IInv /\ [Next]_vars => IInv'
    BY StepKept, Stuttered
<1> QED BY <1>1, <1>2, PTL DEF Spec

\* The zone the barrier context of a race shows a runner in (get_barrier_context)
\* is the zone the loader counts its result in, at the same barrier of a field of
\* the same size, whatever barriers the imports between the two gave it.
THEOREM ZonesStayed == Spec => []ZonesAgree
<1>1. IInv => ZonesAgree
    <2> SUFFICES ASSUME IInv, client.kind = "context" PROVE ZonesAgree
        BY DEF ZonesAgree, Found, Answered
    <2> QED BY ZonesAgreeFrom DEF IInv
<1> QED BY <1>1, Inductive, PTL

\* What loading a race with its results changes in the records get_runner_fit gives of its
\* runners is what it changes of the race's track, distance or going, or of the runner's horse.
THEOREM RecordsAreOfThePast == Spec => []FitLooksBack
<1>1. IInv => FitLooksBack
    <2> SUFFICES ASSUME IInv, client.kind = "fit" PROVE FitLooksBack
        BY DEF FitLooksBack
    <2> QED BY FitLooksBackFrom DEF IInv
<1> QED BY <1>1, Inductive, PTL

-----------------------------------------------------------------------------
(* Answers from the barrier outcomes                                       *)

LEMMA LoaderClient ==
    ASSUME Load
    PROVE  UNCHANGED clientVars
BY DEF Load, StartLoad, LoadFails, RebuildCells, LoadMeetings, LoadRaces, LoadRunners, LoadEntries,
       LoadResults, RepairEntries, LoadConditions, LoadOutcomes, LoadSnapshots, LoadTicks,
       LoadMovements, LoadAnalytics, Commit

\* The outcomes of races that have not been loaded since.
Unloaded(O) == {o \in O : RaceOf[o.entry] \notin loaded}

\* They are what they were when the request came in.
KnownOK ==
    /\ \A o \in known : o.entry \in Entries
    /\ asking \/ answers # <<>> => Unloaded(Outcomes) = Unloaded(known)

LEMMA OutcomesAre ==
    /\ \A o : o \in Outcomes <=> \E e \in Entries : /\ db.outcome[e] # NoOutcome
                                                    /\ o = [entry |-> e, row |-> db.outcome[e]]
    /\ \A o \in Outcomes : o.entry \in Entries /\ \A p \in Outcomes : o.entry = p.entry => o = p
BY DEF Outcomes

LEMMA UnloadedStay ==
    ASSUME Elsewhere
    PROVE  Unloaded(Outcomes)' = {o \in Unloaded(Outcomes) : RaceOf[o.entry] \notin loaded'}
<1>1. \A e \in Entries : RaceOf[e] \notin loaded' => RaceOf[e] \notin loaded /\ db'.outcome[e] = db.outcome[e]
    BY DEF Elsewhere
<1> DEFINE old == {[entry |-> e, row |-> db.outcome[e]] : e \in {x \in Entries : db.outcome[x] # NoOutcome}}
           new == {[entry |-> e, row |-> db'.outcome[e]] : e \in {x \in Entries : db'.outcome[x] # NoOutcome}}
<1>2. {o \in new : RaceOf[o.entry] \notin loaded'} = {o \in old : RaceOf[o.entry] \notin loaded'}
    BY <1>1
<1>3. \A o \in old : RaceOf[o.entry] \notin loaded' => RaceOf[o.entry] \notin loaded
    BY <1>1
<1>4. Outcomes = old /\ Outcomes' = new
    BY DEF Outcomes
<1> QED BY <1>2, <1>3, <1>4 DEF Unloaded

LEMMA KnownKept ==
    ASSUME IInv, KnownOK, Next
    PROVE  KnownOK'
<1> USE DEF KnownOK
<1>1. CASE Load
    <2>1. Elsewhere /\ UNCHANGED <<known, asking, answers>>
        BY <1>1, LoaderSteps DEF IInv, clientVars
    <2>2. loaded \subseteq loaded'
        BY <2>1 DEF Elsewhere
    <2>3. Unloaded(known)' = {o \in Unloaded(known) : RaceOf[o.entry] \notin loaded'}
        BY <2>1, <2>2 DEF Unloaded
    <2> QED BY <2>1, <2>3, UnloadedStay
<1>2. CASE Ask
    <2>1. known' = Outcomes /\ db' = db
        BY <1>2 DEF Ask
    <2>2. Outcomes' = Outcomes
        BY <2>1 DEF Outcomes
    <2> QED BY <2>1, <2>2, OutcomesAre DEF Unloaded
<1>3. CASE Serve
    <2>1. UNCHANGED <<db, loaded, known>>
        BY <1>3, ServeReads DEF ReadsOnly
    <2>2. asking
        BY <1>3 DEF Serve, Serving, GetRace, GetRaceOdds, GetOddsAnalysis, GetBarrierContext,
                    GetRunnerFit, ListRaces, GetPeopleRates, GetRacingPulse, GetBarrierAnalysis,
                    GetHeatmap
    <2>3. Outcomes' = Outcomes
        BY <2>1 DEF Outcomes
    <2> QED BY <2>1, <2>2, <2>3 DEF Unloaded
<1> QED BY <1>1, <1>2, <1>3 DEF Next

LEMMA KnownSame ==
    ASSUME KnownOK, UNCHANGED vars
    PROVE  KnownOK'
BY DEF KnownOK, vars, clientVars, Unloaded, Outcomes

\* Somebody asked for what there was, and is still there.
Wanting == \E o \in known : Asked(o)

HeatmapOK ==
    client.kind = "heatmap" =>
        /\ ClientOK
        /\ Len(got) >= 2 /\ Wanting => got[2] # {}
        /\ answers # <<>> /\ ~asking /\ Wanting => Answer.error \/ Answer.cells # {}

LEMMA Bands ==
    ASSUME NEW d
    PROVE  /\ d <= 1200 => Band(d) = "sprint"
           /\ d \in 1201..1600 => Band(d) = "mile"
BY DEF Band

\* Outcomes that were asked for leave the fallback something to show.
LEMMA Shown ==
    ASSUME KnownOK, asking, Wanting
    PROVE  Cells(Banded(Outcomes)) # {}
<1>1. PICK o \in known : Asked(o)
    BY DEF Wanting
<1>2. o \in Outcomes
    BY <1>1 DEF KnownOK, Unloaded, Asked
<1> DEFINE d == o.row.distance
<1>3. \/ client.band = NoBand
      \/ client.band = "middle" /\ d \in 1201..1600
      \/ client.band = "sprint" /\ d <= 1200
    BY <1>1 DEF Asked
<1> HIDE DEF d
<1>4. client.band = NoBand \/ Band(d) = StoredBand(client.band)
    BY <1>3, Bands DEF StoredBand
<1>5. o \in Banded(Outcomes)
    BY <1>1, <1>2, <1>4 DEF Banded, Asked, d
<1>6. <<o.row.zone, Band(o.row.distance)>> \in ZonesAndBands(Banded(Outcomes))
    BY <1>5 DEF ZonesAndBands
<1> QED BY <1>6 DEF Cells

LEMMA StillWanting ==
    ASSUME UNCHANGED <<known, client>>, loaded \subseteq loaded', Wanting'
    PROVE  Wanting
<1>1. \A o : Asked(o)' => Asked(o)
    BY DEF Asked, Matches
<1> QED BY <1>1 DEF Wanting

LEMMA HeatmapKept ==
    ASSUME IInv, KnownOK, HeatmapOK, Next
    PROVE  HeatmapOK'
<1> SUFFICES ASSUME client.kind = "heatmap" PROVE HeatmapOK'
  <2>1. client' = client
      BY ServeReads, LoaderClient DEF Next, Ask, ReadsOnly, clientVars
  <2> QED BY <2>1 DEF HeatmapOK
<1> USE DEF HeatmapOK
<1>1. CASE Load
  <2>1. UNCHANGED <<client, got, asking, known, answers>> /\ loaded \subseteq loaded'
      BY <1>1, LoaderSteps DEF clientVars, IInv, Elsewhere
  <2> QED BY <2>1, StillWanting DEF ClientOK, Answer
<1>2. CASE Ask
  <2>1. asking' /\ UNCHANGED <<client, got, answers>> /\ got = <<>>
      BY <1>2 DEF Ask, ClientOK
  <2> QED BY <2>1 DEF ClientOK
<1>3. CASE Serve
  <2>1. GetHeatmap /\ asking
      BY <1>3, ServesKind DEF GetHeatmap, Serving
  <2>a. UNCHANGED <<known, db, client, loaded>>
      BY <1>3, ServeReads DEF ReadsOnly
  <2>2. UNCHANGED <<known, db, client>> /\ (Wanting' => Wanting)
      BY <2>a, StillWanting
  <2>3. ASSUME NEW rows, Read(1, rows) PROVE HeatmapOK'
    <3>1. ClientOK' /\ Len(got') = 1 /\ asking' /\ answers' = answers
        BY <2>1, <2>3, ReadStep
    <3> QED BY <2>2, <3>1
  <2>4. ASSUME Read(2, Cells(Banded(Outcomes))) PROVE HeatmapOK'
      BY <2>1, <2>2, <2>4, ReadStep, Shown
  <2>5. ASSUME NEW n \in Nat, NEW answer, Reply(n, answer), Wanting => answer.error \/ answer.cells # {}
        PROVE  HeatmapOK'
    <3>1. ClientOK' /\ got' = <<>> /\ answers'[Len(answers')] = answer
        BY <2>5, ReplyStep
    <3>2. Answer' = answer
        BY <3>1 DEF Answer
    <3> QED BY <2>2, <2>5, <3>1, <3>2
  <2>6. CASE got[1] # {} /\ Reply(1, [error |-> NoShare(got[1]), cells |-> got[1]])
      BY <2>5, <2>6
  <2>7. CASE Reply(2, [error |-> FALSE, cells |-> got[2]])
    <3>1. Len(got) = 2
        BY <2>7 DEF Reply, After
    <3>2. Wanting => got[2] # {}
        BY <3>1
    <3> QED BY <2>5, <2>7, <3>2
  <2> QED BY <2>1, <2>3, <2>4, <2>6, <2>7 DEF GetHeatmap
<1> QED BY <1>1, <1>2, <1>3 DEF Next

LEMMA Asks0 ==
    ASSUME Init
    PROVE  ClientOK /\ KnownOK /\ got = <<>> /\ answers = <<>> /\ ~asking
<1>1. got = <<>> /\ answers = <<>> /\ known = {} /\ ~asking
    BY DEF Init
<1>2. <<>> \in Seq({})
    OBVIOUS
<1> QED BY <1>1, <1>2 DEF ClientOK, KnownOK

\* A track with results under the conditions asked for has a heatmap (get_heatmap), unless its
\* race is loaded meanwhile: the fallback reads what the rebuild of the stored cells has not seen.
THEOREM HeatmapsShown == Spec => []HeatmapIsNotBlank
<1> DEFINE Inv == IInv /\ KnownOK /\ HeatmapOK
<1>1. Init => Inv
    BY Initially, Asks0 DEF HeatmapOK
<1>2. Inv /\ [Next]_vars => Inv'
    <2>1. ASSUME Inv, UNCHANGED vars PROVE Inv'
        <3>1. UNCHANGED <<known, client, loaded, got, answers, asking>>
            BY <2>1 DEF vars, clientVars
        <3>2. HeatmapOK'
            BY <2>1, <3>1, StillWanting DEF HeatmapOK, ClientOK, Answer
        <3> QED BY <2>1, <3>2, Stuttered, KnownSame
    <2> QED BY <2>1, StepKept, KnownKept, HeatmapKept
<1>3. Inv => HeatmapIsNotBlank
    BY DEF HeatmapOK, HeatmapIsNotBlank, Answered, Wanting
<1> QED BY <1>1, <1>2, <1>3, PTL DEF Spec

-----------------------------------------------------------------------------
(* Samples of barriers                                                     *)

\* O is the sample as a statement of the request may have found it.
Sampled(O) ==
    /\ \A o \in O : o.entry \in Entries /\ \A p \in O : o.entry = p.entry => o = p
    /\ Unloaded(O) = Kept

RowsOf(O) ==
    {[barrier |-> b,
      total   |-> Cardinality({o \in O : o.row.barrier = b}),
      wins    |-> Cardinality({o \in O : o.row.barrier = b /\ o.row.position = 1})] :
        b \in {o.row.barrier : o \in O}}

RacesIn(O) == {RaceOf[o.entry] : o \in O}

BarriersOK ==
    client.kind = "barriers" =>
        /\ ClientOK
        /\ Len(got) >= 1 => \E O : Sampled(O) /\ got[1] = RowsOf(O)
        /\ Len(got) = 2 => \E O : Sampled(O) /\ got[2] = RacesIn(O)
        /\ answers # <<>> /\ ~asking =>
              /\ \E O : Sampled(O) /\ Answer.rows = RowsOf(O)
              /\ \E O : Sampled(O) /\ Answer.races = Cardinality(RacesIn(O))

LEMMA NowSampled ==
    ASSUME KnownOK, asking
    PROVE  Sampled(Sample)
<1>1. \A o \in Sample : o.entry \in Entries /\ \A p \in Sample : o.entry = p.entry => o = p
    BY OutcomesAre DEF Sample
<1>2. Unloaded(Sample) = Kept
    BY DEF KnownOK, Unloaded, Sample, Kept
<1> QED BY <1>1, <1>2 DEF Sampled

LEMMA StillSampled ==
    ASSUME UNCHANGED <<known, client>>, loaded \subseteq loaded', NEW O, Sampled(O)
    PROVE  Sampled(O)'
<1>1. Unloaded(O)' = {o \in Unloaded(O) : RaceOf[o.entry] \notin loaded'}
    BY DEF Unloaded
<1>2. Kept' = {o \in Kept : RaceOf[o.entry] \notin loaded'}
    BY DEF Kept, Matches
<1> QED BY <1>1, <1>2 DEF Sampled

\* Of a sample there are no more than the kept outcomes and one of every entry loaded since.
LEMMA SampleCounts ==
    ASSUME NEW O, Sampled(O), loaded \subseteq Races, NEW b
    PROVE  LET there == Cardinality({o \in Kept : o.row.barrier = b})
           IN  Cardinality({o \in O : o.row.barrier = b})
                  \in there .. there + Cardinality(LoadedEntries)
<1> DEFINE S == {o \in O : o.row.barrier = b}
           K == {o \in Kept : o.row.barrier = b}
           D == S \ K
           entryOf == [o \in S |-> o.entry]
           entryIn == [o \in D |-> o.entry]
<1>1. K \subseteq S /\ \A o \in D : RaceOf[o.entry] \in loaded
    BY DEF Sampled, Unloaded
<1>2. entryOf \in Injection(S, Entries)
    BY DEF Sampled, Injection, IsInjective
<1>3. entryIn \in Injection(D, LoadedEntries)
    BY <1>1 DEF Sampled, Injection, IsInjective, LoadedEntries
<1>4. IsFiniteSet(LoadedEntries) /\ IsFiniteSet(Entries)
    BY ReadAssumption, FS_Subset DEF LoadedEntries
<1> HIDE DEF S, K, entryOf, entryIn
<1>5. IsFiniteSet(S) /\ IsFiniteSet(D) /\ Cardinality(D) <= Cardinality(LoadedEntries)
    BY <1>2, <1>3, <1>4, FS_Injection
<1>6. IsFiniteSet(K) /\ S = K \cup D /\ K \cap D = {}
    BY <1>1, <1>5, FS_Subset
<1>7. Cardinality(S) = Cardinality(K) + Cardinality(D)
    <2>1. Cardinality(K \cup D) = Cardinality(K) + Cardinality(D) - Cardinality(K \cap D)
        BY <1>5, <1>6, FS_Union
    <2>2. Cardinality(K \cap D) = 0
        BY <1>6, FS_EmptySet
    <2>3. Cardinality(K) \in Nat /\ Cardinality(D) \in Nat
        BY <1>5, <1>6, FS_CardinalityType
    <2> QED BY <1>6, <2>1, <2>2, <2>3
<1>8. /\ Cardinality(K) \in Nat /\ Cardinality(D) \in Nat
      /\ Cardinality(LoadedEntries) \in Nat
    BY <1>4, <1>5, <1>6, FS_CardinalityType
<1>9. Cardinality(S) \in Cardinality(K) .. Cardinality(K) + Cardinality(LoadedEntries)
    BY <1>5, <1>7, <1>8
<1> QED BY <1>9 DEF S, K

LEMMA RacesCount ==
    ASSUME NEW O, Sampled(O), loaded \subseteq Races
    PROVE  LET there == Cardinality({RaceOf[o.entry] : o \in Kept})
           IN  Cardinality(RacesIn(O)) \in there .. there + Cardinality(loaded)
<1> DEFINE K == {RaceOf[o.entry] : o \in Kept}
           R == RacesIn(O)
<1>1. K \subseteq R /\ R \subseteq K \cup loaded
    BY DEF Sampled, Unloaded, RacesIn
<1>2. R \subseteq Races
    BY ReadAssumption DEF Sampled, RacesIn
<1> HIDE DEF K, R
<1>3. IsFiniteSet(Races)
    BY ReadAssumption
<1>4. IsFiniteSet(R) /\ IsFiniteSet(K) /\ IsFiniteSet(loaded)
    BY <1>1, <1>2, <1>3, FS_Subset
<1>5. IsFiniteSet(K \cup loaded) /\ IsFiniteSet(K \cap loaded)
    BY <1>4, FS_Union, FS_Intersection
<1>6. /\ Cardinality(K) <= Cardinality(R)
      /\ Cardinality(R) <= Cardinality(K \cup loaded)
      /\ Cardinality(K \cup loaded) = Cardinality(K) + Cardinality(loaded) - Cardinality(K \cap loaded)
    BY <1>1, <1>4, <1>5, FS_Subset, FS_Union
<1>7. /\ Cardinality(K) \in Nat /\ Cardinality(R) \in Nat /\ Cardinality(loaded) \in Nat
      /\ Cardinality(K \cap loaded) \in Nat
    BY <1>4, <1>5, FS_CardinalityType
<1>8. Cardinality(R) \in Cardinality(K) .. Cardinality(K) + Cardinality(loaded)
    BY <1>6, <1>7
<1> QED BY <1>8 DEF K, R

LEMMA SampleCoversFrom ==
    ASSUME BarriersOK, loaded \subseteq Races
    PROVE  SampleCoversBarriers
<1> SUFFICES ASSUME client.kind = "barriers", answers # <<>>, ~asking PROVE SampleCoversBarriers
    BY DEF SampleCoversBarriers, Answered
<1>1. PICK O : Sampled(O) /\ Answer.rows = RowsOf(O)
    BY DEF BarriersOK
<1>2. PICK P : Sampled(P) /\ Answer.races = Cardinality(RacesIn(P))
    BY DEF BarriersOK
<1>3. ASSUME NEW o \in Kept PROVE \E row \in Answer.rows : row.barrier = o.row.barrier
    <2> DEFINE total(b) == Cardinality({x \in O : x.row.barrier = b})
               wins(b) == Cardinality({x \in O : x.row.barrier = b /\ x.row.position = 1})
               rowOf(b) == [barrier |-> b, total |-> total(b), wins |-> wins(b)]
    <2>1. o \in O
        BY <1>1 DEF Sampled, Unloaded
    <2>2. rowOf(o.row.barrier) \in Answer.rows
        BY <1>1, <2>1 DEF RowsOf
    <2> QED BY <2>2
<1>4. ASSUME NEW row \in Answer.rows
      PROVE  row.total = Cardinality({o \in O : o.row.barrier = row.barrier})
    <2> DEFINE total(b) == Cardinality({x \in O : x.row.barrier = b})
               wins(b) == Cardinality({x \in O : x.row.barrier = b /\ x.row.position = 1})
    <2>1. PICK b : row = [barrier |-> b, total |-> total(b), wins |-> wins(b)]
        BY <1>1, <1>4 DEF RowsOf
    <2> HIDE DEF total, wins
    <2>2. row.barrier = b /\ row.total = total(b)
        BY <2>1
    <2> QED BY <2>2 DEF total
<1> DEFINE there(b) == Cardinality({o \in Kept : o.row.barrier = b})
           races == Cardinality({RaceOf[o.entry] : o \in Kept})
<1>5. ASSUME NEW row \in Answer.rows
      PROVE  row.total \in there(row.barrier) .. there(row.barrier) + Cardinality(LoadedEntries)
    <2>1. \A b : Cardinality({o \in O : o.row.barrier = b})
                    \in there(b) .. there(b) + Cardinality(LoadedEntries)
        BY <1>1, SampleCounts
    <2>2. row.total = Cardinality({o \in O : o.row.barrier = row.barrier})
        BY <1>4, <1>5
    <2> HIDE DEF there
    <2> QED BY <2>1, <2>2
<1>6. Answer.races \in races .. races + Cardinality(loaded)
    BY <1>2, RacesCount
<1> QED BY <1>3, <1>5, <1>6 DEF SampleCoversBarriers

LEMMA BarriersKept ==
    ASSUME IInv, KnownOK, BarriersOK, Next
    PROVE  BarriersOK'
<1> SUFFICES ASSUME client.kind = "barriers" PROVE BarriersOK'
  <2>1. client' = client
      BY ServeReads, LoaderClient DEF Next, Ask, ReadsOnly, clientVars
  <2> QED BY <2>1 DEF BarriersOK
<1> USE DEF BarriersOK
<1>r. \A O : RowsOf(O)' = RowsOf(O) /\ RacesIn(O)' = RacesIn(O)
    BY DEF RowsOf, RacesIn
<1>1. CASE Load
  <2>1. UNCHANGED <<client, got, asking, known, answers>> /\ loaded \subseteq loaded'
      BY <1>1, LoaderSteps DEF clientVars, IInv, Elsewhere
  <2>2. \A O : Sampled(O) => Sampled(O)'
      BY <2>1, StillSampled
  <2> QED BY <2>1, <2>2, <1>r DEF ClientOK, Answer
<1>2. CASE Ask
  <2>1. asking' /\ UNCHANGED <<client, got, answers>> /\ got = <<>>
      BY <1>2 DEF Ask, ClientOK
  <2>2. Len(got') = 0
      BY <2>1
  <2> QED BY <2>1, <2>2 DEF ClientOK
<1>3. CASE Serve
  <2>1. GetBarrierAnalysis /\ asking
      BY <1>3, ServesKind DEF GetBarrierAnalysis, Serving
  <2>2. UNCHANGED <<db, client, known, loaded>>
      BY <1>3, ServeReads DEF ReadsOnly
  <2>3. \A O : Sampled(O) => Sampled(O)'
      BY <2>2, StillSampled
  <2>4. Sampled(Sample) /\ BarrierRows = RowsOf(Sample) /\ SampleRaces = RacesIn(Sample)
      BY <2>1, NowSampled DEF BarrierRows, RowsOf, SampleRaces, RacesIn
  <2>5. CASE Read(1, BarrierRows)
    <3>1. /\ ClientOK' /\ Len(got') = 1 /\ got'[1] = BarrierRows /\ answers' = answers
          /\ asking' = asking
        BY <2>1, <2>5, ReadStep
    <3> QED BY <2>1, <2>3, <2>4, <3>1, <1>r
  <2>6. CASE Read(2, SampleRaces)
    <3>a. Len(got) \in Nat
        BY DEF ClientOK
    <3>b. /\ ClientOK' /\ 2 = Len(got) + 1 /\ Len(got') = 2 /\ got'[2] = SampleRaces
          /\ \A i \in 1..Len(got) : got'[i] = got[i]
          /\ answers' = answers /\ asking' = asking
        BY <2>1, <2>6, ReadStep
    <3>1. Len(got) = 1
      <4>1. \A n \in Nat : 2 = n + 1 => n = 1
          OBVIOUS
      <4> QED BY <3>a, <3>b, <4>1
    <3>2. got'[1] = got[1]
        BY <3>b, <3>1
    <3>3. PICK O : Sampled(O) /\ got[1] = RowsOf(O)
        BY <3>1
    <3>4. (\E P : Sampled(P) /\ got[1] = RowsOf(P))' /\ (\E P : Sampled(P) /\ got[2] = RacesIn(P))'
        BY <2>3, <2>4, <3>b, <3>2, <3>3, <1>r
    <3> QED BY <2>1, <3>b, <3>4
  <2>7. CASE Reply(2, [rows |-> got[1], races |-> Cardinality(got[2])])
    <3> DEFINE answer == [rows |-> got[1], races |-> Cardinality(got[2])]
    <3>1. Len(got) = 2
        BY <2>7 DEF Reply, After
    <3>2. PICK O : Sampled(O) /\ answer.rows = RowsOf(O)
        BY <3>1
    <3>3. PICK P : Sampled(P) /\ answer.races = Cardinality(RacesIn(P))
        BY <3>1
    <3> HIDE DEF answer
    <3>4. /\ ClientOK' /\ got' = <<>> /\ Len(answers') = Len(answers) + 1
          /\ answers'[Len(answers) + 1] = answer
        BY <2>7, ReplyStep DEF answer
    <3>5. Answer' = answer /\ Len(got') = 0
        BY <3>4 DEF Answer
    <3> QED BY <2>3, <3>2, <3>3, <3>4, <3>5, <1>r
  <2> QED BY <2>1, <2>5, <2>6, <2>7 DEF GetBarrierAnalysis
<1> QED BY <1>1, <1>2, <1>3 DEF Next

\* The rows of a barrier analysis and the number of races it says they are of (get_barrier_analysis)
\* are those of the sample there was when the request came in, but for the entries and races loaded
\* since, whatever the filters, and though two statements read them.
THEOREM SamplesCover == Spec => []SampleCoversBarriers
<1> DEFINE Inv == IInv /\ KnownOK /\ BarriersOK
<1>1. Init => Inv
    <2> SUFFICES ASSUME Init PROVE BarriersOK
        BY Initially, Asks0
    <2>1. ClientOK /\ got = <<>> /\ answers = <<>>
        BY Asks0
    <2>2. Len(got) = 0
        BY <2>1
    <2> QED BY <2>1, <2>2 DEF BarriersOK
<1>2. Inv /\ [Next]_vars => Inv'
    <2>1. ASSUME Inv, UNCHANGED vars PROVE Inv'
        <3>1. UNCHANGED <<known, client, loaded, got, answers, asking>>
            BY <2>1 DEF vars, clientVars
        <3>2. \A O : /\ Sampled(O) => Sampled(O)'
                     /\ RowsOf(O)' = RowsOf(O) /\ RacesIn(O)' = RacesIn(O)
            BY <3>1, StillSampled DEF RowsOf, RacesIn
        <3>3. BarriersOK'
            BY <2>1, <3>1, <3>2 DEF BarriersOK, ClientOK, Answer
        <3> QED BY <2>1, <3>3, Stuttered, KnownSame
    <2> QED BY <2>1, StepKept, KnownKept, BarriersKept
<1>3. Inv => SampleCoversBarriers
    BY SampleCoversFrom DEF IInv, LoadOK
<1> QED BY <1>1, <1>2, <1>3, PTL DEF Spec

=============================================================================
