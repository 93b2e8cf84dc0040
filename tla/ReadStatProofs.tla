--------------------------- MODULE ReadStatProofs ---------------------------
(***************************************************************************)
(* ReadApi, for every instance: types, and the answers made of prices,     *)
(* movements, lists and statistics.                                        *)
(***************************************************************************)
EXTENDS ReadApiProofs, SumTheorems, SequenceTheorems

-----------------------------------------------------------------------------
(* The tables and the market                                               *)

\* The fetch the prices may be of: that of a run which has not written its own yet is not among them.
Latest == IF load # NoLoad /\ load.step <= 9 THEN clock - 1 ELSE clock

MarketOK == \A e \in Entries : Marketed(db, e, Latest)

RunOK == load # NoLoad => load.step \in 1..12

Clocked == clock \in Nat /\ clock >= Start

\* What no step takes away, and only a run changes.
Grown ==
    /\ db.listed \subseteq db'.listed /\ db.entered \subseteq db'.entered
    /\ \A e \in Entries :
          /\ db.moves[e] \subseteq db'.moves[e]
          /\ Len(db.snaps[e]) <= Len(db'.snaps[e])
          /\ \A i \in 1..Len(db.snaps[e]) : db'.snaps[e][i] = db.snaps[e][i]

Alike ==
    /\ db'.meeting = db.meeting /\ db'.listed = db.listed /\ db'.race = db.race
    /\ db'.entered = db.entered /\ db'.entry = db.entry /\ db'.scratched = db.scratched
    /\ db'.position = db.position /\ db'.snaps = db.snaps /\ db'.moves = db.moves

\* Races that have not moved are where they were.
Settled ==
    /\ moved \subseteq moved' /\ moved' \subseteq loaded'
    /\ \A r \in db.listed : r \notin moved' => Held(db', r) = Held(db, r)

LEMMA MarketLater ==
    ASSUME NEW t, NEW e, NEW a, NEW b, t \in Tables, e \in Entries, a \in Int, b \in Int, a <= b,
           Marketed(t, e, a)
    PROVE  Marketed(t, e, b)
<1>1. t.snaps[e] \in Seq(Nat \X Nat)
    BY DEF Tables
<1>2. \A i \in DOMAIN t.snaps[e] : t.snaps[e][i][1] \in Nat
    BY <1>1
<1>3. \A i \in DOMAIN t.snaps[e] : t.snaps[e][i][1] <= b
    BY <1>2 DEF Marketed
<1> QED BY <1>3 DEF Marketed

\* Where a step leaves the market of an entry alone, it is only later.
LEMMA SameMarket ==
    ASSUME db' \in Tables, db \in Tables, NEW e \in Entries, Marketed(db, e, Latest),
           Latest \in Int, Latest' \in Int, Latest <= Latest',
           db'.snaps[e] = db.snaps[e], db'.ticks[e] = db.ticks[e],
           db'.moves[e] = db.moves[e], db'.counted[e] = db.counted[e]
    PROVE  Marketed(db', e, Latest')
<1>1. Marketed(db', e, Latest)
    BY DEF Marketed, Firming
<1> QED BY <1>1, MarketLater

LEMMA CommitStep ==
    ASSUME RunOK, Clocked, NEW step, NEW rows, Commit(step, rows)
    PROVE  /\ load # NoLoad /\ db' = rows /\ load.race \in loaded' /\ loaded' # {}
           /\ db \in Tables /\ moved \subseteq loaded => Settled
           /\ RunOK' /\ Clocked' /\ clock' = clock
           /\ Latest \in Int /\ Latest' \in Int /\ Latest <= Latest'
           /\ step = "snapshots" => Latest = clock - 1 /\ Latest' = clock
<1>1. /\ load # NoLoad /\ Steps[load.step] = step /\ db' = rows /\ clock' = clock
      /\ loaded' = loaded \cup {load.race} \cup Moved(rows)
      /\ moved' = moved \cup (db.listed \cap Moved(rows))
      /\ load' = IF load.step = 12 THEN NoLoad ELSE [load EXCEPT !.step = @ + 1]
    BY DEF Commit, Steps
<1>2. load.step \in 1..12
    BY <1>1 DEF RunOK
<1>3. RunOK' /\ Clocked'
    BY <1>1, <1>2 DEF RunOK, Clocked, NoLoad
<1>4. /\ Latest \in Int /\ Latest' \in Int /\ Latest <= Latest'
      /\ load.step = 9 => Latest = clock - 1 /\ Latest' = clock
    BY <1>1, <1>2 DEF Latest, Clocked, NoLoad
<1>5. step = "snapshots" => load.step = 9
    BY <1>1, <1>2 DEF Steps
<1>6. ASSUME db \in Tables, moved \subseteq loaded PROVE Settled
    <2>1. db.listed \subseteq Races
        BY <1>6 DEF Tables
    <2> QED BY <1>1, <1>6, <2>1 DEF Settled, Moved
<1> QED BY <1>1, <1>3, <1>4, <1>5, <1>6

LEMMA Unmoved ==
    ASSUME db \in Tables, db' \in Tables, MarketOK,
           Latest \in Int, Latest' \in Int, Latest <= Latest',
           db'.snaps = db.snaps, db'.ticks = db.ticks, db'.moves = db.moves,
           db'.counted = db.counted,
           db.listed \subseteq db'.listed, db.entered \subseteq db'.entered
    PROVE  MarketOK' /\ Grown
<1>1. MarketOK'
    BY SameMarket DEF MarketOK
<1> QED BY <1>1 DEF Grown

\* The tables a statement leaves.
LEMMA TablesWith ==
    ASSUME db \in Tables
    PROVE  /\ \A x \in SUBSET Races, y \in [Races -> RaceRows], z \in [Races -> {"scheduled", "finished"}] :
                 [db EXCEPT !.listed = x, !.race = y, !.status = z] \in Tables
           /\ \A w \in SUBSET Entries, x \in [Entries -> EntryRows],
              y \in SUBSET Entries, z \in [Entries -> Nullable] :
                 [db EXCEPT !.entered = w, !.entry = x, !.scratched = y, !.position = z] \in Tables
           /\ \A x \in [Meetings -> MeetingRows] : [db EXCEPT !.meeting = x] \in Tables
           /\ \A x \in [Entries -> STRING] : [db EXCEPT !.horse = x] \in Tables
           /\ \A x \in [Entries -> Nullable] : [db EXCEPT !.position = x] \in Tables
           /\ \A x \in [Entries -> Nullable] : [db EXCEPT !.result = x] \in Tables
           /\ \A x \in [Races -> STRING] : [db EXCEPT !.going = x] \in Tables
           /\ \A x \in [Entries -> {NoOutcome} \cup OutcomeRows] : [db EXCEPT !.outcome = x] \in Tables
           /\ \A x \in [Entries -> Seq(Nat \X Nat)] : [db EXCEPT !.snaps = x] \in Tables
           /\ \A x \in [Entries -> SUBSET (Nat \X Nat)] : [db EXCEPT !.ticks = x] \in Tables
           /\ \A x \in [Entries -> SUBSET [at : Nat, from : Nat, to : Nat]] : [db EXCEPT !.moves = x] \in Tables
           /\ \A x \in [Entries -> [firm : Nat, drift : Nat, ticks : Nat]] : [db EXCEPT !.counted = x] \in Tables
           /\ \A x \in SUBSET [entry : Entries, row : OutcomeRows] : [db EXCEPT !.cells = x] \in Tables
<1>1. \A x \in SUBSET Races, y \in [Races -> RaceRows], z \in [Races -> {"scheduled", "finished"}] :
         [db EXCEPT !.listed = x, !.race = y, !.status = z] \in Tables
    BY DEF Tables
<1>2. \A w \in SUBSET Entries, x \in [Entries -> EntryRows],
      y \in SUBSET Entries, z \in [Entries -> Nullable] :
         [db EXCEPT !.entered = w, !.entry = x, !.scratched = y, !.position = z] \in Tables
    BY DEF Tables
<1>3. \A x \in [Meetings -> MeetingRows] : [db EXCEPT !.meeting = x] \in Tables
    BY DEF Tables
<1>4. \A x \in [Entries -> STRING] : [db EXCEPT !.horse = x] \in Tables
    BY DEF Tables
<1>5. \A x \in [Entries -> Nullable] : [db EXCEPT !.position = x] \in Tables
    BY DEF Tables
<1>6. \A x \in [Entries -> Nullable] : [db EXCEPT !.result = x] \in Tables
    BY DEF Tables
<1>7. \A x \in [Races -> STRING] : [db EXCEPT !.going = x] \in Tables
    BY DEF Tables
<1>8. \A x \in [Entries -> {NoOutcome} \cup OutcomeRows] : [db EXCEPT !.outcome = x] \in Tables
    BY DEF Tables
<1>9. \A x \in [Entries -> Seq(Nat \X Nat)] : [db EXCEPT !.snaps = x] \in Tables
    BY DEF Tables
<1>10. \A x \in [Entries -> SUBSET (Nat \X Nat)] : [db EXCEPT !.ticks = x] \in Tables
    BY DEF Tables
<1>11. \A x \in [Entries -> SUBSET [at : Nat, from : Nat, to : Nat]] : [db EXCEPT !.moves = x] \in Tables
    BY DEF Tables
<1>12. \A x \in [Entries -> [firm : Nat, drift : Nat, ticks : Nat]] : [db EXCEPT !.counted = x] \in Tables
    BY DEF Tables
<1>13. \A x \in SUBSET [entry : Entries, row : OutcomeRows] : [db EXCEPT !.cells = x] \in Tables
    BY DEF Tables
<1> QED BY <1>1, <1>2, <1>3, <1>4, <1>5, <1>6, <1>7, <1>8, <1>9, <1>10, <1>11, <1>12, <1>13

LEMMA RunsTyped ==
    ASSUME LoadOK, load # NoLoad
    PROVE  /\ load.race \in Races /\ Document(load.race, load.doc)
           /\ Runs(load.race) \subseteq Entries
           /\ \A e \in Entries : RaceOf[e] = load.race <=> e \in Runs(load.race)
<1>1. load.race \in Races /\ load.doc \in Docs[load.race]
    BY DEF LoadOK
<1> QED BY <1>1, ReadAssumption DEF Runs

\* A column with the rows of the run's race replaced.
LEMMA ColumnTyped ==
    ASSUME LoadOK, load # NoLoad, NEW T, NEW old \in [Entries -> T], NEW new,
           \A e \in Runs(load.race) : new[e] \in T
    PROVE  /\ OfRun(old, new) \in [Entries -> T]
           /\ \A e \in Entries : OfRun(old, new)[e] =
                 IF e \in Runs(load.race) THEN new[e] ELSE old[e]
BY RunsTyped DEF OfRun

\* What a statement of the loader, or the rebuilding of cells, leaves.
Sound == db' \in Tables /\ MarketOK' /\ Grown

Known == db \in Tables /\ MarketOK /\ LoadOK /\ RunOK /\ Clocked

\* A statement that writes none of the market.
LEMMA RowsSound ==
    ASSUME Known, NEW step, NEW rows, Commit(step, rows), rows \in Tables,
           rows.snaps = db.snaps, rows.ticks = db.ticks, rows.moves = db.moves,
           rows.counted = db.counted, db.listed \subseteq rows.listed,
           db.entered \subseteq rows.entered
    PROVE  Sound
<1>1. db' = rows /\ Latest \in Int /\ Latest' \in Int /\ Latest <= Latest'
    BY CommitStep DEF Known
<1> QED BY <1>1, Unmoved DEF Known, Sound

LEMMA MeetingsSound == ASSUME Known, LoadMeetings PROVE Sound
<1> DEFINE x == [db.meeting EXCEPT ![load.doc.race.meeting] = load.doc.meeting]
           rows == [db EXCEPT !.meeting = x]
<1>1. Commit("meetings", rows)
    BY DEF LoadMeetings
<1>2. load # NoLoad
    BY <1>1 DEF Commit
<1>3. load.doc.meeting \in MeetingRows
    BY <1>2, RunsTyped DEF Known, Document
<1>4. x \in [Meetings -> MeetingRows]
    BY <1>3 DEF Known, Tables
<1> HIDE DEF x
<1>5. rows \in Tables
    BY <1>4, TablesWith DEF Known
<1>6. /\ rows.snaps = db.snaps /\ rows.ticks = db.ticks /\ rows.moves = db.moves
      /\ rows.counted = db.counted /\ rows.entered = db.entered /\ rows.listed = db.listed
    BY DEF Known, Tables
<1> HIDE DEF rows
<1> QED BY <1>1, <1>5, <1>6, RowsSound

LEMMA RacesSound == ASSUME Known, LoadRaces PROVE Sound
<1> DEFINE x == db.listed \cup {load.race}
           y == [db.race EXCEPT ![load.race] = load.doc.race]
           z == [db.status EXCEPT ![load.race] = IF @ = "finished" THEN @ ELSE load.doc.status]
           rows == [db EXCEPT !.listed = x, !.race = y, !.status = z]
<1>1. Commit("races", rows)
    BY DEF LoadRaces
<1>2. load # NoLoad
    BY <1>1 DEF Commit
<1>3. load.race \in Races /\ load.doc.status \in {"scheduled", "finished"} /\ load.doc.race \in RaceRows
    BY <1>2, RunsTyped DEF Known, Document
<1>4. /\ db.listed \in SUBSET Races /\ db.status \in [Races -> {"scheduled", "finished"}]
      /\ db.race \in [Races -> RaceRows]
    BY DEF Known, Tables
<1>5. x \in SUBSET Races /\ z \in [Races -> {"scheduled", "finished"}]
    BY <1>3, <1>4
<1>6. y \in [Races -> RaceRows] /\ db.listed \subseteq x
    BY <1>3, <1>4
<1> HIDE DEF x, y, z
<1>7. rows \in Tables
    BY <1>5, <1>6, TablesWith DEF Known
<1>8. /\ rows.snaps = db.snaps /\ rows.ticks = db.ticks /\ rows.moves = db.moves
      /\ rows.counted = db.counted /\ rows.entered = db.entered /\ rows.listed = x
    BY DEF Known, Tables
<1> HIDE DEF rows
<1> QED BY <1>1, <1>6, <1>7, <1>8, RowsSound

LEMMA RunnersSound == ASSUME Known, LoadRunners PROVE Sound
<1> DEFINE new == [e \in Runs(load.race) |->
                      IF load.doc.horse[e] # "" THEN load.doc.horse[e] ELSE db.horse[e]]
           x == OfRun(db.horse, new)
           rows == [db EXCEPT !.horse = x]
<1>1. Commit("runners", rows)
    BY DEF LoadRunners
<1>2. load # NoLoad
    BY <1>1 DEF Commit
<1>3. /\ Runs(load.race) \subseteq Entries
      /\ load.doc.horse \in [Runs(load.race) -> STRING]
    BY <1>2, RunsTyped DEF Known, Document
<1>4. db.horse \in [Entries -> STRING]
    BY DEF Known, Tables
<1>5. \A e \in Runs(load.race) : new[e] \in STRING
    BY <1>3, <1>4
<1> HIDE DEF new
<1>6. x \in [Entries -> STRING]
    BY <1>2, <1>4, <1>5, ColumnTyped DEF Known
<1> HIDE DEF x
<1>7. rows \in Tables
    BY <1>6, TablesWith DEF Known
<1>8. /\ rows.snaps = db.snaps /\ rows.ticks = db.ticks /\ rows.moves = db.moves
      /\ rows.counted = db.counted /\ rows.entered = db.entered /\ rows.listed = db.listed
    BY DEF Known, Tables
<1> HIDE DEF rows
<1> QED BY <1>1, <1>7, <1>8, RowsSound

LEMMA EntriesSound == ASSUME Known, LoadEntries PROVE Sound
<1> DEFINE w == db.entered \cup Runs(load.race)
           x == OfRun(db.entry, load.doc.entry)
           y == (db.scratched \ Runs(load.race)) \cup load.doc.scratched
           z == OfRun(db.position, load.doc.place)
           rows == [db EXCEPT !.entered = w, !.entry = x, !.scratched = y, !.position = z]
<1>1. Commit("entries", rows)
    BY DEF LoadEntries
<1>2. load # NoLoad
    BY <1>1 DEF Commit
<1>3. /\ Runs(load.race) \subseteq Entries /\ load.doc.scratched \subseteq Runs(load.race)
      /\ load.doc.place \in [Runs(load.race) -> Nullable]
      /\ load.doc.entry \in [Runs(load.race) -> EntryRows]
    BY <1>2, RunsTyped DEF Known, Document
<1>4. /\ db.entered \in SUBSET Entries /\ db.scratched \in SUBSET Entries
      /\ db.position \in [Entries -> Nullable] /\ db.entry \in [Entries -> EntryRows]
    BY DEF Known, Tables
<1>5. w \in SUBSET Entries /\ y \in SUBSET Entries
    BY <1>3, <1>4
<1>6. z \in [Entries -> Nullable]
    BY <1>2, <1>3, <1>4, ColumnTyped DEF Known
<1>7. x \in [Entries -> EntryRows]
    BY <1>2, <1>3, <1>4, ColumnTyped DEF Known
<1>8. db.entered \subseteq w
    OBVIOUS
<1> HIDE DEF w, x, y, z
<1>9. rows \in Tables
    BY <1>5, <1>6, <1>7, TablesWith DEF Known
<1>10. /\ rows.snaps = db.snaps /\ rows.ticks = db.ticks /\ rows.moves = db.moves
       /\ rows.counted = db.counted /\ rows.entered = w /\ rows.listed = db.listed
    BY DEF Known, Tables
<1> HIDE DEF rows
<1> QED BY <1>1, <1>8, <1>9, <1>10, RowsSound

LEMMA ResultsSound == ASSUME Known, LoadResults PROVE Sound
<1> DEFINE new == [e \in Runs(load.race) |->
                      IF load.doc.place[e] # Null THEN load.doc.place[e] ELSE db.result[e]]
           x == OfRun(db.result, new)
           rows == [db EXCEPT !.result = x]
<1>1. Commit("results", rows)
    BY DEF LoadResults
<1>2. load # NoLoad
    BY <1>1 DEF Commit
<1>3. /\ Runs(load.race) \subseteq Entries
      /\ load.doc.place \in [Runs(load.race) -> Nullable]
    BY <1>2, RunsTyped DEF Known, Document
<1>4. db.result \in [Entries -> Nullable]
    BY DEF Known, Tables
<1>5. \A e \in Runs(load.race) : new[e] \in Nullable
    BY <1>3, <1>4
<1> HIDE DEF new
<1>6. x \in [Entries -> Nullable]
    BY <1>2, <1>4, <1>5, ColumnTyped DEF Known
<1> HIDE DEF x
<1>7. rows \in Tables
    BY <1>6, TablesWith DEF Known
<1>8. /\ rows.snaps = db.snaps /\ rows.ticks = db.ticks /\ rows.moves = db.moves
      /\ rows.counted = db.counted /\ rows.entered = db.entered /\ rows.listed = db.listed
    BY DEF Known, Tables
<1> HIDE DEF rows
<1> QED BY <1>1, <1>7, <1>8, RowsSound

LEMMA RepairSound == ASSUME Known, RepairEntries PROVE Sound
<1> DEFINE new == [e \in Runs(load.race) |->
                      IF db.result[e] > 0 THEN db.result[e] ELSE db.position[e]]
           x == OfRun(db.position, new)
           rows == [db EXCEPT !.position = x]
<1>1. Commit("repair", rows)
    BY DEF RepairEntries
<1>2. load # NoLoad
    BY <1>1 DEF Commit
<1>3. Runs(load.race) \subseteq Entries
    BY <1>2, RunsTyped DEF Known
<1>4. db.result \in [Entries -> Nullable] /\ db.position \in [Entries -> Nullable]
    BY DEF Known, Tables
<1>5. \A e \in Runs(load.race) : new[e] \in Nullable
    BY <1>3, <1>4
<1> HIDE DEF new
<1>6. x \in [Entries -> Nullable]
    BY <1>2, <1>4, <1>5, ColumnTyped DEF Known
<1> HIDE DEF x
<1>7. rows \in Tables
    BY <1>6, TablesWith DEF Known
<1>8. /\ rows.snaps = db.snaps /\ rows.ticks = db.ticks /\ rows.moves = db.moves
      /\ rows.counted = db.counted /\ rows.entered = db.entered /\ rows.listed = db.listed
    BY DEF Known, Tables
<1> HIDE DEF rows
<1> QED BY <1>1, <1>7, <1>8, RowsSound

LEMMA ConditionsSound == ASSUME Known, LoadConditions PROVE Sound
<1> DEFINE x == [db.going EXCEPT ![load.race] = IF load.doc.going # "" THEN load.doc.going ELSE @]
           rows == [db EXCEPT !.going = x]
<1>1. Commit("conditions", rows)
    BY DEF LoadConditions
<1>2. load # NoLoad
    BY <1>1 DEF Commit
<1>3. load.race \in Races /\ load.doc.going \in STRING
    BY <1>2, RunsTyped DEF Known, Document
<1>4. x \in [Races -> STRING]
    BY <1>3 DEF Known, Tables
<1> HIDE DEF x
<1>5. rows \in Tables
    BY <1>4, TablesWith DEF Known
<1>6. /\ rows.snaps = db.snaps /\ rows.ticks = db.ticks /\ rows.moves = db.moves
      /\ rows.counted = db.counted /\ rows.entered = db.entered /\ rows.listed = db.listed
    BY DEF Known, Tables
<1> HIDE DEF rows
<1> QED BY <1>1, <1>5, <1>6, RowsSound

LEMMA OutcomeTyped ==
    ASSUME Known, load # NoLoad, NEW e \in Eligible
    PROVE  e \in Entries /\ OutcomeRow(e) \in OutcomeRows
<1> DEFINE n == Cardinality(Eligible)
           race == db.race[RaceOf[e]]
           held == Held(db, RaceOf[e])
           row == db.entry[e]
<1>k. db \in Tables
    BY DEF Known
<1>1. Eligible \subseteq Entries
    BY <1>k DEF Eligible, In, Tables
<1>2. n \in Nat
    BY <1>1, ReadAssumption, FS_Subset, FS_CardinalityType
<1>3. e \in Entries /\ RaceOf[e] \in Races
    BY <1>1, ReadAssumption
<1>4. row.barrier \in Nat /\ db.position[e] \in Nat
    BY <1>k, <1>3 DEF Tables, EntryRows, Eligible, Nullable
<1>5. race \in RaceRows /\ race.distance \in Nat
    BY <1>k, <1>3 DEF Tables, RaceRows, Eligible, In, Nullable
<1>6. held \in MeetingRows /\ db.going[RaceOf[e]] \in STRING
    BY <1>k, <1>3, <1>5 DEF Tables, RaceRows, Held
<1>7. OutcomeZone(row.barrier, n) \in Zones
    BY DEF OutcomeZone, Zones
<1>8. OutcomeRow(e) =
         [zone |-> OutcomeZone(row.barrier, n), barrier |-> row.barrier, field |-> n,
          position |-> db.position[e], track |-> held.track, day |-> held.day,
          distance |-> race.distance, class |-> race.class, surface |-> race.surface,
          going |-> db.going[RaceOf[e]]]
    BY DEF OutcomeRow, Track, Day
<1> HIDE DEF n, race, held, row
<1>9. /\ race.class \in STRING /\ race.surface \in STRING
      /\ held.track \in Nat /\ held.day \in Nat
    BY <1>5, <1>6 DEF RaceRows, MeetingRows
<1> QED BY <1>2, <1>3, <1>4, <1>5, <1>6, <1>7, <1>8, <1>9 DEF OutcomeRows

LEMMA OutcomesSound == ASSUME Known, LoadOutcomes PROVE Sound
<1> DEFINE x == [e \in Entries |-> IF e \in Eligible THEN OutcomeRow(e) ELSE db.outcome[e]]
           rows == [db EXCEPT !.outcome = x]
<1>1. Commit("outcomes", rows)
    BY DEF LoadOutcomes
<1>2. load # NoLoad
    BY <1>1 DEF Commit
<1>3. db.outcome \in [Entries -> {NoOutcome} \cup OutcomeRows]
    BY DEF Known, Tables
<1>4. x \in [Entries -> {NoOutcome} \cup OutcomeRows]
    BY <1>2, <1>3, OutcomeTyped
<1> HIDE DEF x
<1>5. rows \in Tables
    BY <1>4, TablesWith DEF Known
<1>6. /\ rows.snaps = db.snaps /\ rows.ticks = db.ticks /\ rows.moves = db.moves
      /\ rows.counted = db.counted /\ rows.entered = db.entered /\ rows.listed = db.listed
    BY DEF Known, Tables
<1> HIDE DEF rows
<1> QED BY <1>1, <1>5, <1>6, RowsSound

\* What statements of the market leave of the rows of other tables.
LEMMA MarketSound ==
    ASSUME Known, NEW step, NEW rows, Commit(step, rows), rows \in Tables,
           rows.listed = db.listed, rows.entered = db.entered,
           \A e \in Entries :
              /\ db.moves[e] \subseteq rows.moves[e]
              /\ Len(db.snaps[e]) <= Len(rows.snaps[e])
              /\ \A i \in 1..Len(db.snaps[e]) : rows.snaps[e][i] = db.snaps[e][i],
           \A e \in Runs(load.race) : Marketed(rows, e, Latest'),
           \A e \in Entries \ Runs(load.race) :
              /\ rows.snaps[e] = db.snaps[e] /\ rows.ticks[e] = db.ticks[e]
              /\ rows.moves[e] = db.moves[e] /\ rows.counted[e] = db.counted[e]
    PROVE  Sound
<1>1. /\ db' = rows /\ Latest \in Int /\ Latest' \in Int /\ Latest <= Latest'
      /\ db \in Tables /\ MarketOK
    BY CommitStep DEF Known
<1>2. \A e \in Entries \ Runs(load.race) : Marketed(rows, e, Latest')
    <2> SUFFICES ASSUME NEW e \in Entries \ Runs(load.race) PROVE Marketed(db', e, Latest')
        BY <1>1
    <2> QED BY <1>1, SameMarket DEF MarketOK
<1>3. MarketOK'
    BY <1>1, <1>2 DEF MarketOK
<1>4. Grown
    BY <1>1 DEF Grown
<1> QED BY <1>1, <1>3, <1>4 DEF Sound

\* A column of the market as a type of rows.
LEMMA MarketTyped ==
    ASSUME db \in Tables
    PROVE  /\ db.snaps \in [Entries -> Seq(Nat \X Nat)]
           /\ db.ticks \in [Entries -> SUBSET (Nat \X Nat)]
           /\ db.moves \in [Entries -> SUBSET [at : Nat, from : Nat, to : Nat]]
           /\ db.counted \in [Entries -> [firm : Nat, drift : Nat, ticks : Nat]]
BY DEF Tables

Series == Seq(Nat \X Nat)

\* Prices in the order they were fetched, until now.
Rising(s, now) ==
    /\ \A i, j \in DOMAIN s : i < j => s[i][1] < s[j][1]
    /\ \A i \in DOMAIN s : s[i][1] <= now

LEMMA AppendedPrice ==
    ASSUME NEW s \in Series, NEW x \in Nat \X Nat, NEW t, t = Append(s, x), Rising(s, x[1] - 1)
    PROVE  /\ t \in Series /\ Rising(t, x[1]) /\ Len(s) <= Len(t)
           /\ \A i \in 1..Len(s) : t[i] = s[i]
<1> USE DEF Series, Rising
<1> DEFINE now == x[1]
<1>1. now \in Nat /\ x[1] = now
    OBVIOUS
<1> HIDE DEF now
<1>2. /\ t \in Seq(Nat \X Nat) /\ Len(t) = Len(s) + 1 /\ DOMAIN t = 1..Len(s) + 1
      /\ DOMAIN s = 1..Len(s) /\ Len(s) \in Nat
      /\ t[Len(s) + 1] = x /\ \A i \in 1..Len(s) : t[i] = s[i]
    BY <1>1
<1>3. \A i \in 1..Len(s) : s[i] \in Nat \X Nat /\ s[i][1] \in Nat
    OBVIOUS
<1>4. \A i \in DOMAIN t : i \in 1..Len(s) \/ i = Len(s) + 1
    BY <1>2
<1>5. ASSUME NEW i \in DOMAIN t PROVE t[i][1] <= now
    <2>1. CASE i \in 1..Len(s)
        <3>1. t[i] = s[i] /\ s[i][1] \in Nat /\ s[i][1] <= now - 1
            BY <1>1, <1>2, <1>3, <2>1
        <3> QED BY <1>1, <3>1
    <2>2. CASE i = Len(s) + 1
        <3>1. t[i][1] = now
            BY <1>1, <1>2, <2>2
        <3> QED BY <1>1, <3>1
    <2> QED BY <1>4, <2>1, <2>2
<1>6. ASSUME NEW i \in DOMAIN t, NEW j \in DOMAIN t, i < j PROVE t[i][1] < t[j][1]
    <2>1. i \in 1..Len(s)
        BY <1>2, <1>6
    <2>2. CASE j \in 1..Len(s)
        BY <1>2, <1>6, <2>1, <2>2
    <2>3. CASE j = Len(s) + 1
        BY <1>1, <1>2, <1>3, <2>1, <2>3
    <2> QED BY <1>4, <2>2, <2>3
<1> QED BY <1>2, <1>5, <1>6

LEMMA SnapshotsSound == ASSUME Known, LoadSnapshots PROVE Sound
<1> DEFINE new == [e \in Runs(load.race) |->
                      IF load.doc.price[e] > 0 THEN Append(db.snaps[e], <<clock, load.doc.price[e]>>)
                                               ELSE db.snaps[e]]
           x == OfRun(db.snaps, new)
           rows == [db EXCEPT !.snaps = x]
<1>k. db \in Tables /\ LoadOK /\ RunOK /\ Clocked /\ MarketOK
    BY DEF Known
<1>1. Commit("snapshots", rows)
    BY DEF LoadSnapshots
<1>2. load # NoLoad /\ Latest = clock - 1 /\ Latest' = clock /\ clock \in Nat
    BY <1>1, <1>k, CommitStep DEF Clocked
<1>3. /\ Runs(load.race) \subseteq Entries
      /\ load.doc.price \in [Runs(load.race) -> Nat]
    BY <1>k, <1>2, RunsTyped DEF Document
<1>4. db.snaps \in [Entries -> Series]
    BY <1>k, MarketTyped DEF Series
<1>5. ASSUME NEW e \in Runs(load.race)
      PROVE  /\ new[e] \in Series /\ Rising(new[e], clock) /\ Len(db.snaps[e]) <= Len(new[e])
             /\ \A i \in 1..Len(db.snaps[e]) : new[e][i] = db.snaps[e][i]
    <2>1. e \in Entries /\ load.doc.price[e] \in Nat /\ db.snaps[e] \in Series
        BY <1>3, <1>4
    <2>2. Rising(db.snaps[e], clock - 1)
        BY <1>k, <1>2, <2>1 DEF MarketOK, Marketed, Rising
    <2>3. CASE load.doc.price[e] > 0
        <3>1. new[e] = Append(db.snaps[e], <<clock, load.doc.price[e]>>)
            BY <2>3
        <3> HIDE DEF new
        <3> DEFINE s == db.snaps[e]
                   t == new[e]
                   last == <<clock, load.doc.price[e]>>
        <3>2. last \in Nat \X Nat /\ last[1] = clock
            BY <1>2, <2>1
        <3>3. s \in Series /\ Rising(s, last[1] - 1) /\ t = Append(s, last)
            BY <2>1, <2>2, <3>1, <3>2
        <3> HIDE DEF s, t, last
        <3>4. /\ t \in Series /\ Rising(t, last[1]) /\ Len(s) <= Len(t)
              /\ \A i \in 1..Len(s) : t[i] = s[i]
            BY <3>2, <3>3, AppendedPrice
        <3> QED BY <3>2, <3>4 DEF s, t
    <2>4. CASE ~(load.doc.price[e] > 0)
        <3>1. new[e] = db.snaps[e]
            BY <2>4
        <3>2. \A i \in DOMAIN db.snaps[e] : db.snaps[e][i][1] \in Nat
            BY <2>1 DEF Series
        <3> HIDE DEF new
        <3>3. Len(db.snaps[e]) \in Nat
            BY <2>1 DEF Series
        <3> QED BY <1>2, <2>1, <2>2, <3>1, <3>2, <3>3 DEF Rising
    <2> QED BY <2>3, <2>4
<1> HIDE DEF new
<1>5a. \A e \in Runs(load.race) : new[e] \in Series
    BY <1>5
<1>6a. x \in [Entries -> Series]
    BY <1>k, <1>2, <1>4, <1>5a, ColumnTyped
<1>6b. \A e \in Entries : x[e] = IF e \in Runs(load.race) THEN new[e] ELSE db.snaps[e]
    BY <1>k, <1>2, RunsTyped DEF OfRun
<1>6. /\ x \in [Entries -> Series]
      /\ \A e \in Entries : x[e] = IF e \in Runs(load.race) THEN new[e] ELSE db.snaps[e]
    BY <1>6a, <1>6b
<1> HIDE DEF x
<1>7. rows \in Tables
    BY <1>k, <1>6, TablesWith DEF Series
<1>8. /\ rows.snaps = x /\ rows.ticks = db.ticks /\ rows.moves = db.moves
      /\ rows.counted = db.counted /\ rows.listed = db.listed /\ rows.entered = db.entered
    BY <1>k DEF Tables
<1> HIDE DEF rows
<1>9. ASSUME NEW e \in Runs(load.race) PROVE Marketed(rows, e, Latest')
    <2>1. Marketed(db, e, Latest) /\ rows.snaps[e] = new[e]
        BY <1>k, <1>3, <1>6, <1>8 DEF MarketOK
    <2> QED BY <1>2, <1>5, <1>8, <2>1 DEF Marketed, Firming, Rising
<1>10. \A e \in Entries :
         /\ Len(db.snaps[e]) <= Len(x[e])
         /\ \A i \in 1..Len(db.snaps[e]) : x[e][i] = db.snaps[e][i]
    <2> SUFFICES ASSUME NEW e \in Entries
                 PROVE  /\ Len(db.snaps[e]) <= Len(x[e])
                        /\ \A i \in 1..Len(db.snaps[e]) : x[e][i] = db.snaps[e][i]
        OBVIOUS
    <2>1. CASE e \in Runs(load.race)
        BY <1>5, <1>6, <2>1
    <2>2. CASE e \notin Runs(load.race)
        BY <1>4, <1>6, <2>2 DEF Series
    <2> QED BY <2>1, <2>2
<1> QED BY <1>1, <1>6, <1>7, <1>8, <1>9, <1>10, MarketSound

Ticks == SUBSET (Nat \X Nat)
Moves == SUBSET [at : Nat, from : Nat, to : Nat]

LEMMA TicksSound == ASSUME Known, LoadTicks PROVE Sound
<1> DEFINE late(e) == {t \in {<<clock, load.doc.price[e]>>} \cup load.doc.flucs[e] : t[2] > 0}
           new == [e \in Runs(load.race) |-> db.ticks[e] \cup late(e)]
           x == OfRun(db.ticks, new)
           rows == [db EXCEPT !.ticks = x]
<1>k. db \in Tables /\ LoadOK /\ RunOK /\ Clocked /\ MarketOK
    BY DEF Known
<1>1. Commit("ticks", rows)
    BY DEF LoadTicks
<1>2. /\ load # NoLoad /\ clock \in Nat /\ db' = rows
      /\ Latest \in Int /\ Latest' \in Int /\ Latest <= Latest'
    BY <1>1, <1>k, CommitStep DEF Clocked
<1>3. /\ Runs(load.race) \subseteq Entries
      /\ load.doc.price \in [Runs(load.race) -> Nat]
      /\ \A e \in Runs(load.race) : load.doc.flucs[e] \subseteq Nat \X Nat
                                    /\ IsFiniteSet(load.doc.flucs[e])
    BY <1>k, <1>2, RunsTyped DEF Document
<1>4. db.ticks \in [Entries -> Ticks]
    BY <1>k, MarketTyped DEF Ticks
<1>5. ASSUME NEW e \in Runs(load.race)
      PROVE  new[e] \in Ticks /\ IsFiniteSet(new[e])
    <2> DEFINE p == <<clock, load.doc.price[e]>>
               all == {p} \cup load.doc.flucs[e]
    <2>1. p \in Nat \X Nat
        BY <1>2, <1>3
    <2> HIDE DEF p
    <2>2. all \subseteq Nat \X Nat /\ IsFiniteSet(all)
        <3>1. IsFiniteSet({p})
            BY FS_Singleton
        <3>2. IsFiniteSet(load.doc.flucs[e])
            BY <1>3
        <3> QED BY <1>3, <2>1, <3>1, <3>2, FS_Union
    <2>3. late(e) \subseteq all
        BY DEF p
    <2> HIDE DEF all
    <2>4. late(e) \subseteq Nat \X Nat /\ IsFiniteSet(late(e))
        BY <2>2, <2>3, FS_Subset
    <2> HIDE DEF late
    <2>5. db.ticks[e] \in Ticks /\ IsFiniteSet(db.ticks[e])
        BY <1>k, <1>3, <1>4 DEF MarketOK, Marketed
    <2>6. IsFiniteSet(db.ticks[e] \cup late(e))
        BY <2>4, <2>5, FS_Union
    <2> QED BY <2>4, <2>5, <2>6 DEF Ticks
<1> HIDE DEF new
<1>6. \A e \in Runs(load.race) : new[e] \in Ticks
    BY <1>5
<1>7. x \in [Entries -> Ticks]
    BY <1>k, <1>2, <1>4, <1>6, ColumnTyped
<1>8. \A e \in Entries : x[e] = IF e \in Runs(load.race) THEN new[e] ELSE db.ticks[e]
    BY <1>k, <1>2, RunsTyped DEF OfRun
<1> HIDE DEF x
<1>9. rows \in Tables
    BY <1>k, <1>7, TablesWith DEF Ticks
<1>10. /\ rows.ticks = x /\ rows.snaps = db.snaps /\ rows.moves = db.moves
       /\ rows.counted = db.counted /\ rows.listed = db.listed /\ rows.entered = db.entered
    BY <1>k DEF Tables
<1> HIDE DEF rows
<1>11. ASSUME NEW e \in Runs(load.race) PROVE Marketed(rows, e, Latest')
    <2>1. e \in Entries /\ Marketed(db, e, Latest) /\ rows.ticks[e] = new[e]
        BY <1>k, <1>3, <1>8, <1>10 DEF MarketOK
    <2>2. Marketed(rows, e, Latest)
        BY <1>5, <1>10, <2>1 DEF Marketed, Firming
    <2> QED BY <1>2, <1>9, <2>1, <2>2, MarketLater
<1> QED BY <1>1, <1>8, <1>9, <1>10, <1>11, MarketSound

LEMMA MovesTyped ==
    ASSUME NEW ticks \in Ticks, IsFiniteSet(ticks)
    PROVE  /\ MovesIn(ticks) \in Moves /\ IsFiniteSet(MovesIn(ticks))
           /\ \A m \in MovesIn(ticks) : m.from # m.to
<1> DEFINE pairs == {q \in ticks \X ticks :
                        /\ q[1][1] < q[2][1]
                        /\ q[1][2] # q[2][2]
                        /\ ~\E u \in ticks : q[1][1] < u[1] /\ u[1] < q[2][1]}
           move == [p \in pairs |-> [at |-> p[2][1], from |-> p[1][2], to |-> p[2][2]]]
<1>1. \A p \in pairs : p \in ticks \X ticks /\ p[1][2] # p[2][2]
    OBVIOUS
<1>2. MovesIn(ticks) = {move[p] : p \in pairs}
    BY DEF MovesIn
<1>3. IsFiniteSet(pairs)
    <2>1. IsFiniteSet(ticks \X ticks)
        BY FS_Product
    <2> QED BY <2>1, <1>1, FS_Subset
<1>4. \A p \in pairs : /\ move[p] = [at |-> p[2][1], from |-> p[1][2], to |-> p[2][2]]
                       /\ p[1] \in Nat \X Nat /\ p[2] \in Nat \X Nat
    BY <1>1 DEF Ticks
<1>5. DOMAIN move = pairs /\ move = [p \in pairs |-> move[p]]
    OBVIOUS
<1> HIDE DEF pairs, move
<1>6. move \in Surjection(pairs, MovesIn(ticks))
    BY <1>2, <1>5 DEF Surjection
<1>7. IsFiniteSet(MovesIn(ticks))
    BY <1>3, <1>6, FS_Surjection
<1>8. ASSUME NEW p \in pairs
      PROVE  move[p] \in [at : Nat, from : Nat, to : Nat] /\ move[p].from # move[p].to
    <2> DEFINE at == p[2][1]
               from == p[1][2]
               to == p[2][2]
    <2>1. at \in Nat /\ from \in Nat /\ to \in Nat /\ from # to
        BY <1>1, <1>4
    <2>2. move[p] = [at |-> at, from |-> from, to |-> to]
        BY <1>4
    <2> HIDE DEF at, from, to
    <2> QED BY <2>1, <2>2
<1> QED BY <1>2, <1>7, <1>8 DEF Moves

LEMMA MovementsSound == ASSUME Known, LoadMovements PROVE Sound
<1> DEFINE new == [e \in Runs(load.race) |-> db.moves[e] \cup MovesIn(db.ticks[e])]
           x == OfRun(db.moves, new)
           rows == [db EXCEPT !.moves = x]
<1>k. db \in Tables /\ LoadOK /\ RunOK /\ Clocked /\ MarketOK
    BY DEF Known
<1>1. Commit("movements", rows)
    BY DEF LoadMovements
<1>2. /\ load # NoLoad /\ db' = rows
      /\ Latest \in Int /\ Latest' \in Int /\ Latest <= Latest'
    BY <1>1, <1>k, CommitStep
<1>3. Runs(load.race) \subseteq Entries
    BY <1>k, <1>2, RunsTyped
<1>4. db.moves \in [Entries -> Moves] /\ db.ticks \in [Entries -> Ticks]
    BY <1>k, MarketTyped DEF Moves, Ticks
<1>5. ASSUME NEW e \in Runs(load.race)
      PROVE  /\ new[e] \in Moves /\ IsFiniteSet(new[e]) /\ db.moves[e] \subseteq new[e]
             /\ \A m \in new[e] : m.from # m.to
    <2>1. /\ e \in Entries /\ IsFiniteSet(db.ticks[e]) /\ db.ticks[e] \in Ticks
          /\ IsFiniteSet(db.moves[e]) /\ db.moves[e] \in Moves
          /\ \A m \in db.moves[e] : m.from # m.to
        BY <1>k, <1>3, <1>4 DEF MarketOK, Marketed
    <2> DEFINE more == MovesIn(db.ticks[e])
    <2>2. more \in Moves /\ IsFiniteSet(more) /\ \A m \in more : m.from # m.to
        BY <2>1, MovesTyped
    <2>3. new[e] = db.moves[e] \cup more
        OBVIOUS
    <2> HIDE DEF more, new
    <2>4. IsFiniteSet(db.moves[e] \cup more)
        BY <2>1, <2>2, FS_Union
    <2> QED BY <2>1, <2>2, <2>3, <2>4 DEF Moves
<1> HIDE DEF new
<1>6. \A e \in Runs(load.race) : new[e] \in Moves
    BY <1>5
<1>7. x \in [Entries -> Moves]
    BY <1>k, <1>2, <1>4, <1>6, ColumnTyped
<1>8. \A e \in Entries : x[e] = IF e \in Runs(load.race) THEN new[e] ELSE db.moves[e]
    BY <1>k, <1>2, RunsTyped DEF OfRun
<1> HIDE DEF x
<1>9. rows \in Tables
    BY <1>k, <1>7, TablesWith DEF Moves
<1>10. /\ rows.moves = x /\ rows.snaps = db.snaps /\ rows.ticks = db.ticks
       /\ rows.counted = db.counted /\ rows.listed = db.listed /\ rows.entered = db.entered
    BY <1>k DEF Tables
<1> HIDE DEF rows
<1>11. ASSUME NEW e \in Runs(load.race) PROVE Marketed(rows, e, Latest')
    <2>1. e \in Entries /\ Marketed(db, e, Latest) /\ rows.moves[e] = new[e]
        BY <1>k, <1>3, <1>8, <1>10 DEF MarketOK
    <2> DEFINE old == db.moves[e]
               firm == Firming(old)
               firmer == Firming(new[e])
    <2>2. /\ firm \subseteq firmer /\ firmer \subseteq new[e]
          /\ old \ firm \subseteq new[e] \ firmer /\ new[e] \ firmer \subseteq new[e]
        BY <1>5 DEF Firming
    <2>3. IsFiniteSet(firmer) /\ IsFiniteSet(new[e] \ firmer)
        BY <1>5, <2>2, FS_Subset
    <2>4. /\ Cardinality(firm) \in Nat /\ Cardinality(old \ firm) \in Nat
          /\ Cardinality(firmer) \in Nat /\ Cardinality(new[e] \ firmer) \in Nat
          /\ Cardinality(firm) <= Cardinality(firmer)
          /\ Cardinality(old \ firm) <= Cardinality(new[e] \ firmer)
        BY <2>2, <2>3, FS_Subset, FS_CardinalityType
    <2>5. db.counted[e].firm \in Nat /\ db.counted[e].drift \in Nat
        BY <1>k, <2>1, MarketTyped
    <2>6. db.counted[e].firm <= Cardinality(firm) /\ db.counted[e].drift <= Cardinality(old \ firm)
        BY <2>1 DEF Marketed
    <2>7. /\ db.counted[e].firm <= Cardinality(firmer)
          /\ db.counted[e].drift <= Cardinality(new[e] \ firmer)
        BY <2>4, <2>5, <2>6
    <2>8. Marketed(rows, e, Latest)
        BY <1>5, <1>10, <2>1, <2>7 DEF Marketed
    <2> QED BY <1>2, <1>9, <2>1, <2>8, MarketLater
<1>12. \A e \in Entries : db.moves[e] \subseteq x[e]
    BY <1>5, <1>8
<1> QED BY <1>1, <1>8, <1>9, <1>10, <1>11, <1>12, MarketSound

LEMMA AnalyticsSound == ASSUME Known, LoadAnalytics PROVE Sound
<1> DEFINE count(e) == [firm  |-> Cardinality(Firming(db.moves[e])),
                        drift |-> Cardinality(db.moves[e] \ Firming(db.moves[e])),
                        ticks |-> Cardinality(db.ticks[e])]
           new == [e \in Runs(load.race) |-> IF db.ticks[e] = {} THEN db.counted[e] ELSE count(e)]
           x == OfRun(db.counted, new)
           rows == [db EXCEPT !.counted = x]
           Counts == [firm : Nat, drift : Nat, ticks : Nat]
<1>k. db \in Tables /\ LoadOK /\ RunOK /\ Clocked /\ MarketOK
    BY DEF Known
<1>1. Commit("analytics", rows)
    BY DEF LoadAnalytics
<1>2. /\ load # NoLoad /\ db' = rows
      /\ Latest \in Int /\ Latest' \in Int /\ Latest <= Latest'
    BY <1>1, <1>k, CommitStep
<1>3. Runs(load.race) \subseteq Entries
    BY <1>k, <1>2, RunsTyped
<1>4. db.counted \in [Entries -> Counts]
    BY <1>k, MarketTyped
<1>5. ASSUME NEW e \in Runs(load.race)
      PROVE  /\ new[e] \in Counts
             /\ new[e].firm <= Cardinality(Firming(db.moves[e]))
             /\ new[e].drift <= Cardinality(db.moves[e] \ Firming(db.moves[e]))
    <2>1. /\ e \in Entries /\ IsFiniteSet(db.ticks[e]) /\ IsFiniteSet(db.moves[e])
          /\ db.counted[e].firm <= Cardinality(Firming(db.moves[e]))
          /\ db.counted[e].drift <= Cardinality(db.moves[e] \ Firming(db.moves[e]))
        BY <1>k, <1>3 DEF MarketOK, Marketed
    <2>2. Firming(db.moves[e]) \subseteq db.moves[e]
        BY DEF Firming
    <2> DEFINE firm == Firming(db.moves[e])
               drift == db.moves[e] \ Firming(db.moves[e])
    <2>3. IsFiniteSet(firm) /\ IsFiniteSet(drift)
        BY <2>1, <2>2, FS_Subset
    <2>4. Cardinality(firm) \in Nat /\ Cardinality(drift) \in Nat /\ Cardinality(db.ticks[e]) \in Nat
        BY <2>1, <2>3, FS_CardinalityType
    <2>5. new[e] = IF db.ticks[e] = {} THEN db.counted[e]
                   ELSE [firm |-> Cardinality(firm), drift |-> Cardinality(drift),
                         ticks |-> Cardinality(db.ticks[e])]
        OBVIOUS
    <2> HIDE DEF firm, drift, new
    <2>6. CASE db.ticks[e] = {}
        BY <1>4, <2>1, <2>5, <2>6
    <2>7. CASE db.ticks[e] # {}
        BY <2>4, <2>5, <2>7 DEF firm, drift
    <2> QED BY <2>6, <2>7
<1> HIDE DEF new, Counts
<1>6. \A e \in Runs(load.race) : new[e] \in Counts
    BY <1>5
<1>7. x \in [Entries -> Counts]
    BY <1>k, <1>2, <1>4, <1>6, ColumnTyped
<1>8. \A e \in Entries : x[e] = IF e \in Runs(load.race) THEN new[e] ELSE db.counted[e]
    BY <1>k, <1>2, RunsTyped DEF OfRun
<1> HIDE DEF x
<1>9. rows \in Tables
    BY <1>k, <1>7, TablesWith DEF Counts
<1>10. /\ rows.counted = x /\ rows.snaps = db.snaps /\ rows.ticks = db.ticks
       /\ rows.moves = db.moves /\ rows.listed = db.listed /\ rows.entered = db.entered
    BY <1>k DEF Tables
<1> HIDE DEF rows
<1>11. ASSUME NEW e \in Runs(load.race) PROVE Marketed(rows, e, Latest')
    <2>1. e \in Entries /\ Marketed(db, e, Latest) /\ rows.counted[e] = new[e]
        BY <1>k, <1>3, <1>8, <1>10 DEF MarketOK
    <2>2. Marketed(rows, e, Latest)
        BY <1>5, <1>10, <2>1 DEF Marketed
    <2> QED BY <1>2, <1>9, <2>1, <2>2, MarketLater
<1> QED BY <1>1, <1>8, <1>9, <1>10, <1>11, MarketSound

LEMMA GoingTyped ==
    ASSUME NEW row \in OutcomeRows
    PROVE  [row EXCEPT !.going = Going(@)] \in OutcomeRows
<1> DEFINE Goings == STRING \cup {"unknown"}
           going == Going(row.going)
<1>1. row.going \in Goings /\ "unknown" \in Goings
    BY DEF OutcomeRows
<1> HIDE DEF Goings
<1>2. Going(row.going) \in Goings
    BY <1>1 DEF Going
<1> HIDE DEF going
<1>3. ASSUME going \in Goings PROVE [row EXCEPT !.going = going] \in OutcomeRows
    BY <1>3 DEF OutcomeRows, Goings
<1>4. going \in Goings
    BY <1>2 DEF going
<1>5. [row EXCEPT !.going = going] \in OutcomeRows
    BY <1>3, <1>4
<1> QED BY <1>5 DEF going

LEMMA CellsSound ==
    ASSUME Known, RebuildCells
    PROVE  Sound /\ RunOK' /\ Clocked' /\ Alike /\ UNCHANGED <<loaded, moved>>
<1> DEFINE kept(o) == [o EXCEPT !.row.going = Going(@)]
           x == {kept(o) : o \in {p \in Outcomes : p.row.position > 0}}
<1>k. db \in Tables /\ RunOK /\ Clocked /\ MarketOK
    BY DEF Known
<1>1. db' = [db EXCEPT !.cells = x] /\ UNCHANGED <<load, clock, loaded, moved>>
    BY DEF RebuildCells
<1>2. db.outcome \in [Entries -> {NoOutcome} \cup OutcomeRows]
    BY <1>k DEF Tables
<1>3. ASSUME NEW e \in Entries, db.outcome[e] # NoOutcome,
             NEW o, o = [entry |-> e, row |-> db.outcome[e]]
      PROVE  kept(o) \in [entry : Entries, row : OutcomeRows]
    <2>1. db.outcome[e] \in OutcomeRows
        BY <1>2, <1>3
    <2>2. kept(o) = [entry |-> e, row |-> [db.outcome[e] EXCEPT !.going = Going(@)]]
        BY <1>3
    <2> QED BY <2>1, <2>2, GoingTyped
<1> HIDE DEF kept
<1>4. x \in SUBSET [entry : Entries, row : OutcomeRows]
    BY <1>3 DEF Outcomes
<1> HIDE DEF x
<1>5. db' \in Tables
    BY <1>k, <1>1, <1>4, TablesWith
<1>6. /\ db'.snaps = db.snaps /\ db'.ticks = db.ticks /\ db'.moves = db.moves
      /\ db'.counted = db.counted /\ Alike
    BY <1>k, <1>1 DEF Tables, Alike
<1>7. Latest \in Int /\ Latest' = Latest
    BY <1>k, <1>1 DEF Latest, Clocked, RunOK
<1> QED BY <1>k, <1>1, <1>5, <1>6, <1>7, Unmoved DEF Sound, RunOK, Clocked, Alike

LEMMA UnmovedTables ==
    ASSUME Known, db' = db, Latest \in Int, Latest' \in Int, Latest <= Latest'
    PROVE  Sound /\ Alike
BY Unmoved DEF Known, Sound, Alike

LEMMA LoaderSound ==
    ASSUME Known, Load
    PROVE  /\ Sound /\ RunOK' /\ Clocked'
           /\ loaded' = {} => Alike
           /\ moved \subseteq loaded => Settled
<1>k. RunOK /\ Clocked
    BY DEF Known
<1>a. ASSUME NEW step, NEW rows, Commit(step, rows), Sound
      PROVE  /\ Sound /\ RunOK' /\ Clocked' /\ (loaded' = {} => Alike)
             /\ moved \subseteq loaded => Settled
    BY <1>k, <1>a, CommitStep DEF Known
<1>b. ASSUME UNCHANGED <<db, loaded, moved>> PROVE moved \subseteq loaded => Settled
    BY <1>b DEF Settled, Held
<1>1. CASE StartLoad
    <2>1. /\ db' = db /\ load'.step = 1 /\ clock' = clock + 1 /\ load = NoLoad
          /\ UNCHANGED <<db, loaded, moved>>
        BY <1>1 DEF StartLoad
    <2>2. Start \in Nat
        BY ReadAssumption
    <2>3. RunOK' /\ Clocked'
        BY <1>k, <2>1, <2>2 DEF RunOK, Clocked
    <2>4. Latest = clock /\ Latest' \in {clock' - 1, clock'} /\ clock \in Nat
        BY <1>k, <2>1 DEF Latest, Clocked
    <2>5. Latest \in Int /\ Latest' \in Int /\ Latest <= Latest'
        BY <2>1, <2>4
    <2> QED BY <1>b, <2>1, <2>3, <2>5, UnmovedTables
<1>2. CASE LoadFails
    <2>1. db' = db /\ load' = NoLoad /\ UNCHANGED <<clock, db, loaded, moved>>
        BY <1>2 DEF LoadFails
    <2>2. RunOK' /\ Clocked'
        BY <1>k, <2>1 DEF RunOK, Clocked
    <2>3. Latest \in Int /\ Latest' \in Int /\ Latest <= Latest'
        BY <1>k, <2>1 DEF Latest, Clocked, RunOK
    <2> QED BY <1>b, <2>1, <2>2, <2>3, UnmovedTables
<1>3. CASE RebuildCells
    BY <1>3, CellsSound DEF Settled, Alike, Held
<1>4. CASE LoadMeetings
    BY <1>4, <1>a, MeetingsSound DEF LoadMeetings
<1>5. CASE LoadRaces
    BY <1>5, <1>a, RacesSound DEF LoadRaces
<1>6. CASE LoadRunners
    BY <1>6, <1>a, RunnersSound DEF LoadRunners
<1>7. CASE LoadEntries
    BY <1>7, <1>a, EntriesSound DEF LoadEntries
<1>8. CASE LoadResults
    BY <1>8, <1>a, ResultsSound DEF LoadResults
<1>9. CASE RepairEntries
    BY <1>9, <1>a, RepairSound DEF RepairEntries
<1>10. CASE LoadConditions
    BY <1>10, <1>a, ConditionsSound DEF LoadConditions
<1>11. CASE LoadOutcomes
    BY <1>11, <1>a, OutcomesSound DEF LoadOutcomes
<1>12. CASE LoadSnapshots
    BY <1>12, <1>a, SnapshotsSound DEF LoadSnapshots
<1>13. CASE LoadTicks
    BY <1>13, <1>a, TicksSound DEF LoadTicks
<1>14. CASE LoadMovements
    BY <1>14, <1>a, MovementsSound DEF LoadMovements
<1>15. CASE LoadAnalytics
    BY <1>15, <1>a, AnalyticsSound DEF LoadAnalytics
<1> QED
    BY <1>1, <1>2, <1>3, <1>4, <1>5, <1>6, <1>7, <1>8, <1>9, <1>10, <1>11, <1>12, <1>13,
       <1>14, <1>15 DEF Load

-----------------------------------------------------------------------------
(* Requests                                                                *)

AReads == \E n \in Nat : \E rows : Read(n, rows)
AReplies == \E n \in Nat : \E answer : Reply(n, answer)

\* A step of a handler is a statement or the answer.
LEMMA ServeStep ==
    ASSUME Serve
    PROVE  asking /\ (AReads \/ AReplies)
<1> USE DEF Serving
<1>1. ASSUME NEW n \in Nat, NEW rows, Read(n, rows) PROVE AReads
    BY <1>1 DEF AReads
<1>2. ASSUME NEW n \in Nat, NEW results, ReadAny(n, results) PROVE AReads
    BY <1>1, <1>2 DEF ReadAny
<1>3. ASSUME NEW n \in Nat, NEW rows, ReadNext(n, rows) PROVE AReads
    BY <1>1, <1>3 DEF ReadNext
<1>4. ASSUME NEW n \in Nat, NEW answer, Reply(n, answer) PROVE AReplies
    BY <1>4 DEF AReplies
<1>5. Missing => AReplies
    BY <1>4 DEF Missing
<1>11. CASE GetRace
    BY <1>1, <1>3, <1>4, <1>5, <1>11 DEF GetRace
<1>12. CASE GetRaceOdds
    BY <1>1, <1>3, <1>4, <1>5, <1>12 DEF GetRaceOdds
<1>13. CASE GetOddsAnalysis
    BY <1>1, <1>2, <1>3, <1>4, <1>5, <1>13 DEF GetOddsAnalysis
<1>14. CASE GetBarrierContext
    BY <1>1, <1>3, <1>4, <1>5, <1>14 DEF GetBarrierContext
<1>15. CASE GetRunnerFit
    BY <1>1, <1>3, <1>4, <1>5, <1>15 DEF GetRunnerFit
<1>16. CASE ListRaces
    BY <1>2, <1>4, <1>16 DEF ListRaces
<1>17. CASE GetPeopleRates
    BY <1>2, <1>4, <1>17 DEF GetPeopleRates
<1>18. CASE GetRacingPulse
    BY <1>1, <1>2, <1>4, <1>18 DEF GetRacingPulse
<1>19. CASE GetBarrierAnalysis
    BY <1>1, <1>4, <1>19 DEF GetBarrierAnalysis
<1>20. CASE GetHeatmap
    BY <1>1, <1>4, <1>20 DEF GetHeatmap
<1> QED
    BY <1>11, <1>12, <1>13, <1>14, <1>15, <1>16, <1>17, <1>18, <1>19, <1>20 DEF Serve

ServiceOK ==
    /\ client.kind \in Kinds
    /\ ClientOK
    /\ asking \in BOOLEAN /\ moved \subseteq loaded
    /\ clock <= Start + MaxLoads[client.kind]
    /\ Len(answers) <= Asks[client.kind]
    /\ asking => Len(answers) < Asks[client.kind]

\* What every answer's own invariant rests on.
Base == IInv /\ Known /\ ServiceOK

LEMMA KindTyped ==
    ASSUME client.kind \in Kinds
    PROVE  Asks[client.kind] \in Nat /\ MaxLoads[client.kind] \in Nat /\ Start \in Nat
BY ReadAssumption

LEMMA BaseInitially ==
    ASSUME Init
    PROVE  Base
<1>1. PICK k \in Kinds : client \in About[k] /\ db \in Before[k]
    BY DEF Init
<1>2. /\ load = NoLoad /\ clock = Start /\ got = <<>> /\ asking = FALSE
      /\ loaded = {} /\ moved = {} /\ answers = <<>>
    BY DEF Init
<1>3. client.kind = k /\ Start \in Nat
    BY <1>1, ReadAssumption
<1>4. db \in Tables /\ MarketOK
    <2>1. db \in Tables /\ \A e \in Entries : Marketed(db, e, Start)
        BY <1>1, ReadAssumption
    <2> QED BY <1>2, <2>1 DEF MarketOK, Latest
<1>5. Known
    BY <1>2, <1>3, <1>4 DEF Known, LoadOK, RunOK, Clocked
<1>6. ClientOK
    <2>1. <<>> \in Seq({})
        OBVIOUS
    <2> QED BY <1>2, <2>1 DEF ClientOK
<1>7. ServiceOK
    <2>1. Asks[k] \in Nat /\ MaxLoads[k] \in Nat
        BY ReadAssumption
    <2>2. Len(answers) = 0
        BY <1>2
    <2>3. clock <= Start + MaxLoads[k] /\ Len(answers) <= Asks[k]
        BY <1>2, <1>3, <2>1, <2>2
    <2> QED BY <1>2, <1>3, <1>6, <2>3 DEF ServiceOK
<1> QED BY <1>5, <1>7, Initially DEF Base

LEMMA LoaderServes ==
    ASSUME Base, Load
    PROVE  ServiceOK'
<1>k. Known /\ ServiceOK /\ LoadOK /\ Clocked /\ TablesOK
    BY DEF Base, Known, IInv
<1>1. UNCHANGED clientVars /\ Clocked'
    BY <1>k, LoaderClient, LoaderSound
<1>2. MaxLoads[client.kind] \in Nat /\ Start \in Nat
    BY <1>k, KindTyped DEF ServiceOK
<1>3. clock' <= Start + MaxLoads[client.kind]
    <2>1. CASE StartLoad
        BY <1>k, <1>2, <2>1 DEF StartLoad, Clocked
    <2>2. CASE ~StartLoad
        <3>1. clock' = clock
            BY <2>2 DEF Load, LoadFails, RebuildCells, LoadMeetings, LoadRaces, LoadRunners,
                        LoadEntries, LoadResults, RepairEntries, LoadConditions, LoadOutcomes,
                        LoadSnapshots, LoadTicks, LoadMovements, LoadAnalytics, Commit
        <3> QED BY <1>k, <3>1 DEF ServiceOK
    <2> QED BY <2>1, <2>2
<1>4. moved' \subseteq loaded'
    BY <1>k, LoaderSound DEF ServiceOK, Settled
<1> QED BY <1>k, <1>1, <1>3, <1>4 DEF ServiceOK, ClientOK, clientVars

LEMMA BaseKept ==
    ASSUME Base, [Next]_vars
    PROVE  Base'
<1>k. IInv /\ Known /\ ServiceOK /\ ClientOK
    BY DEF Base, ServiceOK
<1>i. IInv'
    BY <1>k, StepKept, Stuttered
<1>a. Len(answers) \in Nat /\ Asks[client.kind] \in Nat
    BY <1>k, KindTyped DEF ServiceOK, ClientOK
<1>s. ASSUME UNCHANGED <<db, load, clock>> PROVE Known'
    <2>1. LoadOK'
        BY <1>i DEF IInv
    <2> QED BY <1>k, <1>s, <2>1 DEF Known, MarketOK, Marketed, Firming, Latest, LoadOK, RunOK, Clocked
<1>1. CASE Load
    <2>1. Sound /\ RunOK' /\ Clocked' /\ LoadOK'
        BY <1>k, <1>1, LoaderSound, LoaderSteps DEF IInv
    <2> QED BY <1>i, <1>1, <2>1, LoaderServes DEF Base, Known, Sound
<1>2. CASE Ask
    <2>1. /\ UNCHANGED <<db, load, clock, client, got, answers>> /\ ~asking /\ asking'
          /\ loaded' = (IF answers = <<>> THEN {} ELSE loaded)
          /\ moved' = (IF answers = <<>> THEN {} ELSE moved)
          /\ Len(answers) < Asks[client.kind]
        BY <1>2 DEF Ask
    <2>2. ServiceOK'
        BY <1>k, <2>1 DEF ServiceOK, ClientOK
    <2> QED BY <1>i, <1>s, <2>1, <2>2 DEF Base
<1>3. CASE Serve
    <2>1. asking /\ (AReads \/ AReplies)
        BY <1>3, ServeStep
    <2>2. CASE AReads
        <3>1. PICK n \in Nat : \E rows : Read(n, rows)
            BY <2>2 DEF AReads
        <3>2. UNCHANGED <<db, load, clock, loaded, moved, client, asking, answers>>
            BY <3>1 DEF Read
        <3>3. ClientOK'
            BY <1>k, <2>1, <3>1, ReadStep
        <3> QED BY <1>k, <1>i, <1>s, <3>2, <3>3 DEF Base, ServiceOK
    <2>3. CASE AReplies
        <3>1. PICK n \in Nat : \E answer : Reply(n, answer)
            BY <2>3 DEF AReplies
        <3>2. UNCHANGED <<db, load, clock, loaded, moved, client>> /\ asking' = FALSE
            BY <3>1 DEF Reply
        <3>3. ClientOK' /\ Len(answers') = Len(answers) + 1
            BY <1>k, <3>1, ReplyStep
        <3>4. Known'
            BY <1>s, <3>2
        <3>5. Len(answers') <= Asks[client.kind]
            BY <1>k, <1>a, <2>1, <3>3 DEF ServiceOK
        <3>6. ServiceOK'
            BY <1>k, <3>2, <3>3, <3>5 DEF ServiceOK
        <3> QED BY <1>i, <3>4, <3>6 DEF Base
    <2> QED BY <2>1, <2>2, <2>3
<1>4. CASE UNCHANGED vars
    BY <1>k, <1>i, <1>s, <1>4 DEF Base, ServiceOK, ClientOK, vars, clientVars
<1> QED BY <1>1, <1>2, <1>3, <1>4 DEF Next

LEMMA BaseHolds == Spec => []Base
<1>1. Init => Base
    BY BaseInitially
<1>2. Base /\ [Next]_vars => Base'
    BY BaseKept
<1> QED BY <1>1, <1>2, PTL DEF Spec

(***************************************************************************)
(* The variables have their types; prices of an entry come in the order    *)
(* they were fetched and no more movements are counted than there are.     *)
(***************************************************************************)
THEOREM ReadTypes == Spec => []TypeOK
<1>1. Base => TypeOK
    <2> SUFFICES ASSUME Base PROVE TypeOK
        OBVIOUS
    <2>1. Known /\ ServiceOK
        BY DEF Base
    <2>2. MaxLoads[client.kind] \in Nat /\ Start \in Nat
        BY <2>1, KindTyped DEF ServiceOK
    <2>3. clock \in Start .. Start + MaxLoads[client.kind]
        BY <2>1, <2>2 DEF Known, ServiceOK, Clocked
    <2>4. load # NoLoad => load.step \in DOMAIN Steps /\ load.race \in Races
        BY <2>1 DEF Known, RunOK, LoadOK, Steps
    <2> QED BY <2>1, <2>3, <2>4 DEF TypeOK, Known, LoadOK, ServiceOK
<1> QED BY <1>1, BaseHolds, PTL

\* Steps that are of no handler: the loader goes on, a request comes in, or
\* nothing happens.
Quiet ==
    /\ Sound /\ Settled /\ UNCHANGED <<client, got, answers>>
    /\ loaded' = {} => loaded = {} /\ Alike

Opened == UNCHANGED <<db, client, got, answers>> /\ Len(got) = 0 /\ Len(answers) = 0

LEMMA StepCases ==
    ASSUME Base, [Next]_vars
    PROVE  Quiet \/ Opened \/ Serve
<1>k. Known /\ IInv /\ ServiceOK /\ ClientOK /\ Known'
    BY BaseKept DEF Base, ServiceOK
<1>m. moved \subseteq loaded
    BY <1>k DEF ServiceOK
<1>a. ASSUME UNCHANGED <<db, client, got, answers, loaded, moved>> PROVE Quiet
    BY <1>k, <1>m, <1>a DEF Known, Quiet, Sound, Grown, Alike, Settled, Held
<1>1. CASE Load
    <2>1. Sound /\ Settled /\ UNCHANGED <<client, got, answers>> /\ (loaded' = {} => Alike)
        BY <1>1, <1>k, <1>m, LoaderSound, LoaderClient DEF clientVars
    <2>2. loaded \subseteq loaded'
        BY <1>1, <1>k, LoaderSteps DEF IInv, Elsewhere
    <2> QED BY <2>1, <2>2 DEF Quiet
<1>2. CASE Ask
    <2>1. /\ UNCHANGED <<db, client, got, answers>> /\ ~asking
          /\ loaded' = (IF answers = <<>> THEN {} ELSE loaded)
          /\ moved' = (IF answers = <<>> THEN {} ELSE moved)
        BY <1>2 DEF Ask
    <2>2. got = <<>>
        BY <1>k, <2>1 DEF ClientOK
    <2>3. answers = <<>> => Len(got) = 0 /\ Len(answers) = 0
        BY <2>2
    <2> QED BY <1>a, <2>1, <2>3 DEF Opened
<1>3. CASE UNCHANGED vars
    BY <1>3, <1>a DEF vars, clientVars
<1> QED BY <1>1, <1>2, <1>3 DEF Next

LEMMA MinOfTwo ==
    ASSUME NEW a \in Int, NEW b \in Int
    PROVE  Min({a, b}) = IF a <= b THEN a ELSE b
<1>1. \A x \in {a, b} : (\A y \in {a, b} : x <= y) <=> x = IF a <= b THEN a ELSE b
    OBVIOUS
<1>2. (IF a <= b THEN a ELSE b) \in {a, b}
    OBVIOUS
<1> QED BY <1>1, <1>2 DEF Min

-----------------------------------------------------------------------------
(* Odds analyses                                                           *)

\* A row of the analytics, when the movements it counts are there.
Counted(row) ==
    /\ row.entry \in Field /\ row.firm \in Nat /\ row.drift \in Nat
    /\ row.firm <= Cardinality(Firming(db.moves[row.entry]))
    /\ row.drift <= Cardinality(db.moves[row.entry] \ Firming(db.moves[row.entry]))
    /\ row.biggest \subseteq db.moves[row.entry]

ShownOf(row, notable) == {n.move : n \in {x \in notable : x.entry = row.entry}}

RowBacked(row, notable) ==
    /\ Cardinality(notable) < Notable =>
          /\ row.firm <= Cardinality({m \in ShownOf(row, notable) : m.to < m.from})
          /\ row.drift <= Cardinality({m \in ShownOf(row, notable) : m.to > m.from})
    /\ \A m \in row.biggest :
          m \in ShownOf(row, notable) \/ \A n \in notable : ~Bigger(m, n.move)

AnalysisOK ==
    client.kind = "analysis" =>
        /\ Len(got) >= 2 => \A row \in got[2] : Counted(row)
        /\ Len(got) = 3 => \A row \in got[2] : RowBacked(row, got[3])
        /\ \A i \in 1..Len(answers) :
              answers[i].found => \A row \in answers[i].entries : RowBacked(row, answers[i].notable)

LEMMA MoveRowsFinite ==
    ASSUME Known
    PROVE  IsFiniteSet(MoveRows)
<1> DEFINE of == [e \in Field |-> {[entry |-> e, move |-> m] : m \in db.moves[e]}]
           all == {of[e] : e \in Field}
<1>1. Field \subseteq Entries /\ IsFiniteSet(Entries)
    BY ReadAssumption DEF Field, In, Known, Tables
<1>2. IsFiniteSet(Field)
    BY <1>1, FS_Subset
<1>3. ASSUME NEW e \in Field PROVE IsFiniteSet(of[e])
    <2> DEFINE row == [m \in db.moves[e] |-> [entry |-> e, move |-> m]]
    <2>1. IsFiniteSet(db.moves[e])
        BY <1>1 DEF Known, MarketOK, Marketed
    <2>2. row \in Surjection(db.moves[e], of[e])
        BY DEF Surjection
    <2> QED BY <2>1, <2>2, FS_Surjection
<1>4. MoveRows = UNION all
    BY DEF MoveRows
<1>5. IsFiniteSet(all)
    <2>1. of \in Surjection(Field, all)
        BY DEF Surjection
    <2> QED BY <1>2, <2>1, FS_Surjection
<1>6. \A T \in all : IsFiniteSet(T)
    BY <1>3
<1> QED BY <1>4, <1>5, <1>6, FS_UNION

LEMMA MovesHere ==
    ASSUME Known, NEW row, Counted(row)
    PROVE  /\ IsFiniteSet(db.moves[row.entry])
           /\ \A m \in db.moves[row.entry] : /\ m.from \in Nat /\ m.to \in Nat /\ m.from # m.to
                                             /\ [entry |-> row.entry, move |-> m] \in MoveRows
<1>1. row.entry \in Field /\ row.entry \in Entries
    BY DEF Counted, Field, In, Known, Tables
<1>2. IsFiniteSet(db.moves[row.entry]) /\ \A m \in db.moves[row.entry] : m.from # m.to
    BY <1>1 DEF Known, MarketOK, Marketed
<1>3. \A m \in db.moves[row.entry] : m.from \in Nat /\ m.to \in Nat
    BY <1>1, MarketTyped DEF Known
<1> QED BY <1>1, <1>2, <1>3 DEF MoveRows

LEMMA ListBacks ==
    ASSUME Known, NEW row, Counted(row), NEW notable \in Tops(MoveRows, Notable, BiggerRow)
    PROVE  RowBacked(row, notable)
<1> DEFINE moves == db.moves[row.entry]
           shown == ShownOf(row, notable)
<1>1. /\ notable \subseteq MoveRows
      /\ Cardinality(notable) = Min({Notable, Cardinality(MoveRows)})
      /\ \A x \in MoveRows \ notable, y \in notable : ~Bigger(x.move, y.move)
    BY DEF Tops, BiggerRow
<1>2. IsFiniteSet(MoveRows) /\ Cardinality(MoveRows) \in Nat /\ Notable \in Nat
    BY MoveRowsFinite, FS_CardinalityType, ReadAssumption
<1>3. /\ IsFiniteSet(moves)
      /\ \A m \in moves : /\ m.from \in Nat /\ m.to \in Nat /\ m.from # m.to
                          /\ [entry |-> row.entry, move |-> m] \in MoveRows
    BY MovesHere
<1>4. ASSUME Cardinality(notable) < Notable
      PROVE  /\ row.firm <= Cardinality({m \in shown : m.to < m.from})
             /\ row.drift <= Cardinality({m \in shown : m.to > m.from})
    <2>1. Cardinality(notable) = Cardinality(MoveRows)
        <3>1. \A c, l, n \in Nat : c = (IF l <= n THEN l ELSE n) /\ c < l => c = n
            OBVIOUS
        <3>2. \A l, n \in Nat : Min({l, n}) = IF l <= n THEN l ELSE n
            BY MinOfTwo
        <3>3. Cardinality(notable) \in Nat
            BY <1>1, <1>2, FS_Subset, FS_CardinalityType
        <3> QED BY <1>1, <1>2, <1>4, <3>1, <3>2, <3>3
    <2>2. notable = MoveRows
        BY <1>1, <1>2, <2>1, FS_Subset
    <2>3. shown = moves
        <3>1. \A x \in MoveRows : x.entry = row.entry => x.move \in moves
            BY DEF MoveRows
        <3>2. \A m \in moves : \E x \in MoveRows : x.entry = row.entry /\ x.move = m
            BY <1>3
        <3> QED BY <2>2, <3>1, <3>2 DEF ShownOf
    <2>4. {m \in shown : m.to < m.from} = Firming(moves)
        BY <2>3 DEF Firming
    <2>5. {m \in shown : m.to > m.from} = moves \ Firming(moves)
        <3>1. \A m \in moves : m.to > m.from <=> ~(m.to < m.from)
            <4>1. \A a, b \in Nat : a # b => (a > b <=> ~(a < b))
                OBVIOUS
            <4> QED BY <1>3, <4>1
        <3> HIDE DEF moves
        <3> QED BY <2>3, <3>1 DEF Firming
    <2> QED BY <2>4, <2>5 DEF Counted
<1>5. ASSUME NEW m \in row.biggest
      PROVE  m \in shown \/ \A n \in notable : ~Bigger(m, n.move)
    <2> DEFINE x == [entry |-> row.entry, move |-> m]
    <2>1. x \in MoveRows /\ x.entry = row.entry /\ x.move = m
        BY <1>3 DEF Counted
    <2> HIDE DEF x
    <2>2. CASE x \in notable
        BY <2>1, <2>2 DEF ShownOf
    <2>3. CASE x \notin notable
        BY <1>1, <2>1, <2>3
    <2> QED BY <2>2, <2>3
<1> QED BY <1>4, <1>5 DEF RowBacked

\* Steps of the loader and of a handler that are not of the kind of a property.
LEMMA CountedStays ==
    ASSUME Known, Sound, client' = client, NEW row, Counted(row)
    PROVE  Counted(row)'
<1> DEFINE e == row.entry
           moves == db.moves[e]
<1>1. /\ e \in Field /\ e \in Entries /\ Field \subseteq Field'
    BY DEF Counted, Field, In, Known, Tables, Sound, Grown
<1>2. /\ moves \subseteq moves' /\ IsFiniteSet(moves') /\ IsFiniteSet(moves)
    BY <1>1 DEF Sound, Grown, Known, MarketOK, Marketed
<1>3. /\ Firming(moves) \subseteq Firming(moves') /\ Firming(moves') \subseteq moves'
      /\ moves \ Firming(moves) \subseteq moves' \ Firming(moves')
    BY <1>2 DEF Firming
<1>4. IsFiniteSet(Firming(moves')) /\ IsFiniteSet(moves' \ Firming(moves'))
    BY <1>2, <1>3, FS_Subset
<1>5. /\ Cardinality(Firming(moves)) \in Nat /\ Cardinality(moves \ Firming(moves)) \in Nat
      /\ Cardinality(Firming(moves')) \in Nat /\ Cardinality(moves' \ Firming(moves')) \in Nat
      /\ Cardinality(Firming(moves)) <= Cardinality(Firming(moves'))
      /\ Cardinality(moves \ Firming(moves)) <= Cardinality(moves' \ Firming(moves'))
    BY <1>3, <1>4, FS_Subset, FS_CardinalityType
<1>6. /\ row.firm \in Nat /\ row.drift \in Nat /\ row.biggest \subseteq moves
      /\ row.firm <= Cardinality(Firming(moves))
      /\ row.drift <= Cardinality(moves \ Firming(moves))
    BY DEF Counted
<1> HIDE DEF moves
<1>7. /\ row.firm <= Cardinality(Firming(moves')) /\ row.biggest \subseteq moves'
      /\ row.drift <= Cardinality(moves' \ Firming(moves'))
    BY <1>2, <1>5, <1>6
<1> QED BY <1>1, <1>6, <1>7 DEF Counted, moves

LEMMA AnalyticsCounted ==
    ASSUME Known, NEW row \in AnalyticsRows
    PROVE  Counted(row)
<1>1. PICK e \in Field : row = [entry   |-> e,
                                firm    |-> db.counted[e].firm,
                                drift   |-> db.counted[e].drift,
                                biggest |-> {m \in db.moves[e] : \A n \in db.moves[e] : ~Bigger(n, m)}]
    BY DEF AnalyticsRows
<1>2. e \in Entries
    BY DEF Field, In, Known, Tables
<1>3. db.counted[e].firm \in Nat /\ db.counted[e].drift \in Nat
    BY <1>2, MarketTyped DEF Known
<1>4. Marketed(db, e, Latest)
    BY <1>2 DEF Known, MarketOK
<1> QED BY <1>1, <1>3, <1>4 DEF Counted, Marketed

\* Where a list of answers has one more, each was there or is the one.
LEMMA AnsweredBefore ==
    ASSUME ClientOK, NEW n \in Nat, NEW answer, Reply(n, answer)
    PROVE  /\ Len(answers) \in Nat /\ Len(answers') = Len(answers) + 1 /\ got' = <<>>
           /\ \A i \in 1..Len(answers') :
                 \/ i \in 1..Len(answers) /\ answers'[i] = answers[i]
                 \/ i = Len(answers) + 1 /\ answers'[i] = answer
           /\ UNCHANGED <<db, load, loaded, moved, client>>
<1>1. Len(answers) \in Nat
    BY DEF ClientOK
<1> QED BY <1>1, ReplyStep

LEMMA AnalysisKept ==
    ASSUME Base, AnalysisOK, client.kind = "analysis", GetOddsAnalysis
    PROVE  AnalysisOK'
<1> USE DEF AnalysisOK
<1>k. Known /\ ClientOK /\ asking
    BY DEF Base, ServiceOK, GetOddsAnalysis, Serving
<1>c. ASSUME db' = db, client' = client PROVE \A row : Counted(row)' <=> Counted(row)
    BY <1>c DEF Counted, Field, In
<1>b. \A row, notable : RowBacked(row, notable)' <=> RowBacked(row, notable)
    BY DEF RowBacked, ShownOf
<1>1. CASE Read(1, RaceRow)
    <2>1. Len(got') = 1 /\ UNCHANGED <<db, client, answers>>
        BY <1>1, <1>k, ReadStep
    <2> QED BY <2>1, <1>b
<1>2. CASE Missing
    <2>1. Reply(1, NotFound) /\ NotFound.found = FALSE
        BY <1>2 DEF Missing, NotFound
    <2>2. /\ Len(got') = 0 /\ client' = client
          /\ \A i \in 1..Len(answers') : \/ i \in 1..Len(answers) /\ answers'[i] = answers[i]
                                         \/ answers'[i] = NotFound
        BY <2>1, <1>k, AnsweredBefore
    <2> QED BY <2>1, <2>2, <1>b
<1>3. CASE ReadNext(2, AnalyticsRows)
    <2>1. Read(2, AnalyticsRows)
        BY <1>3 DEF ReadNext
    <2>2. Len(got') = 2 /\ got'[2] = AnalyticsRows /\ UNCHANGED <<db, client, answers>>
        BY <2>1, <1>k, ReadStep
    <2>3. \A row \in got'[2] : Counted(row)'
        BY <1>k, <1>c, <2>2, AnalyticsCounted
    <2> QED BY <2>2, <2>3, <1>b
<1>4. CASE ReadAny(3, Tops(MoveRows, Notable, BiggerRow))
    <2>1. PICK notable \in Tops(MoveRows, Notable, BiggerRow) : Read(3, notable)
        BY <1>4 DEF ReadAny
    <2>2. /\ 3 = Len(got) + 1 /\ Len(got') = 3 /\ got'[3] = notable
          /\ \A i \in 1..Len(got) : got'[i] = got[i]
          /\ UNCHANGED <<db, client, answers>>
        BY <2>1, <1>k, ReadStep
    <2>3. Len(got) = 2
        <3>1. \A n \in Nat : 3 = n + 1 => n = 2
            OBVIOUS
        <3>2. Len(got) \in Nat
            BY <1>k DEF ClientOK
        <3> QED BY <2>2, <3>1, <3>2
    <2>4. got'[2] = got[2] /\ \A row \in got[2] : Counted(row)
        BY <2>2, <2>3
    <2>5. \A row \in got[2] : RowBacked(row, notable)
        BY <1>k, <2>4, ListBacks
    <2> QED BY <2>2, <2>4, <2>5, <1>b, <1>c
<1>5. CASE Reply(3, [found |-> TRUE, entries |-> got[2], notable |-> got[3]])
    <2> DEFINE answer == [found |-> TRUE, entries |-> got[2], notable |-> got[3]]
    <2>1. Len(got) = 3
        BY <1>5 DEF Reply, After
    <2>2. \A row \in answer.entries : RowBacked(row, answer.notable)
        BY <2>1
    <2> HIDE DEF answer
    <2>3. /\ Len(got') = 0 /\ client' = client
          /\ \A i \in 1..Len(answers') : \/ i \in 1..Len(answers) /\ answers'[i] = answers[i]
                                         \/ answers'[i] = answer
        BY <1>5, <1>k, AnsweredBefore DEF answer
    <2> QED BY <2>2, <2>3, <1>b
<1> QED BY <1>1, <1>2, <1>3, <1>4, <1>5 DEF GetOddsAnalysis

LEMMA AnalysisStays ==
    ASSUME Base, AnalysisOK, [Next]_vars
    PROVE  AnalysisOK'
<1> USE DEF AnalysisOK
<1>k. Known
    BY DEF Base
<1>b. \A row, notable : RowBacked(row, notable)' <=> RowBacked(row, notable)
    BY DEF RowBacked, ShownOf
<1>1. CASE Quiet
    <2>1. Sound /\ UNCHANGED <<client, got, answers>>
        BY <1>1 DEF Quiet
    <2>2. \A row : Counted(row) => Counted(row)'
        BY <2>1, <1>k, CountedStays
    <2> QED BY <2>1, <2>2, <1>b
<1>2. CASE Opened
    BY <1>2, <1>b DEF Opened
<1>3. CASE Serve
    <2>1. client' = client
        BY <1>3, ServeReads DEF ReadsOnly
    <2>2. CASE client.kind = "analysis"
        <3>1. GetOddsAnalysis
            BY <1>3, <2>2, ServesKind
        <3> HIDE DEF AnalysisOK
        <3> QED BY <2>2, <3>1, AnalysisKept
    <2> QED BY <2>1, <2>2
<1> QED BY <1>1, <1>2, <1>3, StepCases

\* What get_odds_analysis says an entry firmed and drifted is among the
\* movements it lists, and so is the biggest, unless bigger ones fill the list.
THEOREM AnalysesAreBacked == Spec => []AnalysisIsBacked
<1>1. Init => AnalysisOK
    <2> SUFFICES ASSUME Init PROVE AnalysisOK
        OBVIOUS
    <2>1. Len(got) = 0 /\ Len(answers) = 0
        BY DEF Init
    <2> QED BY <2>1 DEF AnalysisOK
<1>2. Base /\ AnalysisOK /\ [Next]_vars => AnalysisOK'
    BY AnalysisStays
<1>3. Base /\ AnalysisOK => AnalysisIsBacked
    <2> SUFFICES ASSUME Base, AnalysisOK, Found("analysis") PROVE AnalysisIsBacked
        BY DEF AnalysisIsBacked
    <2>1. client.kind = "analysis" /\ answers # <<>> /\ Answer.found /\ ClientOK
        BY DEF Found, Answered, Answer, Base, ServiceOK
    <2>2. Len(answers) \in 1..Len(answers)
        BY <2>1 DEF ClientOK
    <2>3. \A row \in Answer.entries : RowBacked(row, Answer.notable)
        BY <2>1, <2>2 DEF AnalysisOK, Answer
    <2> QED BY <2>3 DEF AnalysisIsBacked, RowBacked, ShownOf
<1> QED BY <1>1, <1>2, <1>3, BaseHolds, PTL DEF Spec

-----------------------------------------------------------------------------
(* Series of prices that are thinned                                       *)

LEMMA Divided ==
    ASSUME NEW a \in Int, NEW b \in Int, b > 0
    PROVE  a = b * (a \div b) + (a % b)
BY Z3T(60)

LEMMA Division ==
    ASSUME NEW a \in Nat, NEW b \in Nat, b > 0
    PROVE  /\ a \div b \in Nat /\ a % b \in Nat /\ a % b < b
           /\ a = b * (a \div b) + (a % b)
<1>1. a \div b \in Nat /\ a % b \in Nat /\ a % b < b
    OBVIOUS
<1>2. a \in Int /\ b \in Int
    OBVIOUS
<1>3. a = b * (a \div b) + (a % b)
    BY ONLY <1>2, b > 0, Divided
<1> QED BY <1>1, <1>3, Zenon

\* Half up or half down, a rounded quotient is at most a half away.
LEMMA RoundIsNear ==
    ASSUME NEW a \in Nat, NEW b \in Nat, b > 0
    PROVE  /\ Round(a, b) \in Nat
           /\ 2 * (b * Round(a, b)) <= 2 * a + b
           /\ 2 * (b * Round(a, b)) >= 2 * a - b
<1> DEFINE q == a \div b
           r == a % b
           p == b * q
<1>1. q \in Nat /\ r \in Nat /\ r < b /\ p \in Int /\ a = p + r
    BY Division
<1>2. b * (q + 1) = p + b
    BY <1>1
<1>3. Round(a, b) = (IF 2 * r < b \/ (2 * r = b /\ q % 2 = 0) THEN q ELSE q + 1)
    BY DEF Round
<1> HIDE DEF r
<1>4. CASE Round(a, b) = q /\ 2 * r <= b
    <2>1. b * Round(a, b) = p
        BY <1>4
    <2> HIDE DEF p, q
    <2> QED BY <1>1, <1>4, <2>1
<1>5. CASE Round(a, b) = q + 1 /\ 2 * r >= b
    <2>1. b * Round(a, b) = p + b
        BY <1>2, <1>5
    <2> HIDE DEF p, q
    <2> QED BY <1>1, <1>5, <2>1
<1> HIDE DEF q, p
<1> QED BY <1>1, <1>3, <1>4, <1>5

LEMMA RoundGrows ==
    ASSUME NEW a \in Nat, NEW b \in Nat, b > 0, NEW d \in Nat, d > b
    PROVE  Round(a, b) < Round(a + d, b)
<1> DEFINE x == Round(a, b)
           y == Round(a + d, b)
<1>1. a + d \in Nat
    OBVIOUS
<1>2. /\ x \in Nat /\ y \in Nat
      /\ 2 * (b * x) <= 2 * a + b /\ 2 * (b * y) >= 2 * (a + d) - b
    BY <1>1, RoundIsNear
<1> HIDE DEF x, y
<1>3. y <= x => b * y <= b * x
    BY <1>2, Z3
<1>4. b * x \in Int /\ b * y \in Int
    BY <1>2
<1>5. ~(b * y <= b * x)
    BY <1>2, <1>4
<1>6. x < y
    BY <1>2, <1>3, <1>5
<1> QED BY <1>6 DEF x, y

LEMMA RoundOfMultiple ==
    ASSUME NEW m \in Nat, NEW b \in Nat, b > 0
    PROVE  Round(b * m, b) = m
<1> DEFINE x == Round(b * m, b)
           p == b * m
           z == b * x
<1>1. p \in Nat
    OBVIOUS
<1>2. x \in Nat /\ 2 * z <= 2 * p + b /\ 2 * z >= 2 * p - b
    BY <1>1, RoundIsNear
<1> HIDE DEF x
<1>3. x <= m - 1 => z <= p - b
    BY <1>2
<1>4. x >= m + 1 => z >= p + b
    BY <1>2
<1>5. z \in Int
    BY <1>2
<1> HIDE DEF z, p
<1> QED BY <1>1, <1>2, <1>3, <1>4, <1>5 DEF x

Near(i, n, limit) == Round(i * (n - 1), limit - 1)

IsIndex(g, n, limit) ==
    g = [i \in 0 .. limit - 1 |->
            Min({IF i > 0 /\ Near(i, n, limit) <= g[i - 1] THEN g[i - 1] + 1
                                                           ELSE Near(i, n, limit), n - 1})]

\* The nearest items are in order and apart, when fewer are kept than there are.
LEMMA NearGrows ==
    ASSUME NEW n \in Nat, NEW limit \in Nat, limit >= 3, limit < n
    PROVE  /\ \A i \in 0 .. limit - 1 : Near(i, n, limit) \in Nat
           /\ \A i \in 1 .. limit - 1 : Near(i - 1, n, limit) < Near(i, n, limit)
           /\ Near(0, n, limit) = 0 /\ Near(limit - 1, n, limit) = n - 1
<1> DEFINE b == limit - 1
           d == n - 1
<1>1. b \in Nat /\ d \in Nat /\ b > 0 /\ d > b
    OBVIOUS
<1> HIDE DEF b, d
<1>a. \A i \in Nat : i * d \in Nat
    BY <1>1, Z3
<1>2. \A i \in Nat : Round(i * d, b) \in Nat
    BY <1>1, <1>a, RoundIsNear
<1>3. \A i \in Nat : Round(i * d, b) < Round(i * d + d, b)
    BY <1>1, <1>a, RoundGrows
<1>4. \A i \in Nat : i >= 1 => i - 1 \in Nat /\ (i - 1) * d + d = i * d
    BY <1>1
<1>5. Round(0 * d, b) = 0
    <2>1. 0 * d = b * 0
        BY <1>1
    <2> QED BY <1>1, <2>1, RoundOfMultiple
<1>6. Round(b * d, b) = d
    BY <1>1, RoundOfMultiple
<1>7. \A i : Near(i, n, limit) = Round(i * d, b)
    BY DEF Near, b, d
<1>8. \A i \in 0 .. limit - 1 : i \in Nat
    OBVIOUS
<1>9. \A i \in 1 .. limit - 1 : i \in Nat /\ i >= 1
    OBVIOUS
<1>10. \A i \in 1 .. limit - 1 : Near(i - 1, n, limit) < Near(i, n, limit)
    <2> SUFFICES ASSUME NEW i \in 1 .. limit - 1 PROVE Round((i - 1) * d, b) < Round(i * d, b)
        BY <1>7
    <2>1. i - 1 \in Nat /\ (i - 1) * d + d = i * d
        BY <1>4, <1>9
    <2> QED BY <1>3, <2>1
<1>11. Near(limit - 1, n, limit) = n - 1
    BY <1>6, <1>7 DEF b, d
<1> QED BY <1>2, <1>5, <1>7, <1>8, <1>10, <1>11

LEMMA NearBounded ==
    ASSUME NEW n \in Nat, NEW limit \in Nat, limit >= 3, limit < n
    PROVE  \A i \in 0 .. limit - 1 : \A j \in 0 .. limit - 1 :
              i < j => Near(i, n, limit) < Near(j, n, limit)
<1> DEFINE w == [k \in 0 .. limit - 1 |-> Near(k, n, limit)]
           G == {m \in Nat : \A i \in 0 .. limit - 1 : i + m + 1 <= limit - 1 => w[i] < w[i + m + 1]}
<1>w. \A i \in 0 .. limit - 1 : Near(i, n, limit) = w[i]
    OBVIOUS
<1>v. \A i \in 1 .. limit - 1 : i \in 0 .. limit - 1 /\ i - 1 \in 0 .. limit - 1
    OBVIOUS
<1>1. /\ \A i \in 0 .. limit - 1 : w[i] \in Nat
      /\ \A i \in 1 .. limit - 1 : w[i - 1] < w[i]
    <2>1. /\ \A i \in 0 .. limit - 1 : Near(i, n, limit) \in Nat
          /\ \A i \in 1 .. limit - 1 : Near(i - 1, n, limit) < Near(i, n, limit)
        BY NearGrows
    <2> HIDE DEF w
    <2> QED BY <2>1, <1>w, <1>v
<1> HIDE DEF w
<1>2. 0 \in G
    BY <1>1
<1>3. ASSUME NEW m \in Nat, m \in G PROVE m + 1 \in G
    <2> SUFFICES ASSUME NEW i \in 0 .. limit - 1, i + (m + 1) + 1 <= limit - 1
                 PROVE  w[i] < w[i + (m + 1) + 1]
        BY DEF G
    <2>1. w[i] < w[i + m + 1]
        BY <1>3 DEF G
    <2>2. i + m + 2 \in 1 .. limit - 1 /\ i + m + 1 \in 0 .. limit - 1
        OBVIOUS
    <2>3. w[i + m + 1] < w[i + m + 2]
        <3>1. \A j \in 1 .. limit - 1 : w[j - 1] < w[j]
            BY <1>1
        <3>2. (i + m + 2) - 1 = i + m + 1
            OBVIOUS
        <3> QED BY <2>2, <3>1, <3>2
    <2>4. w[i] \in Nat /\ w[i + m + 1] \in Nat /\ w[i + m + 2] \in Nat
        BY <1>1, <2>2
    <2>5. i + (m + 1) + 1 = i + m + 2
        OBVIOUS
    <2> QED BY <2>1, <2>3, <2>4, <2>5
<1>4. Nat \subseteq G
    <2> HIDE DEF G
    <2> QED BY <1>2, <1>3, NumberInduction
<1>5. ASSUME NEW i \in 0 .. limit - 1, NEW j \in 0 .. limit - 1, i < j PROVE w[i] < w[j]
    <2>1. j - i - 1 \in Nat /\ i + (j - i - 1) + 1 = j
        BY <1>5
    <2>2. j - i - 1 \in G
        BY <1>4, <2>1
    <2> QED BY <2>1, <2>2 DEF G
<1> QED BY <1>5, <1>w

\* No item is kept twice, so that the step to the next one is never taken.
LEMMA IndexIsNear ==
    ASSUME NEW n \in Nat, NEW limit \in Nat, limit >= 3, limit < n
    PROVE  /\ \E g : IsIndex(g, n, limit)
           /\ \A g : IsIndex(g, n, limit) => \A i \in 0 .. limit - 1 : g[i] = Near(i, n, limit)
<1> DEFINE w == [i \in 0 .. limit - 1 |-> Near(i, n, limit)]
           next(g, i) == IF i > 0 /\ Near(i, n, limit) <= g[i - 1] THEN g[i - 1] + 1
                                                                   ELSE Near(i, n, limit)
<1>1. \A i \in 0 .. limit - 1 : Near(i, n, limit) \in Nat /\ Near(i, n, limit) <= n - 1
    <2> SUFFICES ASSUME NEW i \in 0 .. limit - 1
                 PROVE  Near(i, n, limit) \in Nat /\ Near(i, n, limit) <= n - 1
        OBVIOUS
    <2>1. Near(i, n, limit) \in Nat /\ Near(limit - 1, n, limit) = n - 1
        BY NearGrows
    <2>2. limit - 1 \in 0 .. limit - 1
        OBVIOUS
    <2>3. i < limit - 1 => Near(i, n, limit) < Near(limit - 1, n, limit)
        BY <2>2, NearBounded
    <2>4. i < limit - 1 \/ i = limit - 1
        OBVIOUS
    <2> QED BY <2>1, <2>3, <2>4
<1>2. ASSUME NEW g, NEW i \in 0 .. limit - 1, i = 0 \/ g[i - 1] = Near(i - 1, n, limit)
      PROVE  Min({next(g, i), n - 1}) = Near(i, n, limit)
    <2>1. next(g, i) = Near(i, n, limit)
        <3>1. CASE i = 0
            BY <3>1
        <3>2. CASE i > 0
            <4>1. i \in 1 .. limit - 1 /\ i - 1 \in 0 .. limit - 1
                BY <3>2
            <4>2. Near(i - 1, n, limit) < Near(i, n, limit)
                BY <4>1, NearGrows
            <4>3. Near(i, n, limit) \in Nat /\ Near(i - 1, n, limit) \in Nat
                BY <1>1, <4>1
            <4>4. g[i - 1] = Near(i - 1, n, limit)
                BY <1>2, <3>2
            <4>5. ~(Near(i, n, limit) <= g[i - 1])
                BY <4>2, <4>3, <4>4
            <4> QED BY <4>5
        <3> QED BY <3>1, <3>2
    <2> HIDE DEF next
    <2>2. Near(i, n, limit) \in Int /\ n - 1 \in Int /\ Near(i, n, limit) <= n - 1
        BY <1>1
    <2>3. \A x, y \in Int : x <= y => Min({x, y}) = x
        BY MinOfTwo
    <2> QED BY <2>1, <2>2, <2>3
<1>3. IsIndex(w, n, limit)
    <2>1. \A i \in 0 .. limit - 1 : i = 0 \/ w[i - 1] = Near(i - 1, n, limit)
        OBVIOUS
    <2>2. \A i \in 0 .. limit - 1 : Min({next(w, i), n - 1}) = Near(i, n, limit)
        <3> HIDE DEF next, w
        <3> QED BY <1>2, <2>1
    <2>3. w = [i \in 0 .. limit - 1 |-> Min({next(w, i), n - 1})]
        <3>1. w = [i \in 0 .. limit - 1 |-> Near(i, n, limit)]
            OBVIOUS
        <3> HIDE DEF next, w
        <3> QED BY <2>2, <3>1
    <2> HIDE DEF w
    <2> QED BY <2>3 DEF IsIndex, next
<1>4. ASSUME NEW g, IsIndex(g, n, limit) PROVE \A i \in 0 .. limit - 1 : g[i] = Near(i, n, limit)
    <2> DEFINE G == {i \in Nat : i <= limit - 1 => g[i] = Near(i, n, limit)}
    <2>1. g = [i \in 0 .. limit - 1 |-> Min({next(g, i), n - 1})]
        BY <1>4 DEF IsIndex
    <2> HIDE DEF next
    <2>2. \A i \in 0 .. limit - 1 : g[i] = Min({next(g, i), n - 1})
        BY <2>1
    <2>3. 0 \in G
        <3>1. 0 \in 0 .. limit - 1
            OBVIOUS
        <3>2. g[0] = Near(0, n, limit)
            BY <1>2, <2>2, <3>1
        <3> QED BY <3>2
    <2>4. ASSUME NEW i \in Nat, i \in G PROVE i + 1 \in G
        <3> SUFFICES ASSUME i + 1 <= limit - 1 PROVE g[i + 1] = Near(i + 1, n, limit)
            OBVIOUS
        <3>1. i + 1 \in 0 .. limit - 1 /\ (i + 1) - 1 = i /\ i <= limit - 1
            OBVIOUS
        <3>2. g[(i + 1) - 1] = Near((i + 1) - 1, n, limit)
            BY <2>4, <3>1
        <3> DEFINE j == i + 1
        <3>3. j \in 0 .. limit - 1 /\ g[j - 1] = Near(j - 1, n, limit)
            BY <3>1, <3>2
        <3> HIDE DEF j
        <3>4. g[j] = Near(j, n, limit)
            BY <1>2, <2>2, <3>3
        <3> QED BY <3>4 DEF j
    <2>5. Nat \subseteq G
        <3> HIDE DEF G
        <3> QED BY <2>3, <2>4, NumberInduction
    <2> QED BY <2>5
<1> QED BY <1>3, <1>4

LEMMA SampleIndexIsNear ==
    ASSUME NEW n \in Nat, NEW limit \in Nat, limit >= 3, limit < n
    PROVE  SampleIndex(n, limit) = [i \in 1 .. limit |-> 1 + Near(i - 1, n, limit)]
<1> DEFINE g == CHOOSE g : IsIndex(g, n, limit)
<1>1. SampleIndex(n, limit) = [i \in 1 .. limit |-> 1 + g[i - 1]]
    BY DEF SampleIndex, IsIndex, Near
<1>2. IsIndex(g, n, limit)
    BY IndexIsNear
<1> HIDE DEF g
<1>3. \A i \in 0 .. limit - 1 : g[i] = Near(i, n, limit)
    BY <1>2, IndexIsNear
<1>4. \A i \in 1 .. limit : i - 1 \in 0 .. limit - 1
    OBVIOUS
<1>5. \A i \in 1 .. limit : 1 + g[i - 1] = 1 + Near(i - 1, n, limit)
    BY <1>3, <1>4
<1> QED BY <1>1, <1>5

LEMMA ListOfLength ==
    ASSUME NEW S, NEW n \in Nat, NEW s \in [1 .. n -> S]
    PROVE  s \in Seq(S) /\ Len(s) = n
OBVIOUS

\* What is kept of a series is in its order, with its first and its last price.
LEMMA ThinnedSeries ==
    ASSUME NEW s \in Series, \A i, j \in DOMAIN s : i < j => s[i][1] < s[j][1],
           NEW limit \in Nat \ {0, 1}, NEW t, t = SampleTimeSeries(s, limit)
    PROVE  /\ t \in Series
           /\ Len(t) = Min({Len(s), limit})
           /\ \A i \in 1 .. Len(t) - 1 : t[i][1] < t[i + 1][1]
           /\ t # <<>> => s # <<>> /\ t[1] = s[1] /\ t[Len(t)] = s[Len(s)]
<1> DEFINE n == Len(s)
           P == Nat \X Nat
<1>1. n \in Nat /\ DOMAIN s = 1 .. n /\ s \in Seq(P) /\ \A i \in 1 .. n : s[i] \in P
    BY DEF Series
<1> HIDE DEF n, P
<1>m. Min({n, limit}) = IF n <= limit THEN n ELSE limit
    <2>1. \A x, y \in Int : Min({x, y}) = IF x <= y THEN x ELSE y
        BY MinOfTwo
    <2> QED BY <1>1, <2>1
<1>2. CASE n <= limit
    <2>1. t = s
        BY <1>2 DEF SampleTimeSeries, n
    <2>2. \A i \in 1 .. n - 1 : i \in DOMAIN s /\ i + 1 \in DOMAIN s /\ i < i + 1
        BY <1>1
    <2>3. \A i \in 1 .. n - 1 : s[i][1] < s[i + 1][1]
        BY <2>2
    <2> QED BY <1>1, <1>2, <1>m, <2>1, <2>3 DEF n
<1>3. CASE n > limit /\ limit = 2
    <2> DEFINE pair == <<s[1], s[n]>>
    <2>1. t = SubSeq(pair, 1, 2)
        BY <1>1, <1>3 DEF SampleTimeSeries, n
    <2>2. \A i \in 1 .. 2 : pair[i] \in P
        BY <1>1, <1>3
    <2>3. pair[1] = s[1] /\ pair[2] = s[n]
        OBVIOUS
    <2> HIDE DEF pair
    <2>4. t \in Seq(P) /\ Len(t) = 2 /\ t[1] = s[1] /\ t[2] = s[n]
        BY <2>1, <2>2, <2>3, SubSeqProperties
    <2>5. s[1][1] < s[n][1]
        <3>1. 1 \in DOMAIN s /\ n \in DOMAIN s /\ 1 < n
            BY <1>1, <1>3
        <3> QED BY <3>1
    <2>6. \A i \in 1 .. Len(t) - 1 : t[i][1] < t[i + 1][1]
        <3>1. \A i \in 1 .. Len(t) - 1 : i = 1 /\ i + 1 = 2
            BY <2>4
        <3> QED BY <2>4, <2>5, <3>1
    <2>7. s # <<>>
        BY <1>1, <1>3 DEF n
    <2>8. Min({n, limit}) = 2
        BY <1>1, <1>3, <1>m
    <2> QED BY <2>4, <2>6, <2>7, <2>8 DEF n, P, Series
<1>4. CASE n > limit /\ limit >= 3
    <2> DEFINE at == [i \in 1 .. limit |-> 1 + Near(i - 1, n, limit)]
    <2>1. SampleIndex(n, limit) = at
        BY <1>1, <1>4, SampleIndexIsNear
    <2>2. t = [i \in 1 .. limit |-> s[SampleIndex(n, limit)[i]]]
        BY <1>1, <1>4 DEF SampleTimeSeries, n
    <2>3. /\ \A i \in 0 .. limit - 1 : Near(i, n, limit) \in Nat
          /\ Near(0, n, limit) = 0 /\ Near(limit - 1, n, limit) = n - 1
          /\ \A i, j \in 0 .. limit - 1 : i < j => Near(i, n, limit) < Near(j, n, limit)
        BY <1>1, <1>4, NearGrows, NearBounded
    <2>4. \A i \in 0 .. limit - 1 : Near(i, n, limit) <= n - 1
        <3> SUFFICES ASSUME NEW i \in 0 .. limit - 1 PROVE Near(i, n, limit) <= n - 1
            OBVIOUS
        <3>1. limit - 1 \in 0 .. limit - 1 /\ (i < limit - 1 \/ i = limit - 1)
            BY <1>4
        <3>2. i < limit - 1 => Near(i, n, limit) < Near(limit - 1, n, limit)
            BY <2>3, <3>1
        <3>3. Near(i, n, limit) \in Nat
            BY <2>3
        <3> QED BY <1>1, <2>3, <3>1, <3>2, <3>3
    <2>5. \A i \in 1 .. limit : i - 1 \in 0 .. limit - 1 /\ at[i] = 1 + Near(i - 1, n, limit)
        OBVIOUS
    <2> HIDE DEF at
    <2>6. \A i \in 1 .. limit : at[i] \in 1 .. n
        <3> SUFFICES ASSUME NEW i \in 1 .. limit PROVE at[i] \in 1 .. n
            OBVIOUS
        <3>1. Near(i - 1, n, limit) \in Nat /\ Near(i - 1, n, limit) <= n - 1
            BY <2>3, <2>4, <2>5
        <3> QED BY <1>1, <2>5, <3>1
    <2>7. \A i \in 1 .. limit : t[i] = s[at[i]]
        BY <2>1, <2>2
    <2>8. t \in [1 .. limit -> P]
        BY <1>1, <2>1, <2>2, <2>6
    <2>9. t \in Seq(P) /\ Len(t) = limit
        BY <2>8, ListOfLength
    <2>10. \A i \in 1 .. limit - 1 : t[i][1] < t[i + 1][1]
        <3> SUFFICES ASSUME NEW i \in 1 .. limit - 1 PROVE t[i][1] < t[i + 1][1]
            OBVIOUS
        <3>1. i \in 1 .. limit /\ i + 1 \in 1 .. limit /\ (i + 1) - 1 = i /\ i - 1 < i
              /\ i - 1 \in 0 .. limit - 1 /\ i \in 0 .. limit - 1
            BY <1>4
        <3>2. Near(i - 1, n, limit) < Near(i, n, limit)
            BY <2>3, <3>1
        <3>3. at[i] = 1 + Near(i - 1, n, limit) /\ at[i + 1] = 1 + Near(i, n, limit)
            BY <2>5, <3>1
        <3>4. at[i] < at[i + 1]
            <4>1. Near(i - 1, n, limit) \in Nat /\ Near(i, n, limit) \in Nat
                BY <2>3, <3>1
            <4> QED BY <3>2, <3>3, <4>1
        <3>5. s[at[i]][1] < s[at[i + 1]][1]
            BY <1>1, <2>6, <3>1, <3>4
        <3> QED BY <2>7, <3>1, <3>5
    <2>11. at[1] = 1 /\ at[limit] = n
        <3>1. 1 \in 1 .. limit /\ limit \in 1 .. limit /\ 1 - 1 = 0
            BY <1>4
        <3>2. at[1] = 1 + 0 /\ at[limit] = 1 + (n - 1)
            BY <2>3, <2>5, <3>1
        <3> QED BY <1>1, <3>2
    <2>12. t[1] = s[1] /\ t[limit] = s[n]
        BY <1>4, <2>7, <2>11
    <2>13. s # <<>>
        BY <1>1, <1>4 DEF n
    <2> QED BY <1>1, <1>4, <1>m, <2>9, <2>10, <2>12, <2>13 DEF n, P, Series
<1>5. limit = 2 \/ limit >= 3
    OBVIOUS
<1> QED BY <1>1, <1>2, <1>3, <1>4, <1>5

-----------------------------------------------------------------------------
(* Odds of a race                                                          *)

\* A series that was read: what there is now goes on from it.
Fetched(e, s) ==
    /\ Len(s) <= Len(db.snaps[e])
    /\ \A i \in 1 .. Len(s) : s[i] = db.snaps[e][i]
    /\ loaded = {} => s = db.snaps[e]

RawRow(row) ==
    \E e \in Entries, s \in Series : Fetched(e, s) /\ row = [entry |-> e, snapshots |-> s]

ThinRow(row) ==
    \E e \in Entries, s \in Series :
        Fetched(e, s) /\ row = [entry |-> e, snapshots |-> SampleTimeSeries(s, MaxSnapshots)]

OddsOK ==
    client.kind = "odds" =>
        /\ Len(got) >= 2 => \A row \in got[2] : RawRow(row)
        /\ \A i \in 1 .. Len(answers) :
              answers[i].found => \A row \in answers[i].entries : ThinRow(row)

LEMMA FetchedStays ==
    ASSUME Known, Quiet, NEW e \in Entries, NEW s \in Series, Fetched(e, s)
    PROVE  Fetched(e, s)'
<1>1. /\ Len(db.snaps[e]) <= Len(db'.snaps[e])
      /\ \A i \in 1 .. Len(db.snaps[e]) : db'.snaps[e][i] = db.snaps[e][i]
    BY DEF Quiet, Sound, Grown
<1>2. db.snaps[e] \in Series /\ db'.snaps[e] \in Series
    BY DEF Quiet, Sound, Known, Tables, Series
<1>3. Len(s) \in Nat /\ Len(db.snaps[e]) \in Nat /\ Len(db'.snaps[e]) \in Nat
    BY <1>2 DEF Series
<1>4. loaded' = {} => s = db'.snaps[e]
    BY DEF Quiet, Alike, Fetched
<1>5. Len(s) <= Len(db'.snaps[e]) /\ \A i \in 1 .. Len(s) : s[i] = db'.snaps[e][i]
    BY <1>1, <1>3 DEF Fetched
<1> QED BY <1>4, <1>5 DEF Fetched

LEMMA OddsKept ==
    ASSUME Base, OddsOK, client.kind = "odds", GetRaceOdds
    PROVE  OddsOK'
<1> USE DEF OddsOK
<1>k. Known /\ ClientOK /\ asking
    BY DEF Base, ServiceOK, GetRaceOdds, Serving
<1>r. UNCHANGED <<db, loaded, client>>
    BY ServeReads DEF Serve, ReadsOnly
<1>c. \A row : (RawRow(row)' <=> RawRow(row)) /\ (ThinRow(row)' <=> ThinRow(row))
    BY <1>r DEF RawRow, ThinRow, Fetched
<1>1. CASE Read(1, RaceRow)
    <2>1. Len(got') = 1 /\ answers' = answers
        BY <1>1, <1>k, ReadStep
    <2> QED BY <2>1, <1>c, <1>r
<1>2. CASE Missing
    <2>1. Reply(1, NotFound) /\ NotFound.found = FALSE
        BY <1>2 DEF Missing, NotFound
    <2>2. /\ Len(got') = 0
          /\ \A i \in 1 .. Len(answers') : \/ i \in 1 .. Len(answers) /\ answers'[i] = answers[i]
                                           \/ answers'[i] = NotFound
        BY <2>1, <1>k, AnsweredBefore
    <2> QED BY <2>1, <2>2, <1>c, <1>r
<1>3. ASSUME NEW wanted \in {Field} \cup {{e} : e \in Field},
             ReadNext(2, {[entry |-> e, snapshots |-> db.snaps[e]] : e \in wanted})
      PROVE  OddsOK'
    <2> DEFINE rows == {[entry |-> e, snapshots |-> db.snaps[e]] : e \in wanted}
    <2>1. Read(2, rows)
        BY <1>3 DEF ReadNext
    <2>2. \A e \in wanted : e \in Entries /\ db.snaps[e] \in Series
        BY <1>k DEF Known, Field, In, Tables, Series
    <2>3. \A row \in rows : RawRow(row)
        BY <2>2 DEF RawRow, Fetched
    <2> HIDE DEF rows
    <2>4. Len(got') = 2 /\ got'[2] = rows /\ answers' = answers
        BY <2>1, <1>k, ReadStep
    <2> QED BY <2>3, <2>4, <1>c, <1>r
<1>4. CASE Reply(2, [found |-> TRUE, entries |-> OddsEntries(got[2])])
    <2> DEFINE answer == [found |-> TRUE, entries |-> OddsEntries(got[2])]
    <2>1. Len(got) = 2
        BY <1>4 DEF Reply, After
    <2>2. \A row \in got[2] : RawRow(row)
        BY <2>1
    <2>3. ASSUME NEW raw, RawRow(raw)
          PROVE  ThinRow([raw EXCEPT !.snapshots = SampleTimeSeries(@, MaxSnapshots)])
        <3>1. PICK e \in Entries, s \in Series : Fetched(e, s) /\ raw = [entry |-> e, snapshots |-> s]
            BY <2>3 DEF RawRow
        <3>2. [raw EXCEPT !.snapshots = SampleTimeSeries(@, MaxSnapshots)] =
                 [entry |-> e, snapshots |-> SampleTimeSeries(s, MaxSnapshots)]
            BY <3>1
        <3> QED BY <3>1, <3>2 DEF ThinRow
    <2>4. \A row \in answer.entries : ThinRow(row)
        BY <2>2, <2>3 DEF OddsEntries
    <2> HIDE DEF answer
    <2>5. /\ Len(got') = 0
          /\ \A i \in 1 .. Len(answers') : \/ i \in 1 .. Len(answers) /\ answers'[i] = answers[i]
                                           \/ answers'[i] = answer
        BY <1>4, <1>k, AnsweredBefore DEF answer
    <2> QED BY <2>4, <2>5, <1>c, <1>r
<1> QED BY <1>1, <1>2, <1>3, <1>4 DEF GetRaceOdds

LEMMA OddsStay ==
    ASSUME Base, OddsOK, [Next]_vars
    PROVE  OddsOK'
<1>k. Known
    BY DEF Base
<1>1. CASE Quiet
    <2>1. \A row : (RawRow(row) => RawRow(row)') /\ (ThinRow(row) => ThinRow(row)')
        BY <1>1, <1>k, FetchedStays DEF RawRow, ThinRow
    <2>2. UNCHANGED <<client, got, answers>>
        BY <1>1 DEF Quiet
    <2> QED BY <2>1, <2>2 DEF OddsOK
<1>2. CASE Opened
    BY <1>2 DEF Opened, OddsOK
<1>3. CASE Serve
    <2>1. client' = client
        BY <1>3, ServeReads DEF ReadsOnly
    <2>2. CASE client.kind = "odds"
        <3>1. GetRaceOdds
            BY <1>3, <2>2, ServesKind
        <3> QED BY <2>2, <3>1, OddsKept
    <2> QED BY <2>1, <2>2 DEF OddsOK
<1> QED BY <1>1, <1>2, <1>3, StepCases

LEMMA ThinRowSpans ==
    ASSUME Known, NEW row, ThinRow(row)
    PROVE  LET s == row.snapshots
               all == db.snaps[row.entry]
           IN  /\ \A i \in 1 .. Len(s) - 1 : s[i][1] < s[i + 1][1]
               /\ s # <<>> => s[1] = all[1]
               /\ loaded = {} => /\ Len(s) = Min({Len(all), MaxSnapshots})
                                 /\ s # <<>> => s[Len(s)] = all[Len(all)]
<1>1. PICK e \in Entries, raw \in Series :
         Fetched(e, raw) /\ row = [entry |-> e, snapshots |-> SampleTimeSeries(raw, MaxSnapshots)]
    BY DEF ThinRow
<1> DEFINE s == SampleTimeSeries(raw, MaxSnapshots)
           all == db.snaps[e]
<1>2. row.snapshots = s /\ row.entry = e
    BY <1>1
<1>3. all \in Series /\ \A i, j \in DOMAIN all : i < j => all[i][1] < all[j][1]
    BY DEF Known, MarketOK, Marketed, Tables, Series
<1>4. /\ Len(raw) \in Nat /\ DOMAIN raw = 1 .. Len(raw) /\ Len(all) \in Nat
      /\ DOMAIN all = 1 .. Len(all) /\ Len(raw) <= Len(all)
      /\ \A i \in 1 .. Len(raw) : raw[i] = all[i]
      /\ loaded = {} => raw = all
    BY <1>1, <1>3 DEF Fetched, Series
<1>5. \A i, j \in DOMAIN raw : i < j => raw[i][1] < raw[j][1]
    BY <1>3, <1>4
<1>6. MaxSnapshots \in Nat \ {0, 1}
    BY ReadAssumption
<1> HIDE DEF s, all
<1>7. /\ s \in Series
      /\ Len(s) = Min({Len(raw), MaxSnapshots})
      /\ \A i \in 1 .. Len(s) - 1 : s[i][1] < s[i + 1][1]
      /\ s # <<>> => raw # <<>> /\ s[1] = raw[1] /\ s[Len(s)] = raw[Len(raw)]
    BY <1>5, <1>6, ThinnedSeries DEF s
<1>8. raw # <<>> => raw[1] = all[1]
    BY <1>4 DEF Series
<1> QED BY <1>2, <1>4, <1>7, <1>8 DEF all

\* The series get_race_odds thins keeps the limit, the order, and the first
\* and the last of its prices (_sample_time_series).
THEOREM SeriesAreSpanned == Spec => []SeriesSpans
<1>1. Init => OddsOK
    <2> SUFFICES ASSUME Init PROVE OddsOK
        OBVIOUS
    <2>1. Len(got) = 0 /\ Len(answers) = 0
        BY DEF Init
    <2> QED BY <2>1 DEF OddsOK
<1>2. Base /\ OddsOK /\ [Next]_vars => OddsOK'
    BY OddsStay
<1>3. Base /\ OddsOK => SeriesSpans
    <2> SUFFICES ASSUME Base, OddsOK, Found("odds") PROVE SeriesSpans
        BY DEF SeriesSpans
    <2>1. client.kind = "odds" /\ answers # <<>> /\ Answer.found /\ ClientOK /\ Known
        BY DEF Found, Answered, Answer, Base, ServiceOK
    <2>2. Len(answers) \in 1 .. Len(answers)
        BY <2>1 DEF ClientOK
    <2>3. \A row \in Answer.entries : ThinRow(row)
        BY <2>1, <2>2 DEF OddsOK, Answer
    <2> QED BY <2>1, <2>3, ThinRowSpans DEF SeriesSpans
<1> QED BY <1>1, <1>2, <1>3, BaseHolds, PTL DEF Spec

-----------------------------------------------------------------------------
(* The racing pulse                                                        *)

\* A table that is not cut off is the whole of what it is cut from.
LEMMA ShortIsWhole ==
    ASSUME NEW S, IsFiniteSet(S), NEW n \in Nat, NEW K, K \subseteq S,
           Cardinality(K) = Min({n, Cardinality(S)}), Cardinality(K) < n
    PROVE  K = S
<1>1. Cardinality(S) \in Nat
    BY FS_CardinalityType
<1>2. \A a, b \in Nat : Min({a, b}) = IF a <= b THEN a ELSE b
    BY MinOfTwo
<1>3. \A c, a, b \in Nat : c = (IF a <= b THEN a ELSE b) /\ c < a => c = b
    OBVIOUS
<1>4. Cardinality(K) \in Nat
    BY FS_Subset, FS_CardinalityType
<1>5. Cardinality(K) = Cardinality(S)
    BY <1>1, <1>2, <1>3, <1>4
<1> QED BY <1>5, FS_Subset

LEMMA WindowFinite ==
    ASSUME db \in Tables
    PROVE  /\ IsFiniteSet(Wanted) /\ Wanted \subseteq Races /\ IsFiniteSet(In(Wanted))
           /\ In(Wanted) \subseteq Entries
           /\ \A S : IsFiniteSet(In(S)) /\ In(S) \subseteq Entries
           /\ Cardinality(Wanted) \in Nat /\ Cardinality(In(Wanted)) \in Nat
<1>1. Wanted \subseteq Races /\ \A S : In(S) \subseteq Entries
    BY DEF Wanted, In, Tables
<1>2. IsFiniteSet(Wanted) /\ \A S : IsFiniteSet(In(S))
    BY <1>1, ReadAssumption, FS_Subset
<1> QED BY <1>1, <1>2, FS_CardinalityType

\* A sum over the rows of a table.
TotalOf(items, column) == SumFunctionOnSet([item \in items |-> item[column]], items)

LEMMA TotalIs ==
    ASSUME NEW items, NEW column
    PROVE  Total(items, column) = TotalOf(items, column)
<1> DEFINE f == [item \in items |-> item[column]]
<1>1. DOMAIN f = items
    OBVIOUS
<1> HIDE DEF f
<1>2. SumFunction(f) = SumFunctionOnSet(f, items)
    BY <1>1 DEF SumFunction
<1> QED BY <1>2 DEF f, Total, TotalOf

\* The groups of a window account for each of its races and runners once.
GroupOf(column, g) == {r \in Wanted : Group(r, column) = g}

LEMMA GroupedIs ==
    ASSUME NEW column
    PROVE  Grouped(column) = {Activity(g, GroupOf(column, g)) : g \in {Group(r, column) : r \in Wanted}}
BY DEF Grouped, GroupOf

LEMMA GroupedFinite ==
    ASSUME db \in Tables, NEW column
    PROVE  IsFiniteSet(Grouped(column))
<1> DEFINE of == [r \in Wanted |-> Activity(Group(r, column), GroupOf(column, Group(r, column)))]
<1>1. of \in Surjection(Wanted, Grouped(column))
    BY GroupedIs DEF Surjection
<1> QED BY <1>1, WindowFinite, FS_Surjection

LEMMA GroupsSumUp ==
    ASSUME db \in Tables, NEW column, NEW S, IsFiniteSet(S), NEW race, NEW measure,
           \A x \in S : race[x] \in Wanted,
           \A g : \A T \in SUBSET Wanted :
              Activity(g, T)[measure] = Cardinality({x \in S : race[x] \in T})
    PROVE  TotalOf(Grouped(column), measure) = Cardinality(S)
<1> DEFINE K == Grouped(column)
           item(g) == Activity(g, GroupOf(column, g))
           key == [x \in S |-> item(Group(race[x], column))]
           one == [x \in S |-> 1]
           part == [k \in K |-> k[measure]]
<1>1. IsFiniteSet(K) /\ \A r \in Wanted : item(Group(r, column)) \in K
    BY GroupedFinite, GroupedIs
<1>2. \A x \in S : key[x] \in K
    BY <1>1
<1>3. \A g : item(g).group = g
    BY DEF Activity
<1>4. ASSUME NEW k \in K PROVE part[k] = SumFunctionOnSet(one, Part(S, key, k))
    <2>1. PICK r \in Wanted : k = item(Group(r, column))
        BY GroupedIs
    <2> DEFINE g == Group(r, column)
               P == {x \in S : race[x] \in GroupOf(column, g)}
    <2>2. Part(S, key, k) = P
        <3>1. \A x \in S : key[x] = k <=> Group(race[x], column) = g
            BY <1>3, <2>1
        <3> QED BY <3>1 DEF Part, GroupOf
    <2>3. part[k] = Cardinality(P)
        <3>1. GroupOf(column, g) \in SUBSET Wanted
            BY DEF GroupOf
        <3> QED BY <2>1, <3>1
    <2>4. IsFiniteSet(P) /\ \A x \in P : one[x] = 1
        BY FS_Subset
    <2> HIDE DEF P, one
    <2>5. SumFunctionOnSet(one, P) = Cardinality(P)
        BY <2>4, SumOfOnes
    <2> QED BY <2>2, <2>3, <2>5
<1>5. Integral(one, S) /\ \A x \in S : one[x] = 1
    BY DEF Integral
<1>6. TotalOf(K, measure) = SumFunctionOnSet(part, K)
    BY DEF TotalOf
<1> HIDE DEF K, key, one, part
<1>7. SumFunctionOnSet(part, K) = SumFunctionOnSet(one, S)
    BY <1>1, <1>2, <1>4, <1>5, SumOfParts
<1>8. SumFunctionOnSet(one, S) = Cardinality(S)
    BY <1>5, SumOfOnes
<1> QED BY <1>6, <1>7, <1>8 DEF K

LEMMA GroupsCover ==
    ASSUME db \in Tables, NEW column
    PROVE  /\ Total(Grouped(column), "races") = Cardinality(Wanted)
           /\ Total(Grouped(column), "runners") = Cardinality(In(Wanted))
<1>0. IsFiniteSet(Wanted) /\ IsFiniteSet(In(Wanted))
    BY WindowFinite
<1>1. TotalOf(Grouped(column), "races") = Cardinality(Wanted)
    <2> DEFINE self == [r \in Wanted |-> r]
    <2>1. \A r \in Wanted : self[r] \in Wanted
        OBVIOUS
    <2>2. \A g : \A T \in SUBSET Wanted :
             Activity(g, T)["races"] = Cardinality({r \in Wanted : self[r] \in T})
        <3> SUFFICES ASSUME NEW T \in SUBSET Wanted
                     PROVE  {r \in Wanted : self[r] \in T} = T
            BY DEF Activity
        <3> QED OBVIOUS
    <2> HIDE DEF self
    <2> QED BY <1>0, <2>1, <2>2, GroupsSumUp
<1>2. TotalOf(Grouped(column), "runners") = Cardinality(In(Wanted))
    <2> DEFINE of == [e \in In(Wanted) |-> RaceOf[e]]
               S == In(Wanted)
    <2>1. \A e \in S : of[e] \in Wanted
        BY DEF In
    <2>2. \A g : \A T \in SUBSET Wanted :
             Activity(g, T)["runners"] = Cardinality({e \in S : of[e] \in T})
        <3> SUFFICES ASSUME NEW T \in SUBSET Wanted
                     PROVE  {e \in S : of[e] \in T} = In(T)
            BY DEF Activity
        <3> QED BY DEF In
    <2> HIDE DEF of
    <2> QED BY <1>0, <2>1, <2>2, GroupsSumUp
<1> QED BY <1>1, <1>2, TotalIs

\* No more favourites than races: each is the one of its race.
LEMMA FavouritesFew ==
    ASSUME db \in Tables, NEW F \in Favourites
    PROVE  /\ IsFiniteSet(F) /\ Cardinality(F) \in Nat /\ Cardinality(F) <= Cardinality(Wanted)
<1> DEFINE race == [e \in F |-> RaceOf[e]]
<1>1. /\ F \subseteq UNION {Shortest(r) : r \in Wanted}
      /\ \A r \in Wanted : Shortest(r) # {} => Cardinality(F \cap Shortest(r)) = 1
    BY DEF Favourites
<1>2. \A r : \A e \in Shortest(r) : RaceOf[e] = r /\ e \in In(Wanted)
    BY DEF Shortest, Priced
<1>3. F \subseteq In(Wanted) /\ IsFiniteSet(F)
    BY <1>1, <1>2, WindowFinite, FS_Subset
<1>4. \A e \in F : race[e] \in Wanted /\ e \in Shortest(race[e])
    BY <1>1, <1>2
<1> HIDE DEF race
<1>5. ASSUME NEW d \in F, NEW e \in F, race[d] = race[e] PROVE d = e
    <2> DEFINE T == F \cap Shortest(race[d])
    <2>1. Cardinality(T) = 1 /\ d \in T /\ e \in T
        BY <1>1, <1>4, <1>5
    <2>2. IsFiniteSet(T)
        BY <1>3, FS_Subset
    <2> HIDE DEF T
    <2>3. PICK x : T = {x}
        BY <2>1, <2>2, FS_Singleton
    <2> QED BY <2>1, <2>3
<1>6. race \in Injection(F, Wanted)
    BY <1>4, <1>5 DEF Injection, IsInjective, race
<1> QED BY <1>3, <1>6, WindowFinite, FS_Injection, FS_CardinalityType

\* Totals that were read, and tables read after them.
MovedEntries == {e \in Entries : RaceOf[e] \in moved}

TotalsOK(totals) ==
    \E W \in SUBSET Races, R \in SUBSET Entries :
        /\ totals.races = Cardinality(W) /\ totals.runners = Cardinality(R)
        /\ W \subseteq Wanted \cup moved /\ R \subseteq In(Wanted) \cup MovedEntries
        /\ loaded = {} => W = Wanted /\ R = In(Wanted)

TableOK(totals, table) ==
    Cardinality(table) < Limit =>
        /\ \A column \in {"races", "runners"} :
              /\ totals[column] \in Nat /\ Total(table, column) \in Nat
              /\ loaded = {} => totals[column] = Total(table, column)
        /\ totals.races <= Total(table, "races") + Cardinality(moved)
        /\ totals.runners <= Total(table, "runners") + Cardinality(MovedEntries)

FavouritesOK(totals, market) ==
    /\ market.wins <= market.races
    /\ loaded = {} => market.races <= totals.races

PulseOK ==
    client.kind = "pulse" =>
        /\ Len(got) >= 1 => TotalsOK(got[1])
        /\ \A i \in {2, 3, 4} : Len(got) >= i => TableOK(got[1], got[i])
        /\ Len(got) >= 5 => FavouritesOK(got[1], got[5])
        /\ \A i \in 1 .. Len(answers) :
              /\ \A t \in {"coverage", "tracks", "classes"} : TableOK(answers[i].totals, answers[i][t])
              /\ FavouritesOK(answers[i].totals, answers[i].market)

LEMMA WindowGrows ==
    ASSUME Known, Quiet
    PROVE  /\ Wanted \subseteq Wanted' \cup moved'
           /\ In(Wanted) \subseteq In(Wanted)' \cup MovedEntries'
           /\ Alike => Wanted' = Wanted /\ In(Wanted)' = In(Wanted)
<1>1. /\ db.listed \subseteq db'.listed /\ db.entered \subseteq db'.entered
      /\ \A r \in db.listed : r \notin moved' => Held(db', r) = Held(db, r)
      /\ client' = client /\ db.entered \subseteq Entries
    BY DEF Quiet, Sound, Grown, Settled, Known, Tables
<1>2. \A r \in Wanted : r \in Wanted' \/ r \in moved'
    BY <1>1 DEF Wanted, Day
<1>3. \A e \in In(Wanted) : e \in In(Wanted)' \/ e \in MovedEntries'
    BY <1>1, <1>2 DEF In, MovedEntries
<1>4. Alike => Wanted' = Wanted /\ In(Wanted)' = In(Wanted)
    BY <1>1 DEF Alike, Wanted, In, Day, Held
<1> QED BY <1>2, <1>3, <1>4

LEMMA TotalsStay ==
    ASSUME Known, Quiet, NEW totals, TotalsOK(totals)
    PROVE  TotalsOK(totals)'
<1>1. PICK W \in SUBSET Races, R \in SUBSET Entries :
         /\ totals.races = Cardinality(W) /\ totals.runners = Cardinality(R)
         /\ W \subseteq Wanted \cup moved /\ R \subseteq In(Wanted) \cup MovedEntries
         /\ loaded = {} => W = Wanted /\ R = In(Wanted)
    BY DEF TotalsOK
<1>2. moved \subseteq moved' /\ MovedEntries \subseteq MovedEntries'
    BY DEF Quiet, Settled, MovedEntries
<1>3. loaded' = {} => loaded = {} /\ Alike
    BY DEF Quiet
<1>4. /\ W \subseteq Wanted' \cup moved' /\ R \subseteq In(Wanted)' \cup MovedEntries'
      /\ loaded' = {} => W = Wanted' /\ R = In(Wanted)'
    BY <1>1, <1>2, <1>3, WindowGrows
<1> QED BY <1>1, <1>4 DEF TotalsOK

LEMMA MovedFinite ==
    ASSUME Base
    PROVE  /\ IsFiniteSet(moved) /\ IsFiniteSet(MovedEntries)
           /\ Cardinality(moved) \in Nat /\ Cardinality(MovedEntries) \in Nat
<1>1. moved \subseteq Races /\ MovedEntries \subseteq Entries
    BY DEF Base, Known, LoadOK, ServiceOK, MovedEntries
<1> QED BY <1>1, ReadAssumption, FS_Subset, FS_CardinalityType

\* Later totals may be short of what has moved since, and of no more.
LEMMA TableStays ==
    ASSUME Base, Base', Quiet, NEW totals, NEW table, TableOK(totals, table)
    PROVE  TableOK(totals, table)'
<1>1. moved \subseteq moved' /\ MovedEntries \subseteq MovedEntries'
    BY DEF Quiet, Settled, MovedEntries
<1>2. /\ IsFiniteSet(moved') /\ IsFiniteSet(MovedEntries')
      /\ Cardinality(moved) \in Nat /\ Cardinality(MovedEntries) \in Nat
      /\ Cardinality(moved') \in Nat /\ Cardinality(MovedEntries') \in Nat
    <2>1. moved' \subseteq Races /\ MovedEntries' \subseteq Entries
        BY DEF Base, Known, LoadOK, ServiceOK, MovedEntries
    <2> QED BY <2>1, MovedFinite, ReadAssumption, FS_Subset, FS_CardinalityType
<1>3. /\ Cardinality(moved) <= Cardinality(moved')
      /\ Cardinality(MovedEntries) <= Cardinality(MovedEntries')
    BY <1>1, <1>2, FS_Subset
<1>4. loaded' = {} => loaded = {}
    BY DEF Quiet
<1>5. \A column : Total(table, column)' = Total(table, column)
    BY DEF Total
<1> DEFINE a == Cardinality(moved)
           b == Cardinality(moved')
           c == Cardinality(MovedEntries)
           d == Cardinality(MovedEntries')
           x == totals.races
           y == Total(table, "races")
           z == totals.runners
           w == Total(table, "runners")
<1>6. ASSUME Cardinality(table) < Limit
      PROVE  /\ x \in Nat /\ y \in Nat /\ z \in Nat /\ w \in Nat /\ x <= y + a /\ z <= w + c
             /\ loaded = {} => x = y /\ z = w
    BY <1>6 DEF TableOK
<1>7. ASSUME Cardinality(table) < Limit PROVE x <= y + b /\ z <= w + d
    <2>1. /\ x \in Nat /\ y \in Nat /\ z \in Nat /\ w \in Nat /\ x <= y + a /\ z <= w + c
        BY <1>6, <1>7
    <2>2. a \in Nat /\ b \in Nat /\ c \in Nat /\ d \in Nat /\ a <= b /\ c <= d
        BY <1>2, <1>3
    <2> HIDE DEF a, b, c, d, x, y, z, w
    <2> QED BY <2>1, <2>2
<1> QED BY <1>4, <1>5, <1>6, <1>7 DEF TableOK

\* A table of groups accounts for the totals read before it.
LEMMA TableCovers ==
    ASSUME Base, NEW totals, TotalsOK(totals), NEW column, NEW table, table \subseteq Grouped(column),
           \/ table = Grouped(column)
           \/ Cardinality(table) = Min({Limit, Cardinality(Grouped(column))})
    PROVE  TableOK(totals, table)
<1>1. db \in Tables /\ IsFiniteSet(Grouped(column)) /\ Limit \in Nat
    BY GroupedFinite, ReadAssumption DEF Base, Known
<1>2. ASSUME Cardinality(table) < Limit PROVE table = Grouped(column)
    BY <1>1, <1>2, ShortIsWhole
<1>3. /\ Total(Grouped(column), "races") = Cardinality(Wanted)
      /\ Total(Grouped(column), "runners") = Cardinality(In(Wanted))
    BY <1>1, GroupsCover
<1>4. PICK W \in SUBSET Races, R \in SUBSET Entries :
         /\ totals.races = Cardinality(W) /\ totals.runners = Cardinality(R)
         /\ W \subseteq Wanted \cup moved /\ R \subseteq In(Wanted) \cup MovedEntries
         /\ loaded = {} => W = Wanted /\ R = In(Wanted)
    BY DEF TotalsOK
<1>5. /\ IsFiniteSet(Wanted) /\ IsFiniteSet(In(Wanted))
      /\ IsFiniteSet(moved) /\ IsFiniteSet(MovedEntries)
    BY <1>1, WindowFinite, MovedFinite
<1>6. ASSUME NEW A, NEW B, NEW C, IsFiniteSet(A), IsFiniteSet(B), C \subseteq A \cup B
      PROVE  /\ Cardinality(C) \in Nat /\ Cardinality(A) \in Nat
             /\ Cardinality(C) <= Cardinality(A) + Cardinality(B)
    <2>1. IsFiniteSet(A \cup B) /\ IsFiniteSet(A \cap B)
        BY <1>6, FS_Union, FS_Intersection
    <2>2. IsFiniteSet(C) /\ Cardinality(C) <= Cardinality(A \cup B)
        BY <1>6, <2>1, FS_Subset
    <2>3. Cardinality(A \cup B) = Cardinality(A) + Cardinality(B) - Cardinality(A \cap B)
        BY <1>6, FS_Union
    <2>4. /\ Cardinality(C) \in Nat /\ Cardinality(A) \in Nat /\ Cardinality(B) \in Nat
          /\ Cardinality(A \cap B) \in Nat
        BY <1>6, <2>1, <2>2, FS_CardinalityType
    <2> QED BY <2>2, <2>3, <2>4
<1>7. /\ totals.races \in Nat /\ Cardinality(Wanted) \in Nat
      /\ totals.races <= Cardinality(Wanted) + Cardinality(moved)
    BY <1>4, <1>5, <1>6
<1>8. /\ totals.runners \in Nat /\ Cardinality(In(Wanted)) \in Nat
      /\ totals.runners <= Cardinality(In(Wanted)) + Cardinality(MovedEntries)
    BY <1>4, <1>5, <1>6
<1>9. ASSUME Cardinality(table) < Limit
      PROVE  /\ Total(table, "races") = Cardinality(Wanted)
             /\ Total(table, "runners") = Cardinality(In(Wanted))
    BY <1>2, <1>3, <1>9
<1> QED BY <1>4, <1>7, <1>8, <1>9 DEF TableOK

LEMMA PulseReads ==
    ASSUME Base, PulseOK, client.kind = "pulse", asking, NEW n \in 1 .. 7, NEW rows, Read(n, rows),
           n = 1 => TotalsOK(rows),
           n \in {2, 3, 4} => TableOK(got[1], rows),
           n = 5 => FavouritesOK(got[1], rows)
    PROVE  PulseOK'
<1>k. ClientOK
    BY DEF Base, ServiceOK
<1>1. /\ n = Len(got) + 1 /\ Len(got') = n /\ got'[n] = rows
      /\ \A i \in 1 .. Len(got) : got'[i] = got[i]
      /\ UNCHANGED <<db, loaded, moved, client, answers>>
    <2>1. n \in Nat
        OBVIOUS
    <2> QED BY <1>k, <2>1, ReadStep
<1>2. Len(got) \in Nat
    BY <1>k DEF ClientOK
<1>3. \A i \in 1 .. 7 : n >= i => i \in 1 .. Len(got) \/ i = n
    BY <1>1, <1>2
<1>4. \A i \in 1 .. Len(got) : Len(got) >= i
    BY <1>2
<1>c. /\ \A totals : TotalsOK(totals)' <=> TotalsOK(totals)
      /\ \A totals, table : TableOK(totals, table)' <=> TableOK(totals, table)
      /\ \A totals, market : FavouritesOK(totals, market)' <=> FavouritesOK(totals, market)
    BY <1>1 DEF TotalsOK, TableOK, FavouritesOK, Wanted, In, Day, Held, Total, MovedEntries
<1>5. n >= 1 => TotalsOK(got'[1])
    <2>1. CASE n = 1
        BY <1>1, <2>1
    <2>2. CASE n > 1
        <3>1. 1 \in 1 .. Len(got)
            BY <1>1, <1>2, <2>2
        <3> QED BY <1>1, <1>4, <3>1 DEF PulseOK
    <2> QED BY <2>1, <2>2
<1>6. n > 1 => got'[1] = got[1]
    BY <1>1, <1>2
<1>7. ASSUME NEW i \in {2, 3, 4}, n >= i PROVE TableOK(got'[1], got'[i])
    <2>1. CASE i = n
        BY <1>1, <1>6, <1>7, <2>1
    <2>2. CASE i # n
        <3>1. i \in 1 .. Len(got) /\ Len(got) >= i /\ n > 1
            BY <1>1, <1>2, <1>7, <2>2
        <3> QED BY <1>1, <1>6, <3>1 DEF PulseOK
    <2> QED BY <2>1, <2>2
<1>8. ASSUME n >= 5 PROVE FavouritesOK(got'[1], got'[5])
    <2>1. CASE n = 5
        BY <1>1, <1>6, <2>1
    <2>2. CASE n # 5
        <3>1. 5 \in 1 .. Len(got) /\ Len(got) >= 5 /\ n > 1
            BY <1>1, <1>2, <1>8, <2>2
        <3> QED BY <1>1, <1>6, <3>1 DEF PulseOK
    <2> QED BY <2>1, <2>2
<1>9. \A i \in 1 .. Len(answers) :
         /\ \A t \in {"coverage", "tracks", "classes"} : TableOK(answers[i].totals, answers[i][t])
         /\ FavouritesOK(answers[i].totals, answers[i].market)
    BY DEF PulseOK
<1> QED BY <1>1, <1>5, <1>7, <1>8, <1>9, <1>c DEF PulseOK

LEMMA PulseKept ==
    ASSUME Base, PulseOK, client.kind = "pulse", GetRacingPulse
    PROVE  PulseOK'
<1>k. Known /\ ClientOK /\ asking /\ db \in Tables
    BY DEF Base, ServiceOK, GetRacingPulse, Serving, Known
<1>g. Len(got) \in Nat
    BY <1>k DEF ClientOK
<1>t. ASSUME NEW n \in 2 .. 7, NEW rows, Read(n, rows) PROVE TotalsOK(got[1])
    <2>1. n \in Nat /\ n >= 2
        OBVIOUS
    <2>2. n = Len(got) + 1
        BY <1>k, <1>t, <2>1, ReadStep
    <2>3. Len(got) >= 1
        BY <1>g, <2>1, <2>2
    <2> QED BY <2>3 DEF PulseOK
<1>1. CASE Read(1, Activity("all", Wanted))
    <2>1. TotalsOK(Activity("all", Wanted))
        <3>1. Wanted \in SUBSET Races /\ In(Wanted) \in SUBSET Entries
            BY <1>k, WindowFinite
        <3> QED BY <3>1 DEF TotalsOK, Activity
    <2> QED BY <1>1, <1>k, <2>1, PulseReads
<1>2. CASE Read(2, Grouped("day"))
    <2>1. TotalsOK(got[1])
        BY <1>2, <1>t
    <2>2. TableOK(got[1], Grouped("day"))
        BY <2>1, TableCovers
    <2> QED BY <1>2, <1>k, <2>2, PulseReads
<1>3. ASSUME NEW n \in {3, 4}, NEW column, ReadAny(n, Tops(Grouped(column), Limit, Busier))
      PROVE  PulseOK'
    <2>1. PICK table \in Tops(Grouped(column), Limit, Busier) : Read(n, table)
        BY <1>3 DEF ReadAny
    <2>2. /\ table \subseteq Grouped(column)
          /\ Cardinality(table) = Min({Limit, Cardinality(Grouped(column))})
        BY DEF Tops
    <2>3. TotalsOK(got[1])
        BY <1>t, <2>1
    <2>4. TableOK(got[1], table)
        BY <2>2, <2>3, TableCovers
    <2> QED BY <1>k, <2>1, <2>4, PulseReads
<1>5. CASE ReadAny(5, {[priced |-> Cardinality(Priced),
                        races  |-> Cardinality(F),
                        wins   |-> Cardinality({e \in F : db.position[e] = 1})] : F \in Favourites})
    <2>1. PICK F \in Favourites :
             Read(5, [priced |-> Cardinality(Priced),
                      races  |-> Cardinality(F),
                      wins   |-> Cardinality({e \in F : db.position[e] = 1})])
        BY <1>5 DEF ReadAny
    <2> DEFINE W == {e \in F : db.position[e] = 1}
               market == [priced |-> Cardinality(Priced), races |-> Cardinality(F),
                          wins |-> Cardinality(W)]
    <2>2. TotalsOK(got[1])
        BY <1>t, <2>1
    <2>3. Cardinality(F) \in Nat /\ Cardinality(F) <= Cardinality(Wanted) /\ IsFiniteSet(F)
        BY <1>k, FavouritesFew
    <2>4. Cardinality(W) <= Cardinality(F)
        BY <2>3, FS_Subset
    <2> HIDE DEF W
    <2>5. market.races = Cardinality(F) /\ market.wins = Cardinality(W)
        OBVIOUS
    <2> HIDE DEF market
    <2>6. FavouritesOK(got[1], market)
        <3>1. loaded = {} => got[1].races = Cardinality(Wanted)
            BY <2>2 DEF TotalsOK
        <3> QED BY <2>3, <2>4, <2>5, <3>1 DEF FavouritesOK
    <2> QED BY <1>k, <2>1, <2>6, PulseReads DEF market, W
<1>6. ASSUME NEW n \in {6, 7}, NEW results, ReadAny(n, results) PROVE PulseOK'
    <2>1. PICK rows : Read(n, rows)
        BY <1>6 DEF ReadAny
    <2> QED BY <1>k, <2>1, PulseReads
<1> DEFINE answer == [totals |-> got[1], coverage |-> got[2], tracks |-> got[3],
                      classes |-> got[4], market |-> got[5], jockeys |-> got[6], trainers |-> got[7]]
<1>7. CASE Reply(7, answer)
    <2>1. Len(got) = 7
        BY <1>7 DEF Reply, After
    <2>2. /\ \A i \in {2, 3, 4} : TableOK(got[1], got[i])
          /\ FavouritesOK(got[1], got[5])
        BY <2>1 DEF PulseOK
    <2>3. /\ answer.totals = got[1] /\ answer["coverage"] = got[2] /\ answer["tracks"] = got[3]
          /\ answer["classes"] = got[4] /\ answer.market = got[5]
        OBVIOUS
    <2> HIDE DEF answer
    <2>4. /\ Len(got') = 0
          /\ \A i \in 1 .. Len(answers') : \/ i \in 1 .. Len(answers) /\ answers'[i] = answers[i]
                                           \/ answers'[i] = answer
          /\ UNCHANGED <<db, loaded, moved, client>>
        BY <1>7, <1>k, AnsweredBefore
    <2>5. /\ \A totals, table : TableOK(totals, table)' <=> TableOK(totals, table)
          /\ \A totals, market : FavouritesOK(totals, market)' <=> FavouritesOK(totals, market)
        BY <2>4 DEF TableOK, FavouritesOK, Total, MovedEntries
    <2>6. /\ \A t \in {"coverage", "tracks", "classes"} : TableOK(answer.totals, answer[t])
          /\ FavouritesOK(answer.totals, answer.market)
        BY <2>2, <2>3
    <2> QED BY <2>4, <2>5, <2>6 DEF PulseOK
<1> QED BY <1>1, <1>2, <1>3, <1>5, <1>6, <1>7 DEF GetRacingPulse

LEMMA PulseStays ==
    ASSUME Base, PulseOK, [Next]_vars
    PROVE  PulseOK'
<1>k. Known /\ Base'
    BY BaseKept DEF Base
<1>1. CASE Quiet
    <2>1. \A totals : TotalsOK(totals) => TotalsOK(totals)'
        BY <1>1, <1>k, TotalsStay
    <2>2. UNCHANGED <<client, got, answers>> /\ (loaded' = {} => loaded = {})
        BY <1>1 DEF Quiet
    <2>3. /\ \A totals, table : TableOK(totals, table) => TableOK(totals, table)'
          /\ \A totals, market : FavouritesOK(totals, market) => FavouritesOK(totals, market)'
        BY <1>1, <1>k, <2>2, TableStays DEF FavouritesOK
    <2> QED BY <2>1, <2>2, <2>3 DEF PulseOK
<1>2. CASE Opened
    BY <1>2 DEF Opened, PulseOK
<1>3. CASE Serve
    <2>1. client' = client
        BY <1>3, ServeReads DEF ReadsOnly
    <2>2. CASE client.kind = "pulse"
        <3>1. GetRacingPulse
            BY <1>3, <2>2, ServesKind
        <3> QED BY <2>2, <3>1, PulseKept
    <2> QED BY <2>1, <2>2 DEF PulseOK
<1> QED BY <1>1, <1>2, <1>3, StepCases

\* The tables of get_racing_pulse that are not cut off account for its totals,
\* but for races moved to another meeting or day while it reads, and for no more
\* than the totals if nothing is loaded; no more favourites win than there are races.
THEOREM PulsesAddUp == Spec => []PulseAddsUp
<1>1. Init => PulseOK
    <2> SUFFICES ASSUME Init PROVE PulseOK
        OBVIOUS
    <2>1. Len(got) = 0 /\ Len(answers) = 0
        BY DEF Init
    <2> QED BY <2>1 DEF PulseOK
<1>2. Base /\ PulseOK /\ [Next]_vars => PulseOK'
    BY PulseStays
<1>3. Base /\ PulseOK => PulseAddsUp
    <2> SUFFICES ASSUME Base, PulseOK, Answered("pulse") PROVE PulseAddsUp
        BY DEF PulseAddsUp
    <2>1. client.kind = "pulse" /\ answers # <<>> /\ ClientOK
        BY DEF Answered, Base, ServiceOK
    <2>2. Len(answers) \in 1 .. Len(answers)
        BY <2>1 DEF ClientOK
    <2>3. /\ \A t \in {"coverage", "tracks", "classes"} : TableOK(Answer.totals, Answer[t])
          /\ FavouritesOK(Answer.totals, Answer.market)
        BY <2>1, <2>2 DEF PulseOK, Answer
    <2> QED BY <2>3 DEF PulseAddsUp, TableOK, FavouritesOK, MovedEntries
<1> QED BY <1>1, <1>2, <1>3, BaseHolds, PTL DEF Spec

-----------------------------------------------------------------------------
(* Rates of people                                                         *)

PersonEntries(role) ==
    {x \in In(Wanted) : /\ db.entry[x][role] # "" /\ x \notin db.scratched
                        /\ db.position[x] # Null}

PersonRow(e, role, split) ==
    [entry    |-> e,
     person   |-> db.entry[e][role],
     split    |-> IF split = "track" THEN Track(RaceOf[e])
                  ELSE IF split = "barrier" THEN db.entry[e].barrier ELSE 0,
     position |-> db.position[e],
     price    |-> ClosingPrice(e)]

\* Rows of people as the statements return them.
RowsOfPeople(rows) ==
    /\ IsFiniteSet(rows)
    /\ \A row \in rows : row.position \in Int /\ row.price \in Nat

LEMMA PersonRowsTyped ==
    ASSUME db \in Tables, NEW role, NEW split
    PROVE  /\ PersonRows(role, split) = {PersonRow(e, role, split) : e \in PersonEntries(role)}
           /\ RowsOfPeople(PersonRows(role, split))
<1> DEFINE of == [e \in PersonEntries(role) |-> PersonRow(e, role, split)]
           rows == PersonRows(role, split)
<1>1. rows = {PersonRow(e, role, split) : e \in PersonEntries(role)}
    BY DEF PersonRows, PersonRow, PersonEntries
<1>2. IsFiniteSet(PersonEntries(role)) /\ PersonEntries(role) \subseteq Entries
    <2>1. PersonEntries(role) \subseteq In(Wanted)
        BY DEF PersonEntries
    <2> QED BY <2>1, WindowFinite, FS_Subset
<1>3. rows = {of[e] : e \in PersonEntries(role)}
    BY <1>1
<1> HIDE DEF rows, of
<1>4. IsFiniteSet(rows)
    BY <1>2, <1>3, FiniteImage
<1>5. \A e \in Entries : db.position[e] \in Int /\ ClosingPrice(e) \in Nat
    <2> SUFFICES ASSUME NEW e \in Entries PROVE db.position[e] \in Int /\ ClosingPrice(e) \in Nat
        OBVIOUS
    <2>1. db.position[e] \in Int /\ db.snaps[e] \in Series
        BY DEF Tables, Series, Nullable, Null
    <2>2. CASE db.snaps[e] = <<>>
        BY <2>1, <2>2 DEF ClosingPrice
    <2>3. CASE db.snaps[e] # <<>>
        <3>1. Len(db.snaps[e]) \in 1 .. Len(db.snaps[e])
            BY <2>1, <2>3 DEF Series
        <3>2. db.snaps[e][Len(db.snaps[e])] \in Nat \X Nat
            BY <2>1, <3>1 DEF Series
        <3> QED BY <2>1, <2>3, <3>2 DEF ClosingPrice
    <2> QED BY <2>2, <2>3
<1>6. \A e : PersonRow(e, role, split).position = db.position[e]
             /\ PersonRow(e, role, split).price = ClosingPrice(e)
    BY DEF PersonRow
<1>7. \A row \in rows : row.position \in Int /\ row.price \in Nat
    BY <1>1, <1>2, <1>5, <1>6
<1> QED BY <1>1, <1>4, <1>7 DEF rows, RowsOfPeople

\* What a row adds to a column of its item.
Columns == {"runners", "wins", "places", "priced", "profit"}

Weight(row, column) ==
    CASE column = "runners" -> 1
      [] column = "wins"    -> IF row.position = 1 THEN 1 ELSE 0
      [] column = "places"  -> IF row.position <= 3 THEN 1 ELSE 0
      [] column = "priced"  -> IF row.price > 0 THEN 1 ELSE 0
      [] column = "profit"  -> IF row.price > 0 THEN Profit(row) ELSE 0

Weigh(rows, column) == [row \in rows |-> Weight(row, column)]

Mine(rows, key) == {row \in rows : row.person = key[1] /\ row.split = key[2]}

LEMMA WeighIntegral ==
    ASSUME NEW rows, RowsOfPeople(rows), NEW column \in Columns, NEW S, S \subseteq rows
    PROVE  Integral(Weigh(rows, column), S)
<1>1. \A row \in rows : Profit(row) \in Int
    BY DEF RowsOfPeople, Profit
<1>2. \A row \in rows : Weight(row, column) \in Int
    <2>1. CASE column = "runners"   BY <2>1 DEF Weight
    <2>2. CASE column = "wins"      BY <2>2 DEF Weight
    <2>3. CASE column = "places"    BY <2>3 DEF Weight
    <2>4. CASE column = "priced"    BY <2>4 DEF Weight
    <2>5. CASE column = "profit"    BY <1>1, <2>5 DEF Weight
    <2> QED BY <2>1, <2>2, <2>3, <2>4, <2>5 DEF Columns
<1> QED BY <1>2 DEF Integral, Weigh

LEMMA ColumnIsSum ==
    ASSUME NEW rows, RowsOfPeople(rows), NEW key, NEW column \in Columns
    PROVE  PersonItem(rows, key)[column] = SumFunctionOnSet(Weigh(rows, column), Mine(rows, key))
<1> DEFINE S == Mine(rows, key)
           w == Weigh(rows, column)
           item == PersonItem(rows, key)
<1>1. S \subseteq rows /\ IsFiniteSet(S)
    BY FS_Subset DEF Mine, RowsOfPeople
<1>2. \A row \in S : w[row] = Weight(row, column)
    BY <1>1 DEF Weigh
<1>3. item = [person  |-> key[1],
              split   |-> key[2],
              runners |-> Cardinality(S),
              wins    |-> Cardinality({row \in S : row.position = 1}),
              places  |-> Cardinality({row \in S : row.position <= 3}),
              priced  |-> Cardinality({row \in S : row.price > 0}),
              profit  |-> SumFunctionOnSet([row \in S |-> Profit(row)], {row \in S : row.price > 0})]
    BY DEF PersonItem, Mine
<1> HIDE DEF S, w
<1>4. CASE column = "runners"
    <2>1. \A row \in S : w[row] = 1
        BY <1>2, <1>4 DEF Weight
    <2> QED BY <1>1, <1>3, <1>4, <2>1, SumOfOnes DEF S, w
<1>5. CASE column = "wins"
    <2> DEFINE T == {row \in S : row.position = 1}
    <2>1. T \in SUBSET S /\ (\A row \in T : w[row] = 1) /\ (\A row \in S \ T : w[row] = 0)
        BY <1>2, <1>5 DEF Weight
    <2>2. item[column] = Cardinality(T)
        BY <1>3, <1>5
    <2> HIDE DEF T
    <2> QED BY <1>1, <2>1, <2>2, SumCounts DEF S, w
<1>6. CASE column = "places"
    <2> DEFINE T == {row \in S : row.position <= 3}
    <2>1. T \in SUBSET S /\ (\A row \in T : w[row] = 1) /\ (\A row \in S \ T : w[row] = 0)
        BY <1>2, <1>6 DEF Weight
    <2>2. item[column] = Cardinality(T)
        BY <1>3, <1>6
    <2> HIDE DEF T
    <2> QED BY <1>1, <2>1, <2>2, SumCounts DEF S, w
<1>7. CASE column = "priced"
    <2> DEFINE T == {row \in S : row.price > 0}
    <2>1. T \in SUBSET S /\ (\A row \in T : w[row] = 1) /\ (\A row \in S \ T : w[row] = 0)
        BY <1>2, <1>7 DEF Weight
    <2>2. item[column] = Cardinality(T)
        BY <1>3, <1>7
    <2> HIDE DEF T
    <2> QED BY <1>1, <2>1, <2>2, SumCounts DEF S, w
<1>8. CASE column = "profit"
    <2> DEFINE T == {row \in S : row.price > 0}
               f == [row \in S |-> Profit(row)]
    <2>1. /\ T \in SUBSET S /\ (\A row \in T : w[row] = f[row]) /\ (\A row \in S \ T : w[row] = 0)
        BY <1>2, <1>8 DEF Weight
    <2>2. item[column] = SumFunctionOnSet(f, T)
        BY <1>3, <1>8
    <2>3. Integral(f, T)
        BY <1>1 DEF Integral, RowsOfPeople, Profit
    <2> HIDE DEF T, f
    <2> QED BY <1>1, <2>1, <2>2, <2>3, SumOfFilter DEF S, w
<1> QED BY <1>4, <1>5, <1>6, <1>7, <1>8 DEF Columns

KeyOf(row) == <<row.person, row.split>>

LEMMA MetricsAre ==
    ASSUME NEW rows, RowsOfPeople(rows)
    PROVE  PersonMetrics(rows, 1) = {PersonItem(rows, KeyOf(row)) : row \in rows}
<1>1. ASSUME NEW x \in rows PROVE PersonItem(rows, KeyOf(x)).runners >= 1
    <2> DEFINE M == Mine(rows, KeyOf(x))
    <2>1. PersonItem(rows, KeyOf(x)).runners = Cardinality(M)
        BY DEF PersonItem, Mine
    <2>2. x \in M /\ M \subseteq rows
        BY DEF Mine, KeyOf
    <2> HIDE DEF M
    <2>3. IsFiniteSet(M) /\ M # {}
        BY <2>2, FS_Subset DEF RowsOfPeople
    <2>4. Cardinality(M) \in Nat /\ Cardinality(M) # 0
        BY <2>3, FS_CardinalityType, FS_EmptySet
    <2> QED BY <2>1, <2>4
<1> QED BY <1>1 DEF PersonMetrics, KeyOf

LEMMA MetricsFinite ==
    ASSUME NEW rows, RowsOfPeople(rows)
    PROVE  IsFiniteSet(PersonMetrics(rows, 1))
<1> DEFINE of == [row \in rows |-> PersonItem(rows, KeyOf(row))]
<1>1. PersonMetrics(rows, 1) = {of[row] : row \in rows}
    BY MetricsAre
<1> HIDE DEF of
<1> QED BY <1>1, FiniteImage DEF RowsOfPeople

LEMMA ItemKey ==
    ASSUME NEW rows, NEW key
    PROVE  PersonItem(rows, key).person = key[1] /\ PersonItem(rows, key).split = key[2]
BY DEF PersonItem

\* The items of rows that leave none of a kind out add up to what the rows do.
LEMMA ItemsSumUp ==
    ASSUME NEW rows, RowsOfPeople(rows), NEW column \in Columns, NEW S \in SUBSET rows,
           \A x \in S, y \in rows : y.person = x.person /\ y.split = x.split => y \in S
    PROVE  Total({PersonItem(rows, KeyOf(row)) : row \in S}, column) =
              SumFunctionOnSet(Weigh(rows, column), S)
<1> DEFINE K == {PersonItem(rows, KeyOf(row)) : row \in S}
           key == [row \in S |-> PersonItem(rows, KeyOf(row))]
           w == Weigh(rows, column)
           part == [k \in K |-> k[column]]
<1>1. IsFiniteSet(S) /\ IsFiniteSet(K)
    <2>1. IsFiniteSet(S)
        BY FS_Subset DEF RowsOfPeople
    <2>2. K = {key[row] : row \in S}
        OBVIOUS
    <2> HIDE DEF key, K
    <2> QED BY <2>1, <2>2, FiniteImage
<1>2. \A row \in S : key[row] \in K
    OBVIOUS
<1>3. ASSUME NEW k \in K PROVE part[k] = SumFunctionOnSet(w, Part(S, key, k))
    <2>1. PICK x \in S : k = PersonItem(rows, KeyOf(x))
        OBVIOUS
    <2>2. Part(S, key, k) = Mine(rows, KeyOf(x))
        <3>1. \A y \in S : key[y] = k => y.person = x.person /\ y.split = x.split
            BY <2>1, ItemKey DEF KeyOf
        <3>2. \A y \in S : y.person = x.person /\ y.split = x.split => key[y] = k
            BY <2>1 DEF KeyOf
        <3> HIDE DEF key
        <3> QED BY <3>1, <3>2 DEF Part, Mine, KeyOf
    <2>3. part[k] = k[column]
        OBVIOUS
    <2> HIDE DEF part, w, K
    <2> QED BY <2>1, <2>2, <2>3, ColumnIsSum DEF w
<1>4. Integral(w, S)
    BY WeighIntegral
<1>5. Total(K, column) = SumFunctionOnSet(part, K)
    BY TotalIs DEF TotalOf
<1> HIDE DEF K, key, w, part
<1>6. SumFunctionOnSet(part, K) = SumFunctionOnSet(w, S)
    BY <1>1, <1>2, <1>3, <1>4, SumOfParts
<1> QED BY <1>5, <1>6 DEF K, w

LEMMA WholeCounts ==
    ASSUME NEW rows, RowsOfPeople(rows)
    PROVE  Total(PersonMetrics(rows, 1), "runners") = Cardinality(rows)
<1> DEFINE w == Weigh(rows, "runners")
<1>1. "runners" \in Columns /\ rows \in SUBSET rows
    BY DEF Columns
<1>2. Total({PersonItem(rows, KeyOf(row)) : row \in rows}, "runners") = SumFunctionOnSet(w, rows)
    BY <1>1, ItemsSumUp
<1>3. \A row \in rows : w[row] = 1
    BY DEF Weigh, Weight
<1> HIDE DEF w
<1>4. SumFunctionOnSet(w, rows) = Cardinality(rows)
    BY <1>3, SumOfOnes DEF RowsOfPeople
<1> QED BY <1>2, <1>4, MetricsAre

RowsWith(rows, p) == {row \in rows : row.person = p}

\* Rows that are split are the rows that are not, with the split beside them.
LEMMA SplitSums ==
    ASSUME db \in Tables, NEW role, NEW split, NEW p, NEW column \in Columns
    PROVE  SumFunctionOnSet(Weigh(PersonRows(role, split), column),
                            RowsWith(PersonRows(role, split), p))
           = SumFunctionOnSet(Weigh(PersonRows(role, "none"), column),
                              RowsWith(PersonRows(role, "none"), p))
<1> DEFINE A == PersonRows(role, split)
           B == PersonRows(role, "none")
           S == {row \in A : row.person = p}
           T == {row \in B : row.person = p}
           f == Weigh(B, column)
           g == Weigh(A, column)
           h == [row \in S |-> PersonRow(row.entry, role, "none")]
<1>1. /\ A = {PersonRow(e, role, split) : e \in PersonEntries(role)}
      /\ B = {PersonRow(e, role, "none") : e \in PersonEntries(role)}
      /\ RowsOfPeople(A) /\ RowsOfPeople(B)
    BY PersonRowsTyped
<1> HIDE DEF A, B
<1>2. \A e, s : /\ PersonRow(e, role, s).entry = e
                /\ PersonRow(e, role, s).person = db.entry[e][role]
                /\ PersonRow(e, role, s).position = db.position[e]
                /\ PersonRow(e, role, s).price = ClosingPrice(e)
    BY DEF PersonRow
<1>3. \A x \in S : h[x] \in T
    BY <1>1, <1>2
<1>4. \A y \in T : \E x \in S : h[x] = y
    <2> SUFFICES ASSUME NEW y \in T PROVE \E x \in S : h[x] = y
        OBVIOUS
    <2>1. PICK e \in PersonEntries(role) : y = PersonRow(e, role, "none")
        BY <1>1
    <2> DEFINE x == PersonRow(e, role, split)
    <2>2. x \in A /\ x.entry = e /\ x.person = y.person
        BY <1>1, <1>2, <2>1
    <2> HIDE DEF x
    <2>3. x \in S /\ h[x] = y
        BY <2>1, <2>2
    <2> QED BY <2>3
<1>5. T = {h[x] : x \in S}
    <2> HIDE DEF h, S, T
    <2> QED BY <1>3, <1>4
<1>6. \A x, y \in S : h[x] = h[y] => x = y
    <2> SUFFICES ASSUME NEW x \in S, NEW y \in S, h[x] = h[y] PROVE x = y
        OBVIOUS
    <2>1. x.entry = y.entry
        BY <1>2
    <2> QED BY <1>1, <1>2, <2>1
<1>7. \A x \in S : g[x] = f[h[x]]
    <2> SUFFICES ASSUME NEW x \in S PROVE g[x] = f[h[x]]
        OBVIOUS
    <2>1. x \in A /\ h[x] \in B
        BY <1>3
    <2>2. h[x].position = x.position /\ h[x].price = x.price
        BY <1>1, <1>2
    <2>3. Weight(h[x], column) = Weight(x, column)
        <3> DEFINE y == h[x]
        <3>1. y.position = x.position /\ y.price = x.price
            BY <2>2
        <3> HIDE DEF y
        <3>2. Weight(y, column) = Weight(x, column)
            BY <3>1 DEF Weight, Profit
        <3> QED BY <3>2 DEF y
    <2> HIDE DEF h
    <2> QED BY <2>1, <2>3 DEF Weigh
<1>8. IsFiniteSet(S) /\ Integral(g, S)
    BY <1>1, FS_Subset, WeighIntegral DEF RowsOfPeople
<1> HIDE DEF S, T, f, g, h
<1>9. SumFunctionOnSet(g, S) = SumFunctionOnSet(f, {h[x] : x \in S})
    BY <1>6, <1>7, <1>8, SumOfImage
<1>10. SumFunctionOnSet(g, S) = SumFunctionOnSet(f, T)
    BY <1>5, <1>9
<1> QED BY <1>10 DEF S, T, f, g, A, B, RowsWith

LEMMA PartsOfWhole ==
    ASSUME db \in Tables, NEW role, NEW split, NEW column \in Columns,
           NEW whole \in PersonMetrics(PersonRows(role, "none"), 1)
    PROVE  Total({item \in PersonMetrics(PersonRows(role, split), 1) : item.person = whole.person},
                 column) = whole[column]
<1> DEFINE A == PersonRows(role, split)
           B == PersonRows(role, "none")
           p == whole.person
           S == RowsWith(A, p)
           parts == {item \in PersonMetrics(A, 1) : item.person = p}
<1>1. RowsOfPeople(A) /\ RowsOfPeople(B) /\ \A b \in B : b.split = 0
    BY PersonRowsTyped DEF PersonRow
<1> HIDE DEF A, B
<1>2. PICK b \in B : whole = PersonItem(B, KeyOf(b))
    BY <1>1, MetricsAre DEF B
<1>3. p = b.person
    BY <1>2, ItemKey DEF KeyOf
<1>4. whole[column] = SumFunctionOnSet(Weigh(B, column), Mine(B, KeyOf(b)))
    BY <1>1, <1>2, ColumnIsSum
<1>5. Mine(B, KeyOf(b)) = RowsWith(B, p)
    BY <1>1, <1>3 DEF Mine, KeyOf, RowsWith
<1>6. parts = {PersonItem(A, KeyOf(row)) : row \in S}
    <2>1. \A row : PersonItem(A, KeyOf(row)).person = row.person
        BY ItemKey DEF KeyOf
    <2>2. PersonMetrics(A, 1) = {PersonItem(A, KeyOf(row)) : row \in A}
        BY <1>1, MetricsAre
    <2> HIDE DEF p
    <2> QED BY <2>1, <2>2 DEF RowsWith
<1> HIDE DEF p, parts
<1>7. S \in SUBSET A
      /\ \A x \in S, y \in A : y.person = x.person /\ y.split = x.split => y \in S
    BY DEF RowsWith
<1>8. Total(parts, column) = SumFunctionOnSet(Weigh(A, column), S)
    <2> HIDE DEF S
    <2>1. Total({PersonItem(A, KeyOf(row)) : row \in S}, column) =
             SumFunctionOnSet(Weigh(A, column), S)
        BY <1>1, <1>7, ItemsSumUp
    <2> QED BY <1>6, <2>1
<1>9. SumFunctionOnSet(Weigh(A, column), S) =
         SumFunctionOnSet(Weigh(B, column), RowsWith(B, p))
    <2>1. \A q : SumFunctionOnSet(Weigh(PersonRows(role, split), column),
                                  RowsWith(PersonRows(role, split), q))
                 = SumFunctionOnSet(Weigh(PersonRows(role, "none"), column),
                                    RowsWith(PersonRows(role, "none"), q))
        BY SplitSums
    <2> QED BY <2>1 DEF A, B
<1>10. Total(parts, column) = whole[column]
    BY <1>4, <1>5, <1>8, <1>9
<1> QED BY <1>10 DEF parts, p, A

LEMMA TableIsWhole ==
    ASSUME NEW rows, RowsOfPeople(rows), NEW order, NEW items \in Table(rows, 1, order),
           Cardinality(items) < Limit
    PROVE  items = PersonMetrics(rows, 1)
<1> DEFINE K == PersonMetrics(rows, 1)
<1>1. items \subseteq K /\ Cardinality(items) = Min({Limit, Cardinality(K)})
    BY DEF Table, Tops
<1>2. IsFiniteSet(K) /\ Limit \in Nat
    BY MetricsFinite, ReadAssumption
<1> HIDE DEF K
<1>3. items = K
    BY <1>1, <1>2, ShortIsWhole
<1> QED BY <1>3 DEF K

\* The rows of the request number i: as they are, then split in groups.
SplitsOf(i) == IF i = 1 THEN {"none"} ELSE {"track", "barrier"}

RowsRead(i, rows) == loaded = {} => \E split \in SplitsOf(i) : rows = PersonRows(client.role, split)

TableSent(i, answer) ==
    \E rows : /\ RowsRead(i, rows) /\ answer.rows = Cardinality(rows)
              /\ answer.items \in Table(rows, 1, client.order)

PeopleOK ==
    client.kind = "people" =>
        /\ Len(got) >= 1 => RowsRead(Len(answers) + 1, got[1])
        /\ \A i \in 1 .. Len(answers) : TableSent(i, answers[i])

LEMMA PeopleKept ==
    ASSUME Base, PeopleOK, client.kind = "people", GetPeopleRates
    PROVE  PeopleOK'
<1>k. ClientOK /\ asking /\ UNCHANGED <<db, loaded, client>>
    BY ServeReads DEF Base, ServiceOK, GetPeopleRates, Serving, Serve, ReadsOnly
<1>g. Len(got) \in Nat /\ Len(answers) \in Nat
    BY <1>k DEF ClientOK
<1>c. \A i, rows : RowsRead(i, rows)' <=> RowsRead(i, rows)
    BY <1>k DEF RowsRead, PersonRows, Wanted, In, ClosingPrice, Day, Track, Held
<1>d. \A i, answer : TableSent(i, answer)' <=> TableSent(i, answer)
    BY <1>k, <1>c DEF TableSent
<1>1. CASE ReadAny(1, {PersonRows(client.role, split) :
                           split \in IF answers = <<>> THEN {"none"} ELSE {"track", "barrier"}})
    <2>1. PICK split \in (IF answers = <<>> THEN {"none"} ELSE {"track", "barrier"}) :
             Read(1, PersonRows(client.role, split))
        BY <1>1 DEF ReadAny
    <2> DEFINE rows == PersonRows(client.role, split)
    <2>2. split \in SplitsOf(Len(answers) + 1)
        <3>1. answers = <<>> <=> Len(answers) + 1 = 1
            BY <1>k, <1>g DEF ClientOK
        <3> QED BY <3>1 DEF SplitsOf
    <2>3. RowsRead(Len(answers) + 1, rows)
        BY <2>2 DEF RowsRead
    <2> HIDE DEF rows
    <2>4. Len(got') = 1 /\ got'[1] = rows /\ answers' = answers
        BY <1>k, <2>1, ReadStep DEF rows
    <2> QED BY <1>c, <1>d, <1>k, <2>3, <2>4 DEF PeopleOK
<1>2. ASSUME NEW items \in Table(got[1], 1, client.order),
             Reply(1, [rows |-> Cardinality(got[1]), items |-> items])
      PROVE  PeopleOK'
    <2> DEFINE answer == [rows |-> Cardinality(got[1]), items |-> items]
    <2>1. Len(got) = 1
        BY <1>2 DEF Reply, After
    <2>2. RowsRead(Len(answers) + 1, got[1])
        BY <2>1 DEF PeopleOK
    <2>3. TableSent(Len(answers) + 1, answer)
        BY <1>2, <2>2 DEF TableSent
    <2> HIDE DEF answer
    <2>4. /\ Len(got') = 0
          /\ \A i \in 1 .. Len(answers') :
                \/ i \in 1 .. Len(answers) /\ answers'[i] = answers[i]
                \/ i = Len(answers) + 1 /\ answers'[i] = answer
        BY <1>2, <1>k, AnsweredBefore DEF answer
    <2> QED BY <1>d, <1>k, <2>3, <2>4 DEF PeopleOK
<1> QED BY <1>1, <1>2 DEF GetPeopleRates

LEMMA PeopleStays ==
    ASSUME Base, PeopleOK, [Next]_vars
    PROVE  PeopleOK'
<1>1. CASE Quiet
    <2>1. UNCHANGED <<client, got, answers>> /\ (loaded' = {} => loaded = {} /\ Alike)
        BY <1>1 DEF Quiet
    <2>2. ASSUME loaded' = {}, NEW split
          PROVE  PersonRows(client.role, split)' = PersonRows(client.role, split)
        <3>1. client' = client /\ Alike
            BY <2>1, <2>2
        <3>2. In(Wanted)' = In(Wanted)
            BY <3>1 DEF Alike, In, Wanted, Day, Held
        <3>3. /\ \A e : ClosingPrice(e)' = ClosingPrice(e)
              /\ \A r : Track(r)' = Track(r)
            BY <3>1 DEF Alike, ClosingPrice, Track, Held
        <3> QED BY <3>1, <3>2, <3>3 DEF Alike, PersonRows
    <2>3. \A i, rows : RowsRead(i, rows) => RowsRead(i, rows)'
        BY <2>1, <2>2 DEF RowsRead
    <2>4. \A i, answer : TableSent(i, answer) => TableSent(i, answer)'
        BY <2>1, <2>3 DEF TableSent
    <2> QED BY <2>1, <2>3, <2>4 DEF PeopleOK
<1>2. CASE Opened
    BY <1>2 DEF Opened, PeopleOK
<1>3. CASE Serve
    <2>1. client' = client
        BY <1>3, ServeReads DEF ReadsOnly
    <2>2. CASE client.kind = "people"
        <3>1. GetPeopleRates
            BY <1>3, <2>2, ServesKind
        <3> QED BY <2>2, <3>1, PeopleKept
    <2> QED BY <2>1, <2>2 DEF PeopleOK
<1> QED BY <1>1, <1>2, <1>3, StepCases

\* What compute_person_metrics counts of a person in the groups of a split is
\* what it counts of them without, and that is every row, when the tables are
\* not cut off and nothing is loaded between.
THEOREM SplitsAreParts == Spec => []SplitsAddUp
<1>1. Init => PeopleOK
    <2> SUFFICES ASSUME Init PROVE PeopleOK
        OBVIOUS
    <2>1. Len(got) = 0 /\ Len(answers) = 0
        BY DEF Init
    <2> QED BY <2>1 DEF PeopleOK
<1>2. Base /\ PeopleOK /\ [Next]_vars => PeopleOK'
    BY PeopleStays
<1>3. Base /\ PeopleOK => SplitsAddUp
    <2> SUFFICES ASSUME Base, PeopleOK, client.kind = "people", Len(answers) = 2, loaded = {},
                        Cardinality(answers[1].items) < Limit, Cardinality(answers[2].items) < Limit
                 PROVE  SplitsAddUp
        BY DEF SplitsAddUp
    <2>1. db \in Tables
        BY DEF Base, Known
    <2>2. TableSent(1, answers[1]) /\ TableSent(2, answers[2])
        BY DEF PeopleOK
    <2> DEFINE B == PersonRows(client.role, "none")
    <2>3. /\ RowsOfPeople(B)
          /\ answers[1].rows = Cardinality(B) /\ answers[1].items \in Table(B, 1, client.order)
        BY <2>1, <2>2, PersonRowsTyped DEF TableSent, RowsRead, SplitsOf
    <2>4. PICK split : answers[2].items \in Table(PersonRows(client.role, split), 1, client.order)
        BY <2>2 DEF TableSent, RowsRead
    <2> DEFINE A == PersonRows(client.role, split)
    <2>5. RowsOfPeople(A)
        BY <2>1, PersonRowsTyped
    <2>6. answers[1].items = PersonMetrics(B, 1) /\ answers[2].items = PersonMetrics(A, 1)
        <3> HIDE DEF A, B
        <3>1. answers[2].items \in Table(A, 1, client.order)
            BY <2>4 DEF A
        <3> QED BY <2>3, <2>5, <3>1, TableIsWhole
    <2>7. Total(answers[1].items, "runners") = answers[1].rows
        <3> HIDE DEF A, B
        <3> QED BY <2>3, <2>6, WholeCounts
    <2>8. \A whole \in answers[1].items : \A column \in Columns :
             Total({item \in answers[2].items : item.person = whole.person}, column) = whole[column]
        <3> SUFFICES ASSUME NEW whole \in PersonMetrics(B, 1), NEW column \in Columns
                     PROVE  Total({item \in PersonMetrics(A, 1) : item.person = whole.person},
                                  column) = whole[column]
            BY <2>6
        <3> QED BY <2>1, PartsOfWhole
    <2> HIDE DEF A, B
    <2> QED BY <2>7, <2>8 DEF SplitsAddUp, Columns
<1> QED BY <1>1, <1>2, <1>3, BaseHolds, PTL DEF Spec

-----------------------------------------------------------------------------
(* Pages of a list                                                         *)

\* Races are listed by day, track and number, or tie in all of them.
LEMMA RankOf ==
    ASSUME db \in Tables, NEW r \in Races
    PROVE  /\ Day(r) \in Nat /\ Track(r) \in Nat /\ db.race[r].number \in Nat
           /\ Held(db, r) = [track |-> Track(r), day |-> Day(r)]
<1>1. db.race[r] \in RaceRows /\ db.meeting \in [Meetings -> MeetingRows]
    BY DEF Tables
<1>2. Held(db, r) \in MeetingRows
    BY <1>1 DEF Held, RaceRows
<1>3. db.race[r].number \in Nat
    BY <1>1 DEF RaceRows
<1> QED BY <1>2, <1>3 DEF MeetingRows, Day, Track

LEMMA RacesAreRanked ==
    ASSUME db \in Tables, NEW q \in Races, NEW r \in Races
    PROVE  /\ ListedBefore(q, r) \/ Tie(q, r) \/ ListedBefore(r, q)
           /\ ListedBefore(q, r) => ~Tie(q, r) /\ ~ListedBefore(r, q)
           /\ \A p \in Races : ListedBefore(q, r) /\ ~ListedBefore(p, r) => ListedBefore(q, p)
           /\ \A p \in Races : ~ListedBefore(r, q) /\ ListedBefore(r, p) => ListedBefore(q, p)
<1>1. \A x \in Races : /\ Day(x) \in Nat /\ Track(x) \in Nat /\ db.race[x].number \in Nat
                       /\ Held(db, x) = [track |-> Track(x), day |-> Day(x)]
    BY RankOf
<1>2. \A x, y \in Races : Tie(x, y) <=> /\ Day(x) = Day(y) /\ Track(x) = Track(y)
                                        /\ db.race[x].number = db.race[y].number
    <2> SUFFICES ASSUME NEW x \in Races, NEW y \in Races
                 PROVE  Tie(x, y) <=> /\ Day(x) = Day(y) /\ Track(x) = Track(y)
                                      /\ db.race[x].number = db.race[y].number
        OBVIOUS
    <2>1. Held(db, x) = Held(db, y) => Day(x) = Day(y) /\ Track(x) = Track(y)
        BY DEF Day, Track
    <2>2. Day(x) = Day(y) /\ Track(x) = Track(y) => Held(db, x) = Held(db, y)
        BY <1>1
    <2> QED BY <2>1, <2>2 DEF Tie
<1>3. ListedBefore(q, r) \/ Tie(q, r) \/ ListedBefore(r, q)
    BY <1>1, <1>2 DEF ListedBefore
<1>4. ListedBefore(q, r) => ~Tie(q, r) /\ ~ListedBefore(r, q)
    BY <1>1, <1>2 DEF ListedBefore
<1>5. \A p \in Races : ListedBefore(q, r) /\ ~ListedBefore(p, r) => ListedBefore(q, p)
    BY <1>1 DEF ListedBefore
<1>6. \A p \in Races : ~ListedBefore(r, q) /\ ListedBefore(r, p) => ListedBefore(q, p)
    BY <1>1 DEF ListedBefore
<1> QED BY <1>3, <1>4, <1>5, <1>6

LEMMA OrderIs ==
    ASSUME NEW S, IsFiniteSet(S), NEW s \in Orders(S)
    PROVE  LET n == Cardinality(S)
           IN  /\ n \in Nat /\ s \in [1 .. n -> S] /\ s \in Seq(S) /\ Len(s) = n
               /\ \A i, j \in 1 .. n : i # j => s[i] # s[j]
               /\ \A i, j \in 1 .. n : i < j => ~ListedBefore(s[j], s[i])
               /\ \A r \in S : \E i \in 1 .. n : s[i] = r
<1> DEFINE n == Cardinality(S)
<1>1. n \in Nat
    BY FS_CardinalityType
<1>2. /\ s \in [1 .. n -> S] /\ DOMAIN s = 1 .. n
      /\ \A i, j \in 1 .. n : i # j => s[i] # s[j]
      /\ \A i, j \in 1 .. n : i < j => ~ListedBefore(s[j], s[i])
    BY DEF Orders
<1>3. IsFiniteSet(1 .. n) /\ Cardinality(1 .. n) = n
    <2>1. 1 \in Int /\ n \in Int
        BY <1>1
    <2>2. \A a, b \in Int : IsFiniteSet(a .. b) /\ Cardinality(a .. b) = IF a <= b THEN b - a + 1 ELSE 0
        BY FS_Interval
    <2> HIDE DEF n
    <2> QED BY <1>1, <2>1, <2>2
<1> HIDE DEF n
<1>4. s \in Seq(S) /\ Len(s) = n
    BY <1>1, <1>2, ListOfLength
<1>5. s \in Injection(1 .. n, S)
    BY <1>2 DEF Injection, IsInjective
<1>6. s \in Surjection(1 .. n, S)
    BY <1>3, <1>5, FS_Injection DEF n
<1>7. \A r \in S : \E i \in 1 .. n : s[i] = r
    BY <1>6 DEF Surjection
<1> QED BY <1>1, <1>2, <1>4, <1>7 DEF n

\* Renaming the members of a set keeps its size.
LEMMA SameSize ==
    ASSUME NEW D, IsFiniteSet(D), NEW h, \A x, y \in D : h[x] = h[y] => x = y
    PROVE  IsFiniteSet({h[x] : x \in D}) /\ Cardinality({h[x] : x \in D}) = Cardinality(D)
<1> DEFINE f == [x \in D |-> h[x]]
           T == {h[x] : x \in D}
<1>1. f \in Surjection(D, T)
    BY DEF Surjection
<1>2. f \in Injection(D, T)
    BY DEF Injection, IsInjective
<1> HIDE DEF f, T
<1>3. IsFiniteSet(T) /\ Cardinality(T) = Cardinality(D)
    BY <1>1, <1>2, FS_Surjection
<1> QED BY <1>3 DEF T

LEMMA IntervalSize ==
    ASSUME NEW a \in Nat, NEW b \in Nat, a <= b
    PROVE  IsFiniteSet(a + 1 .. b) /\ Cardinality(a + 1 .. b) = b - a
<1> DEFINE c == a + 1
<1>1. c \in Int /\ b \in Int
    OBVIOUS
<1>2. IsFiniteSet(c .. b) /\ Cardinality(c .. b) = IF c > b THEN 0 ELSE b - c + 1
    <2> HIDE DEF c
    <2> QED BY <1>1, FS_Interval
<1>3. (IF c > b THEN 0 ELSE b - c + 1) = b - a
    OBVIOUS
<1> QED BY <1>2, <1>3

\* Places that leave no earlier one out are the first.
LEMMA FirstPlaces ==
    ASSUME NEW n \in Nat, NEW D \in SUBSET (1 .. n),
           \A i \in D, j \in 1 .. n : j < i => j \in D
    PROVE  Cardinality(D) \in 0 .. n /\ D = 1 .. Cardinality(D)
<1> DEFINE G == {k \in Nat : \E c \in Nat : c <= k /\ \A i \in 1 .. n : i <= k => (i \in D <=> i <= c)}
<1>1. 0 \in G
    OBVIOUS
<1>2. ASSUME NEW k \in Nat, k \in G PROVE k + 1 \in G
    <2>1. PICK c \in Nat : c <= k /\ \A i \in 1 .. n : i <= k => (i \in D <=> i <= c)
        BY <1>2
    <2>2. CASE k + 1 \in D
        <3>1. \A i \in 1 .. n : i <= k + 1 => i \in D
            BY <2>2
        <3> QED BY <3>1
    <2>3. CASE k + 1 \notin D
        <3>1. \A i \in 1 .. n : i <= k + 1 => i <= k \/ i = k + 1
            OBVIOUS
        <3>2. \A i \in 1 .. n : i <= k + 1 => (i \in D <=> i <= c)
            BY <2>1, <2>3, <3>1
        <3> QED BY <2>1, <3>2
    <2> QED BY <2>2, <2>3
<1>3. n \in G
    <2> HIDE DEF G
    <2> QED BY <1>1, <1>2, NumberInduction
<1>4. PICK c \in Nat : c <= n /\ \A i \in 1 .. n : i \in D <=> i <= c
    BY <1>3
<1>5. D = 1 .. c
    <2>1. \A i \in D : i \in 1 .. n
        OBVIOUS
    <2>2. \A i \in 1 .. c : i \in 1 .. n /\ i <= c
        BY <1>4
    <2>3. D \subseteq 1 .. c
        BY <1>4, <2>1
    <2>4. 1 .. c \subseteq D
        BY <1>4, <2>2
    <2> QED BY <2>3, <2>4
<1>6. Cardinality(1 .. c) = c
    <2> DEFINE z == 0
    <2>1. z \in Nat /\ z <= c
        OBVIOUS
    <2> HIDE DEF z
    <2>2. Cardinality(z + 1 .. c) = c - z
        BY <2>1, IntervalSize
    <2>3. z + 1 = 1 /\ c - z = c
        BY DEF z
    <2> QED BY <2>2, <2>3
<1> QED BY <1>4, <1>5, <1>6

\* How many races are listed before r, and how many tie with it.
Ahead(r) == Cardinality({q \in Wanted : ListedBefore(q, r)})
Level(r) == Cardinality({q \in Wanted : Tie(q, r)})

\* In every order the races that tie with r are at the same places.
LEMMA PlacesOfTies ==
    ASSUME db \in Tables, NEW s \in Orders(Wanted), NEW r \in Wanted
    PROVE  LET n == Cardinality(Wanted)
           IN  /\ Ahead(r) \in Nat /\ Level(r) \in Nat /\ Ahead(r) + Level(r) <= n
               /\ \A i \in 1 .. n : Tie(s[i], r) <=> Ahead(r) < i /\ i <= Ahead(r) + Level(r)
<1> DEFINE n == Cardinality(Wanted)
           B == {i \in 1 .. n : ListedBefore(s[i], r)}
           K == {i \in 1 .. n : Tie(s[i], r)}
<1>1. IsFiniteSet(Wanted) /\ Wanted \subseteq Races
    BY WindowFinite
<1>2. /\ n \in Nat /\ \A i \in 1 .. n : s[i] \in Wanted /\ s[i] \in Races
      /\ \A i, j \in 1 .. n : s[i] = s[j] => i = j
      /\ \A i, j \in 1 .. n : i < j => ~ListedBefore(s[j], s[i])
      /\ \A q \in Wanted : \E i \in 1 .. n : s[i] = q
    BY <1>1, OrderIs
<1>3. r \in Races
    BY <1>1
<1>4. IsFiniteSet(1 .. n)
    <2> HIDE DEF n
    <2>1. 1 \in Int /\ n \in Int
        BY <1>2
    <2> QED BY <2>1, FS_Interval
<1> HIDE DEF n
<1>5. B \in SUBSET (1 .. n) /\ K \in SUBSET (1 .. n)
    OBVIOUS
<1>6. ASSUME NEW i \in B, NEW j \in 1 .. n, j < i PROVE j \in B
    <2>1. i \in 1 .. n /\ ListedBefore(s[i], r) /\ ~ListedBefore(s[i], s[j])
        BY <1>2, <1>6
    <2>2. ListedBefore(s[j], r)
        BY <1>2, <1>3, <2>1, RacesAreRanked
    <2> QED BY <2>2
<1>7. ASSUME NEW i \in B \cup K, NEW j \in 1 .. n, j < i PROVE j \in B \cup K
    <2>1. i \in 1 .. n /\ s[i] \in Races /\ s[j] \in Races /\ ~ListedBefore(s[i], s[j])
        BY <1>2, <1>7
    <2>2. ~ListedBefore(r, s[i])
        <3>1. CASE ListedBefore(s[i], r)
            BY <1>3, <2>1, <3>1, RacesAreRanked
        <3>2. CASE Tie(s[i], r)
            <4>1. Tie(r, s[i])
                BY <3>2 DEF Tie
            <4> QED BY <1>3, <2>1, <4>1, RacesAreRanked
        <3> QED BY <1>7, <3>1, <3>2
    <2>3. ~ListedBefore(r, s[j])
        BY <1>3, <2>1, <2>2, RacesAreRanked
    <2>4. ListedBefore(s[j], r) \/ Tie(s[j], r)
        BY <1>3, <2>1, <2>3, RacesAreRanked
    <2> QED BY <2>4
<1>8. B \cap K = {}
    <2> SUFFICES ASSUME NEW i \in 1 .. n, ListedBefore(s[i], r), Tie(s[i], r) PROVE FALSE
        OBVIOUS
    <2> QED BY <1>2, <1>3, RacesAreRanked
<1>9. /\ {q \in Wanted : ListedBefore(q, r)} = {s[i] : i \in B}
      /\ {q \in Wanted : Tie(q, r)} = {s[i] : i \in K}
    BY <1>2
<1>10. /\ \A i, j \in B : s[i] = s[j] => i = j
       /\ \A i, j \in K : s[i] = s[j] => i = j
    BY <1>2
<1> HIDE DEF B, K
<1>11. IsFiniteSet(B) /\ IsFiniteSet(K)
    BY <1>4, <1>5, FS_Subset
<1>12. Ahead(r) = Cardinality(B) /\ Level(r) = Cardinality(K)
    BY <1>9, <1>10, <1>11, SameSize DEF Ahead, Level
<1>13. Cardinality(B) \in 0 .. n /\ B = 1 .. Cardinality(B)
    BY <1>2, <1>5, <1>6, FirstPlaces
<1>14. Cardinality(B \cup K) \in 0 .. n /\ B \cup K = 1 .. Cardinality(B \cup K)
    <2> DEFINE U == B \cup K
    <2>1. U \in SUBSET (1 .. n)
        BY <1>5
    <2> HIDE DEF U
    <2>2. \A i \in U, j \in 1 .. n : j < i => j \in U
        BY <1>7 DEF U
    <2>3. Cardinality(U) \in 0 .. n /\ U = 1 .. Cardinality(U)
        BY <1>2, <2>1, <2>2, FirstPlaces
    <2> QED BY <2>3 DEF U
<1>15. Cardinality(K) \in Nat /\ Cardinality(B \cup K) = Cardinality(B) + Cardinality(K)
    <2>1. Cardinality(K) \in Nat /\ Cardinality(B) \in Nat
        BY <1>11, FS_CardinalityType
    <2>2. Cardinality(B \cup K) = Cardinality(B) + Cardinality(K) - Cardinality(B \cap K)
        BY <1>11, FS_Union
    <2>3. Cardinality(B \cap K) = 0
        BY <1>8, FS_EmptySet
    <2> QED BY <2>1, <2>2, <2>3
<1>16. ASSUME NEW i \in 1 .. n
       PROVE  i \in K <=> Ahead(r) < i /\ i <= Ahead(r) + Level(r)
    <2>1. i \in B <=> i <= Ahead(r)
        BY <1>2, <1>12, <1>13
    <2>2. i \in B \cup K <=> i <= Ahead(r) + Level(r)
        <3> DEFINE U == B \cup K
                   u == Cardinality(U)
        <3>1. U = 1 .. u /\ u = Ahead(r) + Level(r) /\ u \in Int
            BY <1>12, <1>14, <1>15
        <3> HIDE DEF u, U
        <3>2. i \in U <=> i <= u
            BY <1>2, <3>1
        <3> QED BY <3>1, <3>2 DEF U
    <2>3. i \in K <=> i \in B \cup K /\ i \notin B
        BY <1>8
    <2> QED BY <1>2, <1>12, <1>13, <1>15, <2>1, <2>2, <2>3
<1>17. \A i \in 1 .. n : i \in K <=> Tie(s[i], r)
    BY DEF K
<1> QED BY <1>2, <1>12, <1>13, <1>14, <1>15, <1>16, <1>17 DEF n

\* What is at a place of a page.
LEMMA PageIs ==
    ASSUME NEW S, IsFiniteSet(S), NEW s \in Orders(S), NEW offset \in Nat, NEW j \in 1 .. PageSize
    PROVE  /\ j <= Len(Page(s, offset)) <=> offset + j <= Cardinality(S)
           /\ j <= Len(Page(s, offset)) => Page(s, offset)[j] = s[offset + j]
<1> DEFINE n == Cardinality(S)
           m == Min({n, offset + PageSize})
           page == Page(s, offset)
<1>1. n \in Nat /\ Len(s) = n /\ s \in Seq(S) /\ \A i \in 1 .. n : s[i] \in S
    BY OrderIs
<1>2. PageSize \in Nat
    BY ReadAssumption
<1> HIDE DEF n
<1>3. m = IF n <= offset + PageSize THEN n ELSE offset + PageSize
    <2>1. \A a, b \in Int : Min({a, b}) = IF a <= b THEN a ELSE b
        BY MinOfTwo
    <2>2. n \in Int /\ offset + PageSize \in Int
        BY <1>1, <1>2
    <2> QED BY <2>1, <2>2
<1>4. page = SubSeq(s, offset + 1, m)
    BY <1>1 DEF Page
<1> HIDE DEF m, page
<1>5. m \in Nat /\ m <= n /\ m <= offset + PageSize /\ (m = n \/ m = offset + PageSize)
    BY <1>1, <1>2, <1>3
<1>6. /\ Len(page) = IF offset + 1 <= m THEN m - (offset + 1) + 1 ELSE 0
      /\ \A i \in 1 .. m - (offset + 1) + 1 : page[i] = s[(offset + 1) + i - 1]
    <2> DEFINE a == offset + 1
    <2>1. a \in Int /\ m \in Int /\ \A i \in a .. m : s[i] \in S
        BY <1>1, <1>5
    <2>2. page = SubSeq(s, a, m)
        BY <1>4
    <2> HIDE DEF a
    <2>3. /\ Len(page) = IF a <= m THEN m - a + 1 ELSE 0
          /\ \A i \in 1 .. m - a + 1 : page[i] = s[a + i - 1]
        BY <2>1, <2>2, SubSeqProperties
    <2> QED BY <2>3 DEF a
<1>7. j \in Nat /\ 1 <= j /\ j <= PageSize
    BY <1>2
<1>8. j <= Len(page) <=> offset + j <= n
    BY <1>1, <1>2, <1>5, <1>6, <1>7
<1>9. ASSUME j <= Len(page) PROVE page[j] = s[offset + j]
    <2>1. j \in 1 .. m - (offset + 1) + 1
        BY <1>5, <1>6, <1>7, <1>9
    <2>2. (offset + 1) + j - 1 = offset + j
        BY <1>7
    <2> QED BY <1>6, <2>1, <2>2
<1> QED BY <1>8, <1>9 DEF page, n

\* Each place of the list is one place of one page.
LEMMA PlacesOfPages ==
    ASSUME NEW P \in Nat, NEW L \in Nat, NEW k \in Nat, k >= 1, k <= P * L
    PROVE  \E i \in 1 .. L, j \in 1 .. P :
              /\ P * (i - 1) + j = k
              /\ \A a \in 1 .. L, b \in 1 .. P : P * (a - 1) + b = k => a = i /\ b = j
<1> DEFINE q == (k - 1) \div P
           r == (k - 1) % P
           x == P * q
<1>1. P > 0
    <2>1. P = 0 => P * L = 0
        OBVIOUS
    <2> QED BY <2>1
<1>2. q \in Nat /\ r \in Nat /\ r < P /\ k - 1 = x + r
    <2>1. k - 1 \in Nat
        OBVIOUS
    <2> QED BY <1>1, <2>1, Division
<1> HIDE DEF q, r
<1>3. \A a, b \in Nat : a < b => P * a + P <= P * b
    <2> SUFFICES ASSUME NEW a \in Nat, NEW b \in Nat, a < b PROVE P * a + P <= P * b
        OBVIOUS
    <2>1. b - (a + 1) \in Nat
        OBVIOUS
    <2>2. P * (b - (a + 1)) \in Nat
        BY <2>1, Z3
    <2>3. P * (b - (a + 1)) = P * b - (P * a + P)
        OBVIOUS
    <2>4. P * a \in Nat /\ P * b \in Nat
        BY Z3
    <2> QED BY <2>2, <2>3, <2>4
<1>4. P * L \in Nat /\ x \in Nat
    <2>1. \A a, b \in Nat : a * b \in Nat
        BY Z3
    <2> QED BY <1>2, <2>1
<1>5. q < L
    <2> SUFFICES ASSUME ~(q < L) PROVE FALSE
        OBVIOUS
    <2>1. L = q \/ L < q
        BY <1>2
    <2>2. P * L <= x
        BY <1>2, <1>3, <1>4, <2>1
    <2> HIDE DEF x
    <2> QED BY <1>2, <1>4, <2>2
<1>6. q + 1 \in 1 .. L /\ r + 1 \in 1 .. P /\ (q + 1) - 1 = q
    BY <1>1, <1>2, <1>5
<1>7. P * ((q + 1) - 1) + (r + 1) = k
    <2>1. x + (r + 1) = k
        <3> HIDE DEF x
        <3> QED BY <1>2, <1>4
    <2> QED BY <1>6, <2>1
<1>8. ASSUME NEW a \in 1 .. L, NEW b \in 1 .. P, P * (a - 1) + b = k
      PROVE  a = q + 1 /\ b = r + 1
    <2> DEFINE c == a - 1
               y == P * c
    <2>1. c \in Nat /\ y + b = k /\ b \in Nat /\ 1 <= b /\ b <= P
        BY <1>8
    <2>2. y \in Nat
        <3>1. \A u, v \in Nat : u * v \in Nat
            BY Z3
        <3> QED BY <2>1, <3>1
    <2> HIDE DEF c
    <2>3. c < q => y + P <= x
        BY <1>2, <1>3, <2>1
    <2>4. q < c => x + P <= y
        BY <1>2, <1>3, <2>1
    <2>5. c = q => y = x
        OBVIOUS
    <2>6. c = q
        <3> HIDE DEF x, y
        <3> QED BY <1>2, <1>4, <2>1, <2>2, <2>3, <2>4
    <2>7. b = r + 1
        <3> HIDE DEF x, y
        <3> QED BY <1>2, <1>4, <2>1, <2>2, <2>5, <2>6
    <2> QED BY <2>6, <2>7 DEF c
<1> QED BY <1>6, <1>7, <1>8

\* The page the list's request number i is answered with.
PageRead(i, races) ==
    loaded = {} => \E order \in Orders(Wanted) : races = Page(order, PageSize * (i - 1))

PagesOK ==
    client.kind = "list" =>
        /\ Len(got) >= 1 => PageRead(Len(answers) + 1, got[1])
        /\ \A i \in 1 .. Len(answers) : PageRead(i, answers[i].races)

LEMMA PagesKept ==
    ASSUME Base, PagesOK, client.kind = "list", ListRaces
    PROVE  PagesOK'
<1>k. ClientOK /\ asking /\ UNCHANGED <<db, loaded, client>>
    BY ServeReads DEF Base, ServiceOK, ListRaces, Serving, Serve, ReadsOnly
<1>g. Len(answers) \in Nat
    BY <1>k DEF ClientOK
<1>c. \A i, races : PageRead(i, races)' <=> PageRead(i, races)
    <2>1. Wanted' = Wanted
        BY <1>k DEF Wanted, Day, Held
    <2>2. \A q, x : ListedBefore(q, x)' <=> ListedBefore(q, x)
        BY <1>k DEF ListedBefore, Day, Track, Held
    <2>3. Orders(Wanted)' = Orders(Wanted)
        BY <2>1, <2>2 DEF Orders
    <2> QED BY <1>k, <2>3 DEF PageRead
<1>1. CASE ReadAny(1, {Page(order, PageSize * Len(answers)) : order \in Orders(Wanted)})
    <2>1. PICK order \in Orders(Wanted) : Read(1, Page(order, PageSize * Len(answers)))
        BY <1>1 DEF ReadAny
    <2> DEFINE page == Page(order, PageSize * Len(answers))
    <2>2. (Len(answers) + 1) - 1 = Len(answers)
        BY <1>g
    <2>3. PageRead(Len(answers) + 1, page)
        BY <2>2 DEF PageRead
    <2> HIDE DEF page
    <2>4. Len(got') = 1 /\ got'[1] = page /\ answers' = answers
        BY <1>k, <2>1, ReadStep DEF page
    <2> QED BY <1>c, <1>k, <2>3, <2>4 DEF PagesOK
<1>2. CASE Reply(1, [races |-> got[1]])
    <2> DEFINE answer == [races |-> got[1]]
    <2>1. Len(got) = 1
        BY <1>2 DEF Reply, After
    <2>2. PageRead(Len(answers) + 1, answer.races)
        BY <2>1 DEF PagesOK
    <2> HIDE DEF answer
    <2>3. /\ Len(got') = 0
          /\ \A i \in 1 .. Len(answers') :
                \/ i \in 1 .. Len(answers) /\ answers'[i] = answers[i]
                \/ i = Len(answers) + 1 /\ answers'[i] = answer
        BY <1>2, <1>k, AnsweredBefore DEF answer
    <2> QED BY <1>c, <1>k, <2>2, <2>3 DEF PagesOK
<1> QED BY <1>1, <1>2 DEF ListRaces

LEMMA PagesStay ==
    ASSUME Base, PagesOK, [Next]_vars
    PROVE  PagesOK'
<1>1. CASE Quiet
    <2>1. UNCHANGED <<client, got, answers>> /\ (loaded' = {} => loaded = {} /\ Alike)
        BY <1>1 DEF Quiet
    <2>2. \A i, races : PageRead(i, races) => PageRead(i, races)'
        <3> SUFFICES ASSUME loaded' = {} PROVE Wanted' = Wanted /\ Orders(Wanted)' = Orders(Wanted)
            BY <2>1 DEF PageRead
        <3>1. Wanted' = Wanted
            BY <2>1 DEF Alike, Wanted, Day, Held
        <3>2. \A q, x : ListedBefore(q, x)' <=> ListedBefore(q, x)
            BY <2>1 DEF Alike, ListedBefore, Day, Track, Held
        <3> QED BY <3>1, <3>2 DEF Orders
    <2> QED BY <2>1, <2>2 DEF PagesOK
<1>2. CASE Opened
    BY <1>2 DEF Opened, PagesOK
<1>3. CASE Serve
    <2>1. client' = client
        BY <1>3, ServeReads DEF ReadsOnly
    <2>2. CASE client.kind = "list"
        <3>1. ListRaces
            BY <1>3, <2>2, ServesKind
        <3> QED BY <2>2, <3>1, PagesKept
    <2> QED BY <2>1, <2>2 DEF PagesOK
<1> QED BY <1>1, <1>2, <1>3, StepCases

\* Places of the pages that show a race tying with r.
Places(r) ==
    {at \in (1 .. Len(answers)) \X (1 .. PageSize) :
        /\ at[2] <= Len(answers[at[1]].races)
        /\ Tie(answers[at[1]].races[at[2]], r)}

\* The place in the list of a place of a page.
PlaceOf(at) == PageSize * (at[1] - 1) + at[2]

LEMMA PlacesAre ==
    ASSUME Base, PagesOK, client.kind = "list", loaded = {}, NEW r \in Wanted,
           NEW a \in 1 .. Len(answers), NEW b \in 1 .. PageSize
    PROVE  (b <= Len(answers[a].races) /\ Tie(answers[a].races[b], r)) <=>
              PageSize * (a - 1) + b \in Ahead(r) + 1 .. Ahead(r) + Level(r)
<1> DEFINE n == Cardinality(Wanted)
           at == PageSize * (a - 1)
<1>1. PICK order \in Orders(Wanted) : answers[a].races = Page(order, PageSize * (a - 1))
    BY DEF PagesOK, PageRead
<1> DEFINE page == Page(order, at)
<1>2. IsFiniteSet(Wanted) /\ n \in Nat /\ db \in Tables
    BY WindowFinite DEF Base, Known
<1>3. /\ Ahead(r) \in Nat /\ Level(r) \in Nat /\ Ahead(r) + Level(r) <= n
      /\ \A i \in 1 .. n : Tie(order[i], r) <=> Ahead(r) < i /\ i <= Ahead(r) + Level(r)
    BY <1>2, PlacesOfTies
<1>4. PageSize \in Nat /\ Len(answers) \in Nat
    BY ReadAssumption DEF Base, ServiceOK, ClientOK
<1>5. at \in Nat
    <2>1. a - 1 \in Nat
        BY <1>4
    <2>2. \A u, v \in Nat : u * v \in Nat
        BY Z3
    <2> QED BY <1>4, <2>1, <2>2
<1>6. answers[a].races = page
    BY <1>1
<1> HIDE DEF at
<1>7. /\ b <= Len(page) <=> at + b <= n
      /\ b <= Len(page) => page[b] = order[at + b]
    BY <1>2, <1>5, PageIs DEF n
<1> HIDE DEF page, n
<1>8. at + b \in Nat /\ at + b >= 1
    BY <1>4, <1>5
<1>9. (b <= Len(page) /\ Tie(page[b], r)) <=> at + b \in Ahead(r) + 1 .. Ahead(r) + Level(r)
    <2> DEFINE m == at + b
    <2> HIDE DEF m
    <2>1. m \in Nat /\ m >= 1
        BY <1>8 DEF m
    <2>2. b <= Len(page) <=> m <= n
        BY <1>7 DEF m
    <2>3. b <= Len(page) => page[b] = order[m]
        BY <1>7 DEF m
    <2>4. m <= n => (Tie(order[m], r) <=> Ahead(r) < m /\ m <= Ahead(r) + Level(r))
        BY <1>2, <1>3, <2>1
    <2>5. m \in Ahead(r) + 1 .. Ahead(r) + Level(r)
             <=> m <= n /\ Ahead(r) < m /\ m <= Ahead(r) + Level(r)
        BY <1>2, <1>3, <2>1
    <2>6. (b <= Len(page) /\ Tie(page[b], r)) <=> m \in Ahead(r) + 1 .. Ahead(r) + Level(r)
        BY <2>2, <2>3, <2>4, <2>5
    <2> QED BY <2>6 DEF m
<1> QED BY <1>6, <1>9 DEF at

LEMMA PlacedOnce ==
    ASSUME Base, PagesOK, client.kind = "list", loaded = {},
           PageSize * Len(answers) >= Cardinality(Wanted), NEW r \in Wanted
    PROVE  Cardinality(Places(r)) = Level(r)
<1> DEFINE n == Cardinality(Wanted)
           L == Len(answers)
           T == Ahead(r) + 1 .. Ahead(r) + Level(r)
           f == [at \in Places(r) |-> PlaceOf(at)]
           P == PageSize
<1>1. L \in Nat /\ P \in Nat /\ n \in Nat /\ P * L >= n /\ db \in Tables
    <2>1. db \in Tables
        BY DEF Base, Known
    <2> QED BY <2>1, ReadAssumption, WindowFinite DEF Base, ServiceOK, ClientOK
<1>2. Ahead(r) \in Nat /\ Level(r) \in Nat /\ Ahead(r) + Level(r) <= n
    <2>1. n # 0
        BY <1>1, WindowFinite, FS_EmptySet
    <2>2. L # 0
        <3>1. L = 0 => P * L = 0
            BY <1>1
        <3> HIDE DEF n
        <3> QED BY <1>1, <2>1, <3>1
    <2>3. 1 \in 1 .. L
        BY <1>1, <2>2
    <2>4. PICK order \in Orders(Wanted) : answers[1].races = Page(order, PageSize * (1 - 1))
        BY <2>3 DEF PagesOK, PageRead
    <2> QED BY <1>1, <2>4, PlacesOfTies
<1>3. P * L \in Nat
    <2>1. \A u, v \in Nat : u * v \in Nat
        BY Z3
    <2> QED BY <1>1, <2>1
<1>4. ASSUME NEW at \in (1 .. L) \X (1 .. P)
      PROVE  at \in Places(r) <=> PlaceOf(at) \in T
    <2>1. at[1] \in 1 .. L /\ at[2] \in 1 .. P
        OBVIOUS
    <2>2. (at[2] <= Len(answers[at[1]].races) /\ Tie(answers[at[1]].races[at[2]], r)) <=>
             PageSize * (at[1] - 1) + at[2] \in T
        BY <2>1, PlacesAre
    <2> QED BY <2>2 DEF Places, PlaceOf
<1> HIDE DEF n
<1>5. ASSUME NEW k \in T
      PROVE  \E at \in Places(r) : PlaceOf(at) = k /\ \A x \in Places(r) : PlaceOf(x) = k => x = at
    <2>1. k \in Nat /\ k >= 1 /\ k <= P * L
        <3> DEFINE p == P * L
        <3>1. p \in Nat /\ p >= n
            BY <1>1, <1>3
        <3> HIDE DEF p
        <3>2. k \in Nat /\ k >= 1 /\ k <= p
            BY <1>1, <1>2, <3>1
        <3> QED BY <3>2 DEF p
    <2>2. PICK i \in 1 .. L, j \in 1 .. P :
             /\ P * (i - 1) + j = k
             /\ \A a \in 1 .. L, b \in 1 .. P : P * (a - 1) + b = k => a = i /\ b = j
        BY <1>1, <2>1, PlacesOfPages
    <2> DEFINE at == <<i, j>>
    <2>3. at \in (1 .. L) \X (1 .. P) /\ PlaceOf(at) = k
        BY <2>2 DEF PlaceOf
    <2>4. at \in Places(r)
        BY <1>4, <2>3
    <2>5. ASSUME NEW x \in Places(r), PlaceOf(x) = k PROVE x = at
        <3>1. x \in (1 .. L) \X (1 .. P)
            BY DEF Places
        <3>2. x[1] \in 1 .. L /\ x[2] \in 1 .. P /\ x = <<x[1], x[2]>> /\ P * (x[1] - 1) + x[2] = k
            BY <2>5, <3>1 DEF PlaceOf
        <3>3. x[1] = i /\ x[2] = j
            BY <2>2, <3>2
        <3> QED BY <3>2, <3>3
    <2> QED BY <2>3, <2>4, <2>5
<1>6. \A at \in Places(r) : PlaceOf(at) \in T
    <2>1. \A at \in Places(r) : at \in (1 .. L) \X (1 .. P)
        BY DEF Places
    <2> QED BY <1>4, <2>1
<1>7. IsFiniteSet(Places(r))
    <2>1. IsFiniteSet(1 .. L) /\ IsFiniteSet(1 .. P)
        <3> HIDE DEF L, P
        <3>1. 1 \in Int /\ L \in Int /\ P \in Int
            BY <1>1
        <3> QED BY <3>1, FS_Interval
    <2>2. IsFiniteSet((1 .. L) \X (1 .. P))
        <3> HIDE DEF L, P
        <3> QED BY <2>1, FS_Product
    <2>3. Places(r) \in SUBSET ((1 .. L) \X (1 .. P))
        BY DEF Places
    <2> HIDE DEF L, P
    <2> QED BY <2>2, <2>3, FS_Subset
<1> HIDE DEF T
<1>8. f \in Surjection(Places(r), T)
    BY <1>5, <1>6 DEF Surjection
<1>9. f \in Injection(Places(r), T)
    <2>1. f \in [Places(r) -> T]
        BY <1>6
    <2>2. \A x, y \in Places(r) : f[x] = f[y] => x = y
        BY <1>5, <1>6
    <2> QED BY <2>1, <2>2 DEF Injection, IsInjective
<1> HIDE DEF f
<1>10. Cardinality(Places(r)) = Cardinality(T)
    BY <1>7, <1>8, <1>9, FS_Surjection
<1>11. Cardinality(T) = Level(r)
    <2> DEFINE a == Ahead(r)
               b == Ahead(r) + Level(r)
    <2>1. a \in Nat /\ b \in Nat /\ a <= b /\ b - a = Level(r)
        BY <1>2
    <2>2. T = a + 1 .. b
        BY DEF T
    <2> HIDE DEF a, b
    <2>3. Cardinality(a + 1 .. b) = b - a
        BY <2>1, IntervalSize
    <2> QED BY <2>1, <2>2, <2>3
<1> QED BY <1>10, <1>11

\* The pages of list_races have a place for every race of an unchanged list,
\* whatever order of the rows that tie each of them was cut from.
THEOREM PagesAreWhole == Spec => []PagesCover
<1>1. Init => PagesOK
    <2> SUFFICES ASSUME Init PROVE PagesOK
        OBVIOUS
    <2>1. Len(got) = 0 /\ Len(answers) = 0
        BY DEF Init
    <2> QED BY <2>1 DEF PagesOK
<1>2. Base /\ PagesOK /\ [Next]_vars => PagesOK'
    BY PagesStay
<1>3. Base /\ PagesOK => PagesCover
    <2> SUFFICES ASSUME Base, PagesOK, client.kind = "list", loaded = {},
                        PageSize * Len(answers) >= Cardinality(Wanted), NEW r \in Wanted
                 PROVE  Cardinality(Places(r)) = Level(r)
        BY DEF PagesCover, Places, Level
    <2> QED BY PlacedOnce
<1> QED BY <1>1, <1>2, <1>3, BaseHolds, PTL DEF Spec

=============================================================================
