------------------------------ MODULE RaceDay ------------------------------
(***************************************************************************)
(* The Race Day capture workflow: the operator selects a meeting, scans    *)
(* each runner before and after its race, marks runners unavailable and    *)
(* closes the races in order, while the ingestion poller keeps changing    *)
(* the race card underneath.                                               *)
(*                                                                         *)
(* Handlers are READ COMMITTED transactions.  The variables hold what is   *)
(* committed.  set_phase and skip lock every row they decide on with their *)
(* first statement and are one step; select_meeting and close_race take    *)
(* their row locks one after another and are several, with an entry of txn *)
(* for what the transaction has read, locked and not yet committed.  A     *)
(* lock another transaction holds is a conjunct that waits; a refusal      *)
(* (4xx) that changes nothing is a step that is not taken or, after the    *)
(* first lock, a rollback.                                                 *)
(***************************************************************************)
EXTENDS Integers, Sequences, FiniteSets

CONSTANTS Meetings, Races, Entries,
          MeetingOf,    \* races.meeting_id
          Number,       \* races.race_number
          RaceOf,       \* race_entries.race_id
          Runs,         \* identities of meeting_runs rows: bounds how many are ever inserted
          Reqs,         \* requests that can be in a transaction at once (the pool's connections)
          ScanWindow,   \* SCAN_WINDOW, in ticks
          MaxTime,      \* bound on the clock
          MaxEdits,     \* bound on the changes of an existing card row
          Listed0,      \* races synced before the operator signs in
          Declared0,    \* their unscratched entries
          Sched0,       \* their scheduled start times
          NoTime, NoRun, NoRace, NoMeeting   \* SQL NULLs

ASSUME CardAssumption ==
    /\ IsFiniteSet(Races)
    /\ MeetingOf \in [Races -> Meetings]
    /\ RaceOf \in [Entries -> Races]
    /\ Number \in [Races -> Nat]
    /\ \A r, s \in Races : (MeetingOf[r] = MeetingOf[s] /\ Number[r] = Number[s]) => r = s
    /\ Listed0 \subseteq Races
    /\ Declared0 \subseteq {e \in Entries : RaceOf[e] \in Listed0}

ASSUME NumberAssumption ==
    /\ ScanWindow \in Nat /\ MaxTime \in Nat /\ MaxEdits \in Nat
    /\ NoTime \notin Int
    /\ Sched0 \in [Races -> 0..MaxTime \cup {NoTime}]

ASSUME NullAssumption ==
    NoRun \notin Runs /\ NoRace \notin Races /\ NoMeeting \notin Meetings

VARIABLES
    \* schema heatmap_race_day, committed
    runState, runMeeting, raceRun, session, activePhase, frames,
    \* the race card in schema public, and the clock
    listed, declared, sched, actual, now, edits,
    \* transactions in flight
    txn

queueVars == <<runState, raceRun>>
scanVars  == <<session, activePhase, frames>>
runVars   == <<runState, runMeeting, raceRun>>
cardVars  == <<listed, declared, sched, actual, now, edits>>
vars      == <<runVars, scanVars, cardVars, txn>>

RunStates     == {"none", "active", "completed", "cancelled"}
RaceRunStates == {"none", "locked", "open", "archived"}
SessionStates == {"none", "awaiting-pre", "scanning-pre", "awaiting-post",
                  "scanning-post", "complete", "cancelled"}
ScanPhases    == {"pre", "post"}
Times         == 0..MaxTime \cup {NoTime}

Awaiting(p) == IF p = "pre" THEN "awaiting-pre" ELSE "awaiting-post"
Scanning(p) == IF p = "pre" THEN "scanning-pre" ELSE "scanning-post"
Settled     == {"complete", "cancelled"}

(***************************************************************************)
(* _phase: the scanning phase of a race, from its actual start time or,    *)
(* until the poller has one, the scheduled one.                            *)
(***************************************************************************)
StartAt(r) == IF actual[r] # NoTime THEN actual[r] ELSE sched[r]

Phase(r) ==
    IF StartAt(r) = NoTime THEN "waiting"
    ELSE IF now < StartAt(r) - ScanWindow THEN "waiting"
    ELSE IF now < StartAt(r) THEN "pre" ELSE "post"

Started(r) == StartAt(r) # NoTime => now >= StartAt(r)   \* close_race lets an unscheduled race close

(***************************************************************************)
(* ORDER BY scheduled_start_time NULLS LAST, race_number.                  *)
(***************************************************************************)
Before(r, s) ==
    \/ sched[r] # NoTime /\ sched[s] = NoTime
    \/ sched[r] # NoTime /\ sched[s] # NoTime /\ sched[r] < sched[s]
    \/ sched[r] = sched[s] /\ Number[r] < Number[s]

Card(m) == {r \in listed : MeetingOf[r] = m}

Listings(m) ==   \* the one row order of meeting m's races, as a set
    {q \in [1..Cardinality(Card(m)) -> Card(m)] :
        /\ \A r \in Card(m) : \E i \in DOMAIN q : q[i] = r
        /\ \A i, j \in DOMAIN q : i < j => Before(q[i], q[j])}

ActiveRuns == {n \in Runs : runState[n] = "active"}
RacesIn(n, s) == {r \in Races : raceRun[n][r] = s}
SessionsOf(n, r) == {e \in Entries : RaceOf[e] = r /\ session[n][e] # "none"}
Progressed(n) == \E e \in Entries : session[n][e] \notin {"none", "awaiting-pre", "cancelled"}

(***************************************************************************)
(* Transactions in flight and the rows they hold.                          *)
(***************************************************************************)
NoTxn == [pc |-> "idle", meeting |-> NoMeeting, run |-> NoRun, rows |-> <<>>, at |-> 1,
          adds |-> {}, race |-> NoRace, next |-> NoRace]

Txns == [pc : {"idle", "lock", "insert", "load", "close"},
         meeting : Meetings \cup {NoMeeting}, run : Runs \cup {NoRun},
         rows : Seq(Races), at : Nat, adds : SUBSET Entries,
         race : Races \cup {NoRace}, next : Races \cup {NoRace}]

\* transaction t goes on as x: all its locks follow
Becomes(t, x) == txn' = [txn EXCEPT ![t] = x]

Selecting(t) == txn[t].pc \in {"lock", "insert", "load"}

\* select_meeting goes on with the active run it locked, instead of inserting one
Reuses(t) == /\ txn[t].pc = "load"
             /\ txn[t].run # NoRun
             /\ runMeeting[txn[t].run] = txn[t].meeting

HoldsRun(t, n) == txn[t].pc \in {"insert", "load"} /\ txn[t].run = n

HoldsRaceRun(t, n, r) ==
    /\ txn[t].run = n
    /\ \/ txn[t].pc = "close" /\ txn[t].race = r
       \/ Reuses(t) /\ \E i \in 1..(txn[t].at - 1) : txn[t].rows[i] = r

HoldsActiveKey(t) == txn[t].pc = "load" /\ ~Reuses(t)

\* mutation: the meeting run is read without FOR UPDATE
NoRowLock(t, n) == TRUE

FreeFor(t, n)          == \A u \in Reqs \ {t} : ~HoldsRun(u, n)
RaceRunFree(n, r)      == \A u \in Reqs : ~HoldsRaceRun(u, n, r)
RaceRunFreeFor(t, n, r) == \A u \in Reqs \ {t} : ~HoldsRaceRun(u, n, r)

-----------------------------------------------------------------------------
Init ==
    /\ runState    = [n \in Runs |-> "none"]
    /\ runMeeting  = [n \in Runs |-> NoMeeting]
    /\ raceRun     = [n \in Runs |-> [r \in Races |-> "none"]]
    /\ session     = [n \in Runs |-> [e \in Entries |-> "none"]]
    /\ activePhase = [n \in Runs |-> [e \in Entries |-> "none"]]
    /\ frames      = [n \in Runs |-> [e \in Entries |-> {}]]
    /\ listed = Listed0 /\ declared = Declared0 /\ sched = Sched0
    /\ actual = [r \in Races |-> NoTime]
    /\ now = 0 /\ edits = 0
    /\ txn = [t \in Reqs |-> NoTxn]

(***************************************************************************)
(* select_meeting.  The first statement reads the active run and waits for *)
(* its row lock.                                                           *)
(***************************************************************************)
SelectBegin(t, m) ==
    /\ txn[t].pc = "idle"
    /\ Cardinality({n \in Runs : runState[n] = "none"})     \* the bound on Runs
          > Cardinality({u \in Reqs : Selecting(u)})
    /\ \E n \in Runs \cup {NoRun} :
          /\ IF ActiveRuns = {} THEN n = NoRun ELSE n \in ActiveRuns
          /\ Becomes(t, [NoTxn EXCEPT !.pc = "lock", !.meeting = m, !.run = n])
    /\ UNCHANGED <<runVars, scanVars, cardVars>>

(***************************************************************************)
(* The row is locked.  Of a run that stopped being active meanwhile the    *)
(* recheck of the WHERE clause leaves nothing.  A run of the same meeting  *)
(* is kept and its race list read; one of another meeting will be          *)
(* cancelled, unless a runner of it progressed, which is a 409.            *)
(***************************************************************************)
SelectLock(t) ==
    LET n == txn[t].run
        m == txn[t].meeting
    IN  /\ txn[t].pc = "lock"
        /\ n # NoRun => FreeFor(t, n)
        /\ \/ /\ n \notin ActiveRuns
              /\ Becomes(t, [txn[t] EXCEPT !.pc = "insert", !.run = NoRun])
           \/ /\ n \in ActiveRuns /\ runMeeting[n] = m
              /\ \E q \in Listings(m) :
                    Becomes(t, [txn[t] EXCEPT !.pc = "load", !.rows = q])
           \/ /\ n \in ActiveRuns /\ runMeeting[n] # m
              /\ Becomes(t, IF Progressed(n) THEN NoTxn ELSE [txn[t] EXCEPT !.pc = "insert"])
        /\ UNCHANGED <<runVars, scanVars, cardVars>>

(***************************************************************************)
(* The new active run is inserted.  The one-active-meeting index makes the *)
(* insert wait for another uncommitted one and refuses it beside an active *)
(* run this transaction is not cancelling (UniqueViolation, 500).  The     *)
(* races are read next: none is a 409.                                     *)
(***************************************************************************)
\* mutation: no one-active-meeting index
SelectInsertNoIndex(t) ==
    /\ txn[t].pc = "insert"
    /\ IF Card(txn[t].meeting) = {}
       THEN Becomes(t, NoTxn)
       ELSE \E q \in Listings(txn[t].meeting) :
               Becomes(t, [txn[t] EXCEPT !.pc = "load", !.rows = q])
    /\ UNCHANGED <<runVars, scanVars, cardVars>>

\* mutation: a refused insert leaves its transaction open
SelectInsertHangs(t) ==
    /\ txn[t].pc = "insert"
    /\ \A u \in Reqs \ {t} : ~HoldsActiveKey(u)
    /\ ActiveRuns \subseteq {txn[t].run} /\ Card(txn[t].meeting) # {}
    /\ \E q \in Listings(txn[t].meeting) :
          Becomes(t, [txn[t] EXCEPT !.pc = "load", !.rows = q])
    /\ UNCHANGED <<runVars, scanVars, cardVars>>

SelectInsert(t) ==
    /\ txn[t].pc = "insert"
    /\ \A u \in Reqs \ {t} : ~HoldsActiveKey(u)
    /\ IF ActiveRuns \ {txn[t].run} # {} \/ Card(txn[t].meeting) = {}
       THEN Becomes(t, NoTxn)
       ELSE \E q \in Listings(txn[t].meeting) :
               Becomes(t, [txn[t] EXCEPT !.pc = "load", !.rows = q])
    /\ UNCHANGED <<runVars, scanVars, cardVars>>

(***************************************************************************)
(* The loop over race_rows: upsert the race run, which waits for a close   *)
(* of it, then collect a session for each entry not scratched at this      *)
(* moment.                                                                 *)
(***************************************************************************)
SelectRace(t) ==
    /\ txn[t].pc = "load"
    /\ txn[t].at <= Len(txn[t].rows)
    /\ LET r == txn[t].rows[txn[t].at]
       IN  /\ Reuses(t) => RaceRunFreeFor(t, txn[t].run, r)
           /\ Becomes(t, [txn[t] EXCEPT !.at = @ + 1,
                                        !.adds = @ \cup {e \in declared : RaceOf[e] = r}])
    /\ UNCHANGED <<runVars, scanVars, cardVars>>

(***************************************************************************)
(* Commit.  Only a new run opens its first race; a race or session that    *)
(* exists keeps its state (ON CONFLICT).                                   *)
(***************************************************************************)
RowsLoaded(t) == {r \in Races : \E i \in 1..Len(txn[t].rows) : txn[t].rows[i] = r}

\* mutation: the first race is opened on a re-selection too
LoadedFirstOpen(t, n) ==
    [r \in Races |->
        IF raceRun[n][r] # "none" \/ r \notin RowsLoaded(t) THEN raceRun[n][r]
        ELSE IF r = txn[t].rows[1] THEN "open" ELSE "locked"]

\* mutation: ON CONFLICT sets the state again
LoadedStateReset(t, n) ==
    [r \in Races |->
        IF r \notin RowsLoaded(t) \/ raceRun[n][r] = "open" THEN raceRun[n][r]
        ELSE IF RacesIn(n, "none") = Races /\ r = txn[t].rows[1] THEN "open" ELSE "locked"]

LoadedRaceRuns(t, n) ==
    [r \in Races |->
        IF raceRun[n][r] # "none" \/ r \notin RowsLoaded(t) THEN raceRun[n][r]
        ELSE IF RacesIn(n, "none") = Races /\ r = txn[t].rows[1] THEN "open"
        ELSE "locked"]

LoadedSessions(t, n) ==
    [e \in Entries |-> IF session[n][e] = "none" /\ e \in txn[t].adds
                       THEN "awaiting-pre" ELSE session[n][e]]

SelectCommit(t) ==
    /\ txn[t].pc = "load"
    /\ txn[t].at > Len(txn[t].rows)
    /\ \E n \in Runs :
          /\ IF Reuses(t) THEN n = txn[t].run ELSE runState[n] = "none"
          /\ runState' = [k \in Runs |-> IF k = n THEN "active"
                                         ELSE IF k = txn[t].run THEN "cancelled"
                                         ELSE runState[k]]
          /\ runMeeting' = [runMeeting EXCEPT ![n] = txn[t].meeting]
          /\ raceRun' = [raceRun EXCEPT ![n] = LoadedRaceRuns(t, n)]
          /\ session' = [session EXCEPT ![n] = LoadedSessions(t, n)]
    /\ Becomes(t, NoTxn)
    /\ UNCHANGED <<activePhase, frames, cardVars>>

(***************************************************************************)
(* set_phase.  Its SELECT ... FOR UPDATE joins the session, its race run   *)
(* and the race, so all it decides on is locked, whatever the state of the *)
(* meeting run.  The one-active-horse index is global.                     *)
(***************************************************************************)
StartScan(n, e, p) ==
    /\ RaceRunFree(n, RaceOf[e])
    /\ raceRun[n][RaceOf[e]] = "open"
    /\ Phase(RaceOf[e]) = p
    /\ session[n][e] = Awaiting(p)
    /\ \A k \in Runs, f \in Entries : activePhase[k][f] = "none"
    /\ session' = [session EXCEPT ![n][e] = Scanning(p)]
    /\ activePhase' = [activePhase EXCEPT ![n][e] = p]
    /\ UNCHANGED <<runVars, frames, cardVars, txn>>

\* mutation: finishing does not ask for frames
FinishScanBlind(n, e, p) ==
    /\ RaceRunFree(n, RaceOf[e])
    /\ raceRun[n][RaceOf[e]] = "open"
    /\ session[n][e] = Scanning(p)
    /\ session' = [session EXCEPT ![n][e] = IF p = "pre" THEN "awaiting-post" ELSE "complete"]
    /\ activePhase' = [activePhase EXCEPT ![n][e] = "none"]
    /\ UNCHANGED <<runVars, frames, cardVars, txn>>

FinishScan(n, e, p) ==
    /\ RaceRunFree(n, RaceOf[e])
    /\ raceRun[n][RaceOf[e]] = "open"
    /\ session[n][e] = Scanning(p)
    /\ p \in frames[n][e]
    /\ session' = [session EXCEPT ![n][e] = IF p = "pre" THEN "awaiting-post" ELSE "complete"]
    /\ activePhase' = [activePhase EXCEPT ![n][e] = "none"]
    /\ UNCHANGED <<runVars, frames, cardVars, txn>>

(***************************************************************************)
(* skip: a runner is marked unavailable unless a scan of it is active.     *)
(***************************************************************************)
\* mutation: a runner being scanned can be marked unavailable
SkipWhileScanned(n, e) ==
    /\ session[n][e] # "none"
    /\ RaceRunFree(n, RaceOf[e])
    /\ session' = [session EXCEPT ![n][e] = "cancelled"]
    /\ UNCHANGED <<runVars, activePhase, frames, cardVars, txn>>

Skip(n, e) ==
    /\ session[n][e] # "none"
    /\ RaceRunFree(n, RaceOf[e])
    /\ activePhase[n][e] = "none"
    /\ session' = [session EXCEPT ![n][e] = "cancelled"]
    /\ UNCHANGED <<runVars, activePhase, frames, cardVars, txn>>

(***************************************************************************)
(* The Heatmap service, outside this repository, stores a camera frame for *)
(* the horse that is being scanned.                                        *)
(***************************************************************************)
Capture(n, e) ==
    /\ activePhase[n][e] # "none"
    /\ activePhase[n][e] \notin frames[n][e]
    /\ frames' = [frames EXCEPT ![n][e] = @ \cup {activePhase[n][e]}]
    /\ UNCHANGED <<runVars, session, activePhase, cardVars, txn>>

(***************************************************************************)
(* close_race.  The race run is locked and checked, and the next race to   *)
(* open is chosen among the locked ones.                                   *)
(***************************************************************************)
FirstLocked(n) == {r \in RacesIn(n, "locked") :
                      \A s \in RacesIn(n, "locked") \ {r} : Before(r, s)}

CloseBegin(t, n, r) ==
    /\ txn[t].pc = "idle"
    /\ RaceRunFree(n, r)
    /\ raceRun[n][r] = "open"
    /\ Started(r)
    /\ \A e \in SessionsOf(n, r) : session[n][e] \in Settled
    /\ \E next \in (IF RacesIn(n, "locked") = {} THEN {NoRace} ELSE FirstLocked(n)) :
          Becomes(t, [NoTxn EXCEPT !.pc = "close", !.run = n, !.race = r, !.next = next])
    /\ UNCHANGED <<runVars, scanVars, cardVars>>

(***************************************************************************)
(* The next race is opened, which waits for its row, or, when no race is   *)
(* left, the meeting run is completed, which waits for its row.            *)
(***************************************************************************)
Left(n, r) == {s \in Races \ {r} : raceRun[n][s] \notin {"none", "archived"}}

OpenNext(t) ==
    LET n == txn[t].run  r == txn[t].race  next == txn[t].next
    IN  /\ txn[t].pc = "close" /\ next # NoRace
        /\ RaceRunFreeFor(t, n, next)
        /\ raceRun' = [raceRun EXCEPT ![n][r] = "archived", ![n][next] = "open"]
        /\ Becomes(t, NoTxn)
        /\ UNCHANGED <<runState, runMeeting, scanVars, cardVars>>

\* mutation: the run gets a state its CHECK constraint does not know
CloseLastAsClosed(t) ==
    LET n == txn[t].run  r == txn[t].race
    IN  /\ txn[t].pc = "close" /\ txn[t].next = NoRace
        /\ Left(n, r) = {} => FreeFor(t, n)
        /\ raceRun' = [raceRun EXCEPT ![n][r] = "archived"]
        /\ runState' = [runState EXCEPT ![n] = IF Left(n, r) = {} THEN "closed" ELSE @]
        /\ Becomes(t, NoTxn)
        /\ UNCHANGED <<runMeeting, scanVars, cardVars>>

CloseLast(t) ==
    LET n == txn[t].run  r == txn[t].race
    IN  /\ txn[t].pc = "close" /\ txn[t].next = NoRace
        /\ Left(n, r) = {} => FreeFor(t, n)
        /\ raceRun' = [raceRun EXCEPT ![n][r] = "archived"]
        /\ runState' = [runState EXCEPT ![n] = IF Left(n, r) = {} THEN "completed" ELSE @]
        /\ Becomes(t, NoTxn)
        /\ UNCHANGED <<runMeeting, scanVars, cardVars>>

(***************************************************************************)
(* PostgreSQL aborts a transaction of a wait cycle; the only cycle is a    *)
(* re-selection and a close of one run that want each other's rows.        *)
(***************************************************************************)
WaitsFor(t, u) ==
    \/ /\ Reuses(t) /\ txn[t].at <= Len(txn[t].rows)
       /\ HoldsRaceRun(u, txn[t].run, txn[t].rows[txn[t].at])
    \/ /\ txn[t].pc = "close"
       /\ IF txn[t].next = NoRace THEN HoldsRun(u, txn[t].run)
                                  ELSE HoldsRaceRun(u, txn[t].run, txn[t].next)

DeadlockVictim(t) ==
    /\ \E u \in Reqs \ {t} : WaitsFor(t, u) /\ WaitsFor(u, t)
    /\ Becomes(t, NoTxn)
    /\ UNCHANGED <<runVars, scanVars, cardVars>>

(***************************************************************************)
(* The API process stops: every open transaction is rolled back.           *)
(***************************************************************************)
ApiRestart ==
    /\ \E t \in Reqs : txn[t].pc # "idle"
    /\ txn' = [t \in Reqs |-> NoTxn]
    /\ UNCHANGED <<runVars, scanVars, cardVars>>

(***************************************************************************)
(* The poller's load script: races and entries appear, an entry is         *)
(* scratched or reinstated, a start time moves, a race jumps or the source  *)
(* takes its start back.  No statement of it deletes a race.               *)
(***************************************************************************)
SyncRace(r) ==
    /\ r \notin listed
    /\ listed' = listed \cup {r}
    /\ UNCHANGED <<runVars, scanVars, declared, sched, actual, now, edits, txn>>

SyncEntry(e) ==
    /\ RaceOf[e] \in listed
    /\ edits < MaxEdits
    /\ edits' = edits + 1
    /\ declared' = IF e \in declared THEN declared \ {e} ELSE declared \cup {e}
    /\ UNCHANGED <<runVars, scanVars, listed, sched, actual, now, txn>>

Reschedule(r, s) ==
    /\ r \in listed /\ s # sched[r]
    /\ edits < MaxEdits
    /\ edits' = edits + 1
    /\ sched' = [sched EXCEPT ![r] = s]
    /\ UNCHANGED <<runVars, scanVars, listed, declared, actual, now, txn>>

Jump(r, a) ==
    /\ r \in listed /\ a # actual[r]
    /\ a # NoTime => a <= now
    /\ edits < MaxEdits
    /\ edits' = edits + 1
    /\ actual' = [actual EXCEPT ![r] = a]
    /\ UNCHANGED <<runVars, scanVars, listed, declared, sched, now, txn>>

Tick ==
    /\ now < MaxTime
    /\ now' = now + 1
    /\ UNCHANGED <<runVars, scanVars, listed, declared, sched, actual, edits, txn>>

-----------------------------------------------------------------------------
Select(t) == \/ \E m \in Meetings : SelectBegin(t, m)
             \/ SelectLock(t) \/ SelectInsert(t) \/ SelectRace(t) \/ SelectCommit(t)

Close(t) == \/ \E n \in Runs, r \in Races : CloseBegin(t, n, r)
            \/ OpenNext(t) \/ CloseLast(t)

Scan(n, e) == \/ \E p \in ScanPhases : StartScan(n, e, p) \/ FinishScan(n, e, p)
              \/ Skip(n, e) \/ Capture(n, e)

Sync == \/ \E r \in Races : \/ SyncRace(r)
                            \/ \E s \in Times : Reschedule(r, s) \/ Jump(r, s)
        \/ \E e \in Entries : SyncEntry(e)

Next == \/ \E t \in Reqs : Select(t) \/ Close(t) \/ DeadlockVictim(t)
        \/ \E n \in Runs, e \in Entries : Scan(n, e)
        \/ ApiRestart \/ Sync \/ Tick

Spec == Init /\ [][Next]_vars

(***************************************************************************)
(* PostgreSQL runs a statement whose locks are free, grants a contended    *)
(* lock in the order it was asked for (so a waiter is not overtaken for    *)
(* ever: strong fairness) and breaks a wait cycle after deadlock_timeout.  *)
(* Nothing makes an operator act or a clock tick.                          *)
(***************************************************************************)
Fairness ==
    \A t \in Reqs :
        /\ SF_vars(SelectLock(t)) /\ SF_vars(SelectInsert(t)) /\ SF_vars(SelectRace(t))
        /\ WF_vars(SelectCommit(t))
        /\ SF_vars(OpenNext(t)) /\ SF_vars(CloseLast(t))
        /\ WF_vars(DeadlockVictim(t))

FairSpec == Spec /\ Fairness

-----------------------------------------------------------------------------
(***************************************************************************)
(* Every variable has its type, and a transaction holds what its stage     *)
(* needs.                                                                  *)
(***************************************************************************)
TypeOK ==
    /\ runState \in [Runs -> RunStates]
    /\ runMeeting \in [Runs -> Meetings \cup {NoMeeting}]
    /\ raceRun \in [Runs -> [Races -> RaceRunStates]]
    /\ session \in [Runs -> [Entries -> SessionStates]]
    /\ activePhase \in [Runs -> [Entries -> ScanPhases \cup {"none"}]]
    /\ frames \in [Runs -> [Entries -> SUBSET ScanPhases]]
    /\ listed \subseteq Races /\ declared \subseteq Entries
    /\ sched \in [Races -> Times] /\ actual \in [Races -> Times]
    /\ now \in 0..MaxTime /\ edits \in 0..MaxEdits
    /\ txn \in [Reqs -> Txns]

(***************************************************************************)
(* The queue moves one race at a time: no run ever has two open races, an  *)
(* active run always has one, and a completed run is archived throughout.  *)
(* The model leaves the one-open-race index out: this says select_meeting  *)
(* and close_race never run into it, and never leave a meeting with races  *)
(* to work and none open.                                                  *)
(***************************************************************************)
OneOpenRace ==
    \A n \in Runs :
        /\ \A r, s \in RacesIn(n, "open") : r = s
        /\ runState[n] = "active" => RacesIn(n, "open") # {}
        /\ runState[n] = "completed" => \A r \in Races : raceRun[n][r] \in {"none", "archived"}

(***************************************************************************)
(* A horse is being scanned exactly while its active_phase says so, one    *)
(* horse at a time over all meetings, and its race stays open until the    *)
(* scan is finished: otherwise set_phase refuses the finish and the active *)
(* phase blocks every other scan for good.                                 *)
(***************************************************************************)
ActiveScanCanFinish ==
    /\ \A n \in Runs, e \in Entries :
          /\ \A p \in ScanPhases : activePhase[n][e] = p <=> session[n][e] = Scanning(p)
          /\ activePhase[n][e] # "none" => raceRun[n][RaceOf[e]] = "open"
    /\ \A n, k \in Runs, e, f \in Entries :
          activePhase[n][e] # "none" /\ activePhase[k][f] # "none" => n = k /\ e = f

(***************************************************************************)
(* A runner past a phase has camera frames of that phase: a complete one   *)
(* has both, so that the comparison of the dashboard can be made.          *)
(***************************************************************************)
PastPhaseHasFrames ==
    \A n \in Runs, e \in Entries :
        /\ session[n][e] \in {"awaiting-post", "scanning-post", "complete"} => "pre" \in frames[n][e]
        /\ session[n][e] = "complete" => "post" \in frames[n][e]

(***************************************************************************)
(* What is archived stays: an archived race never changes state again, and *)
(* a completed run gains no race and no runner, however a re-selection of  *)
(* its meeting and the close of its last race interleave.                  *)
(***************************************************************************)
KeepsArchive(n) ==
    /\ \A r \in Races : raceRun[n][r] = "archived" => raceRun'[n][r] = "archived"
    /\ runState[n] = "completed" =>
          /\ runState'[n] = "completed" /\ raceRun'[n] = raceRun[n]
          /\ \A e \in Entries : session[n][e] = "none" => session'[n][e] = "none"

ArchiveIsFinal == [][\A n \in Runs : KeepsArchive(n)]_vars

(***************************************************************************)
(* Why the above is inductive.  The committed tables: a run that was not   *)
(* inserted has no races, a race of a run is a synced race of its meeting, *)
(* and at most one run is active.                                          *)
(***************************************************************************)
TablesOK ==
    \A n \in Runs :
        /\ runState[n] = "none" => \A r \in Races : raceRun[n][r] = "none"
        /\ \A r \in Races : raceRun[n][r] # "none" => r \in listed /\ MeetingOf[r] = runMeeting[n]
        /\ \A k \in Runs : runState[n] = "active" /\ runState[k] = "active" => n = k

(***************************************************************************)
(* A selection past its first lock holds an active run or none; its list   *)
(* covers the races the run already has; a selection that inserts a run    *)
(* leaves no other active one behind.                                      *)
(***************************************************************************)
SelectOK(t) ==
    LET n == txn[t].run
    IN  /\ txn[t].pc \in {"insert", "load"} /\ n # NoRun => runState[n] = "active"
        /\ txn[t].pc = "insert" /\ n # NoRun => runMeeting[n] # txn[t].meeting
        /\ Selecting(t) => txn[t].meeting \in Meetings
        /\ txn[t].pc \in {"lock", "insert"} => txn[t].at = 1 /\ txn[t].adds = {}
        /\ txn[t].pc = "load" =>
              /\ txn[t].at \in 1..(Len(txn[t].rows) + 1)
              /\ \A i \in 1..Len(txn[t].rows) : /\ txn[t].rows[i] \in listed
                                                /\ MeetingOf[txn[t].rows[i]] = txn[t].meeting
              /\ \A e \in txn[t].adds : \E i \in 1..(txn[t].at - 1) : txn[t].rows[i] = RaceOf[e]
        /\ Reuses(t) => \A r \in Races : raceRun[n][r] # "none" =>
                           \E i \in 1..Len(txn[t].rows) : txn[t].rows[i] = r
        /\ HoldsActiveKey(t) => /\ Len(txn[t].rows) > 0
                                /\ \A k \in Runs : runState[k] = "active" => k = n

(***************************************************************************)
(* A close holds an open race whose runners are all settled, and what it   *)
(* chose to open is still locked, or nothing is.                           *)
(***************************************************************************)
CloseOK(t) ==
    LET n == txn[t].run
    IN  txn[t].pc = "close" =>
           /\ n \in Runs /\ txn[t].race \in Races
           /\ raceRun[n][txn[t].race] = "open"
           /\ \A e \in SessionsOf(n, txn[t].race) : session[n][e] \in Settled
           /\ IF txn[t].next = NoRace THEN RacesIn(n, "locked") = {}
                                      ELSE raceRun[n][txn[t].next] = "locked"

(***************************************************************************)
(* No row and no index key is held by two transactions.                    *)
(***************************************************************************)
LocksOK ==
    \A t, u \in Reqs : t # u =>
        /\ \A n \in Runs : ~(HoldsRun(t, n) /\ HoldsRun(u, n))
        /\ \A n \in Runs, r \in Races : ~(HoldsRaceRun(t, n, r) /\ HoldsRaceRun(u, n, r))
        /\ ~(HoldsActiveKey(t) /\ HoldsActiveKey(u))

(***************************************************************************)
(* The inductive invariant of the row-locked transactions: what a request  *)
(* read under a lock is still so when it commits.                          *)
(***************************************************************************)
LockedReadsHold ==
    /\ TablesOK /\ LocksOK
    /\ \A t \in Reqs : SelectOK(t) /\ CloseOK(t)

(***************************************************************************)
(* Race Day implements the abstract meeting queue.                         *)
(***************************************************************************)
Queue == INSTANCE MeetingQueue
           WITH Runs <- Runs, Races <- Races, runState <- runState, raceRun <- raceRun
QueueSpec == Queue!Spec

(***************************************************************************)
(* Every request that entered a transaction leaves it: a re-selection and  *)
(* a close that wait for each other do not hang.                           *)
(***************************************************************************)
RequestsEnd == \A t \in Reqs : txn[t].pc # "idle" ~> txn[t].pc = "idle"

(***************************************************************************)
(* Selecting another meeting never abandons one with a scan in progress or *)
(* done: select_meeting answers "Close the active meeting's races before   *)
(* selecting another meeting" instead.                                     *)
(***************************************************************************)
SelectKeepsScans ==
    [][\A n \in Runs :
          runState[n] = "active" /\ runState'[n] = "cancelled" => ~Progressed(n)]_vars

=============================================================================
