--------------------------- MODULE RaceDayProofs ---------------------------
(***************************************************************************)
(* Proofs about RaceDay for every card, every number of runs and requests, *)
(* every scan window and every bound.                                      *)
(***************************************************************************)
EXTENDS RaceDay, FiniteSetTheorems, TLAPS

(***************************************************************************)
(* A row order of a meeting's races is a sequence of exactly these races.  *)
(***************************************************************************)
LEMMA ListingFacts ==
    ASSUME listed \subseteq Races, NEW m, NEW q \in Listings(m)
    PROVE  /\ q \in Seq(Races)
           /\ \A i \in 1..Len(q) : q[i] \in listed /\ MeetingOf[q[i]] = m
           /\ \A r \in listed : MeetingOf[r] = m => \E i \in 1..Len(q) : q[i] = r
           /\ Card(m) # {} => Len(q) > 0
<1>1. Card(m) \subseteq Races
  BY DEF Card
<1>2. Cardinality(Card(m)) \in Nat
  BY <1>1, CardAssumption, FS_Subset, FS_CardinalityType
<1>3. /\ q \in [1..Cardinality(Card(m)) -> Card(m)]
      /\ \A r \in Card(m) : \E i \in DOMAIN q : q[i] = r
  BY DEF Listings
<1>4. q \in Seq(Races) /\ Len(q) = Cardinality(Card(m)) /\ DOMAIN q = 1..Len(q)
  BY <1>1, <1>2, <1>3
<1>5. \A i \in 1..Len(q) : q[i] \in Card(m)
  BY <1>3, <1>4
<1>6. QED
  BY <1>3, <1>4, <1>5 DEF Card

(***************************************************************************)
(* Every step keeps the types.                                             *)
(***************************************************************************)
LEMMA TypeInit == Init => TypeOK
BY CardAssumption, NumberAssumption, NullAssumption
   DEF Init, TypeOK, RunStates, RaceRunStates, SessionStates, ScanPhases, Times, Txns, NoTxn

LEMMA NoTxnType == NoTxn \in Txns
BY DEF NoTxn, Txns

LEMMA BecomesType ==
    ASSUME TypeOK, NEW t \in Reqs, NEW x \in Txns, Becomes(t, x)
    PROVE  txn' \in [Reqs -> Txns]
BY DEF Becomes, TypeOK

(***************************************************************************)
(* A step of one transaction writes its record and no other.               *)
(***************************************************************************)
LEMMA BecomesValue ==
    ASSUME TypeOK, NEW t \in Reqs, NEW x, Becomes(t, x)
    PROVE  /\ txn'[t] = x
           /\ \A u \in Reqs : u # t => txn'[u] = txn[u]
BY DEF Becomes, TypeOK

(***************************************************************************)
(* The three forms a transaction takes while it selects a meeting.         *)
(***************************************************************************)
LEMMA SelectTypes ==
    ASSUME TypeOK, NEW t \in Reqs
    PROVE  /\ txn[t] \in Txns
           /\ [txn[t] EXCEPT !.pc = "insert"] \in Txns
           /\ [txn[t] EXCEPT !.pc = "insert", !.run = NoRun] \in Txns
           /\ \A q \in Listings(txn[t].meeting) :
                 [txn[t] EXCEPT !.pc = "load", !.rows = q] \in Txns
           /\ [txn[t] EXCEPT !.at = @ + 1,
                             !.adds = @ \cup {e \in declared : RaceOf[e] = txn[t].rows[txn[t].at]}]
                 \in Txns
<1>1. txn[t] \in Txns
  BY DEF TypeOK
<1>2. /\ [txn[t] EXCEPT !.pc = "insert"] \in Txns
      /\ [txn[t] EXCEPT !.pc = "insert", !.run = NoRun] \in Txns
  BY <1>1 DEF Txns
<1>3. ASSUME NEW q \in Listings(txn[t].meeting)
      PROVE  [txn[t] EXCEPT !.pc = "load", !.rows = q] \in Txns
  <2>1. q \in Seq(Races)
    BY ListingFacts DEF TypeOK
  <2>2. QED BY <1>1, <2>1 DEF Txns
<1>4. [txn[t] EXCEPT !.at = @ + 1,
                     !.adds = @ \cup {e \in declared : RaceOf[e] = txn[t].rows[txn[t].at]}] \in Txns
  <2>1. {e \in declared : RaceOf[e] = txn[t].rows[txn[t].at]} \subseteq Entries
    BY DEF TypeOK
  <2>2. txn[t].at + 1 \in Nat
    BY <1>1 DEF Txns
  <2>3. txn[t].adds \cup {e \in declared : RaceOf[e] = txn[t].rows[txn[t].at]} \in SUBSET Entries
    BY <1>1, <2>1 DEF Txns
  <2>4. QED BY <1>1, <2>2, <2>3 DEF Txns
<1>5. QED BY <1>1, <1>2, <1>3, <1>4

LEMMA TypeStep == TypeOK /\ [Next]_vars => TypeOK'
<1> SUFFICES ASSUME TypeOK, [Next]_vars PROVE TypeOK'
  OBVIOUS
<1> USE NoTxnType
<1>1. ASSUME NEW t \in Reqs, Select(t) PROVE TypeOK'
  <2>1. ASSUME NEW m \in Meetings, SelectBegin(t, m) PROVE TypeOK'
    <3>1. PICK n \in Runs \cup {NoRun} :
             Becomes(t, [NoTxn EXCEPT !.pc = "lock", !.meeting = m, !.run = n])
      BY <2>1 DEF SelectBegin
    <3>2. [NoTxn EXCEPT !.pc = "lock", !.meeting = m, !.run = n] \in Txns
      BY DEF NoTxn, Txns
    <3>3. txn' \in [Reqs -> Txns]
      BY <3>1, <3>2, BecomesType
    <3>4. QED BY <2>1, <3>3 DEF SelectBegin, TypeOK, runVars, scanVars, cardVars
  <2>2. CASE SelectLock(t)
    <3>1. PICK x \in Txns : Becomes(t, x)
      BY <2>2, SelectTypes DEF SelectLock
    <3>2. txn' \in [Reqs -> Txns]
      BY <3>1, BecomesType
    <3>3. QED BY <2>2, <3>2 DEF SelectLock, TypeOK, runVars, scanVars, cardVars
  <2>3. CASE SelectInsert(t)
    <3>1. PICK x \in Txns : Becomes(t, x)
      BY <2>3, SelectTypes DEF SelectInsert
    <3>2. txn' \in [Reqs -> Txns]
      BY <3>1, BecomesType
    <3>3. QED BY <2>3, <3>2 DEF SelectInsert, TypeOK, runVars, scanVars, cardVars
  <2>4. CASE SelectRace(t)
    <3>1. PICK x \in Txns : Becomes(t, x)
      BY <2>4, SelectTypes DEF SelectRace
    <3>2. txn' \in [Reqs -> Txns]
      BY <3>1, BecomesType
    <3>3. QED BY <2>4, <3>2 DEF SelectRace, TypeOK, runVars, scanVars, cardVars
  <2>5. CASE SelectCommit(t)
    <3> PICK n \in Runs : SelectCommit(t)!3!(n)
      BY <2>5 DEF SelectCommit
    <3>1. runState' \in [Runs -> RunStates]
      BY DEF TypeOK, RunStates
    <3>2. runMeeting' \in [Runs -> Meetings \cup {NoMeeting}]
      BY DEF TypeOK, Txns
    <3>3. LoadedRaceRuns(t, n) \in [Races -> RaceRunStates]
      BY DEF TypeOK, LoadedRaceRuns, RaceRunStates
    <3>4. LoadedSessions(t, n) \in [Entries -> SessionStates]
      BY DEF TypeOK, LoadedSessions, SessionStates
    <3>5. txn' \in [Reqs -> Txns]
      BY <2>5, BecomesType DEF SelectCommit
    <3>6. QED
      BY <2>5, <3>1, <3>2, <3>3, <3>4, <3>5 DEF TypeOK, SelectCommit, cardVars
  <2>6. QED BY <1>1, <2>1, <2>2, <2>3, <2>4, <2>5 DEF Select
<1>2. ASSUME NEW t \in Reqs, Close(t) PROVE TypeOK'
  <2>1. ASSUME NEW n \in Runs, NEW r \in Races, CloseBegin(t, n, r) PROVE TypeOK'
    <3>1. PICK next \in Races \cup {NoRace} :
             Becomes(t, [NoTxn EXCEPT !.pc = "close", !.run = n, !.race = r, !.next = next])
      BY <2>1 DEF CloseBegin, FirstLocked, RacesIn
    <3>2. [NoTxn EXCEPT !.pc = "close", !.run = n, !.race = r, !.next = next] \in Txns
      BY DEF NoTxn, Txns
    <3>3. txn' \in [Reqs -> Txns]
      BY <3>1, <3>2, BecomesType
    <3>4. QED BY <2>1, <3>3 DEF CloseBegin, TypeOK, runVars, scanVars, cardVars
  <2>2. CASE OpenNext(t)
    BY <2>2 DEF OpenNext, Becomes, TypeOK, RaceRunStates, scanVars, cardVars
  <2>3. CASE CloseLast(t)
    BY <2>3 DEF CloseLast, Becomes, TypeOK, RaceRunStates, RunStates, scanVars, cardVars
  <2>4. QED BY <1>2, <2>1, <2>2, <2>3 DEF Close
<1>3. ASSUME NEW t \in Reqs, DeadlockVictim(t) PROVE TypeOK'
  BY <1>3 DEF DeadlockVictim, Becomes, TypeOK, runVars, scanVars, cardVars
<1>4. ASSUME NEW n \in Runs, NEW e \in Entries, Scan(n, e) PROVE TypeOK'
  <2>1. ASSUME NEW p \in ScanPhases, StartScan(n, e, p) PROVE TypeOK'
    BY <2>1 DEF StartScan, TypeOK, Scanning, SessionStates, ScanPhases, runVars, cardVars
  <2>2. ASSUME NEW p \in ScanPhases, FinishScan(n, e, p) PROVE TypeOK'
    BY <2>2 DEF FinishScan, TypeOK, SessionStates, runVars, cardVars
  <2>3. CASE Skip(n, e)
    BY <2>3 DEF Skip, TypeOK, SessionStates, runVars, cardVars
  <2>4. CASE Capture(n, e)
    BY <2>4 DEF Capture, TypeOK, runVars, cardVars
  <2>5. QED BY <1>4, <2>1, <2>2, <2>3, <2>4 DEF Scan
<1>5. CASE ApiRestart
  BY <1>5 DEF ApiRestart, TypeOK, runVars, scanVars, cardVars
<1>6. CASE Sync
  <2>1. ASSUME NEW r \in Races, SyncRace(r) PROVE TypeOK'
    BY <2>1 DEF SyncRace, TypeOK, runVars, scanVars
  <2>2. ASSUME NEW r \in Races, NEW s \in Times, Jump(r, s) PROVE TypeOK'
    BY <2>2, NumberAssumption DEF Jump, TypeOK, runVars, scanVars
  <2>3. ASSUME NEW r \in Races, NEW s \in Times, Reschedule(r, s) PROVE TypeOK'
    BY <2>3, NumberAssumption DEF Reschedule, TypeOK, runVars, scanVars
  <2>4. ASSUME NEW e \in Entries, SyncEntry(e) PROVE TypeOK'
    BY <2>4, NumberAssumption DEF SyncEntry, TypeOK, runVars, scanVars
  <2>5. QED BY <1>6, <2>1, <2>2, <2>3, <2>4 DEF Sync
<1>7. CASE Tick
  BY <1>7, NumberAssumption DEF Tick, TypeOK, runVars, scanVars
<1>8. CASE UNCHANGED vars
  BY <1>8 DEF vars, TypeOK, runVars, scanVars, cardVars
<1>9. QED
  BY <1>1, <1>2, <1>3, <1>4, <1>5, <1>6, <1>7, <1>8 DEF Next

(***************************************************************************)
(* Type correctness: no handler writes a state, a phase or a key the       *)
(* tables do not have.                                                     *)
(***************************************************************************)
THEOREM TypeCorrect == Spec => []TypeOK
BY TypeInit, TypeStep, PTL DEF Spec

-----------------------------------------------------------------------------
(***************************************************************************)
(* The inductive invariant, and the definitions the lock arguments expand. *)
(***************************************************************************)
Inv == /\ TypeOK /\ LockedReadsHold
       /\ OneOpenRace /\ ActiveScanCanFinish /\ PastPhaseHasFrames

(***************************************************************************)
(* While the tables stand still, a transaction that does not move keeps    *)
(* what it holds and what it relies on.                                    *)
(***************************************************************************)
LEMMA OthersKeep ==
    ASSUME UNCHANGED <<runVars, scanVars, listed>>, NEW u \in Reqs, txn'[u] = txn[u]
    PROVE  /\ SelectOK(u)' <=> SelectOK(u)
           /\ CloseOK(u)' <=> CloseOK(u)
           /\ \A n : HoldsRun(u, n)' <=> HoldsRun(u, n)
           /\ \A n, r : HoldsRaceRun(u, n, r)' <=> HoldsRaceRun(u, n, r)
           /\ HoldsActiveKey(u)' <=> HoldsActiveKey(u)
BY DEF SelectOK, CloseOK, Selecting, HoldsRun, HoldsRaceRun, HoldsActiveKey, Reuses,
       SessionsOf, RacesIn, runVars, scanVars

(***************************************************************************)
(* A transaction that ended holds nothing.                                 *)
(***************************************************************************)
LEMMA EndedHoldsNothing ==
    ASSUME NEW t \in Reqs, txn[t] = NoTxn
    PROVE  /\ SelectOK(t) /\ CloseOK(t)
           /\ \A n : ~HoldsRun(t, n)
           /\ \A n, r : ~HoldsRaceRun(t, n, r)
           /\ ~HoldsActiveKey(t)
BY DEF NoTxn, SelectOK, CloseOK, Selecting, HoldsRun, HoldsRaceRun, HoldsActiveKey, Reuses

LEMMA InvInit == Init => Inv
<1> SUFFICES ASSUME Init PROVE Inv
  OBVIOUS
<1>1. TypeOK
  BY TypeInit
<1>2. \A t \in Reqs : txn[t] = NoTxn
  BY DEF Init
<1>3. LockedReadsHold
  <2>1. TablesOK
    BY DEF Init, TablesOK
  <2>2. QED BY <1>2, <2>1, EndedHoldsNothing DEF LockedReadsHold, LocksOK
<1>4. OneOpenRace
  BY DEF Init, OneOpenRace, RacesIn
<1>5. ActiveScanCanFinish
  BY DEF Init, ActiveScanCanFinish, ScanPhases, Scanning
<1>6. PastPhaseHasFrames
  BY DEF Init, PastPhaseHasFrames
<1>7. QED BY <1>1, <1>3, <1>4, <1>5, <1>6 DEF Inv

(***************************************************************************)
(* One transaction takes a step that writes no table: the locks it gains   *)
(* must be free and its own record must be in order.                       *)
(***************************************************************************)
LEMMA OneMoves ==
    ASSUME TypeOK, LockedReadsHold, UNCHANGED <<runVars, scanVars, listed>>,
           NEW t \in Reqs, NEW x \in Txns, Becomes(t, x),
           SelectOK(t)', CloseOK(t)',
           \A u \in Reqs \ {t} :
              /\ \A n \in Runs : HoldsRun(t, n)' => ~HoldsRun(u, n)
              /\ \A n \in Runs, r \in Races : HoldsRaceRun(t, n, r)' => ~HoldsRaceRun(u, n, r)
              /\ HoldsActiveKey(t)' => ~HoldsActiveKey(u)
    PROVE  LockedReadsHold'
<1>1. \A u \in Reqs : u # t => txn'[u] = txn[u]
  BY DEF Becomes, TypeOK
<1>2. TablesOK'
  BY DEF LockedReadsHold, TablesOK, runVars
<1>3. \A u \in Reqs : SelectOK(u)' /\ CloseOK(u)'
  BY <1>1, OthersKeep DEF LockedReadsHold
<1>4. LocksOK'
  <2> SUFFICES ASSUME NEW u \in Reqs, NEW v \in Reqs, u # v
               PROVE  /\ \A n \in Runs : ~(HoldsRun(u, n) /\ HoldsRun(v, n))'
                      /\ \A n \in Runs, r \in Races : ~(HoldsRaceRun(u, n, r) /\ HoldsRaceRun(v, n, r))'
                      /\ ~(HoldsActiveKey(u) /\ HoldsActiveKey(v))'
    BY DEF LocksOK
  <2>1. CASE u # t /\ v # t
    BY <1>1, <2>1, OthersKeep DEF LockedReadsHold, LocksOK
  <2>2. CASE u = t
    BY <1>1, <2>2, OthersKeep
  <2>3. CASE v = t
    BY <1>1, <2>3, OthersKeep
  <2>4. QED BY <2>1, <2>2, <2>3
<1>5. QED BY <1>2, <1>3, <1>4 DEF LockedReadsHold

(***************************************************************************)
(* A transaction that ends without a write (a refusal after the first      *)
(* lock, an aborted wait) disturbs nothing.                                *)
(***************************************************************************)
LEMMA EndsCleanly ==
    ASSUME TypeOK, LockedReadsHold, UNCHANGED <<runVars, scanVars, listed>>,
           NEW t \in Reqs, Becomes(t, NoTxn)
    PROVE  LockedReadsHold'
<1>1. txn'[t] = NoTxn
  BY BecomesValue
<1>2. /\ SelectOK(t)' /\ CloseOK(t)'
      /\ \A n \in Runs : ~HoldsRun(t, n)'
      /\ \A n \in Runs, r \in Races : ~HoldsRaceRun(t, n, r)'
      /\ ~HoldsActiveKey(t)'
  BY <1>1 DEF NoTxn, SelectOK, CloseOK, Selecting, HoldsRun, HoldsRaceRun, HoldsActiveKey, Reuses
<1>3. QED
  BY <1>2, NoTxnType, OneMoves

(***************************************************************************)
(* The steps of select_meeting before its commit.                          *)
(***************************************************************************)
LEMMA SelectBeginLocks ==
    ASSUME TypeOK, LockedReadsHold, NEW t \in Reqs, NEW m \in Meetings, SelectBegin(t, m)
    PROVE  LockedReadsHold'
<1>1. PICK n \in Runs \cup {NoRun} :
         Becomes(t, [NoTxn EXCEPT !.pc = "lock", !.meeting = m, !.run = n])
  BY DEF SelectBegin
<1>2. [NoTxn EXCEPT !.pc = "lock", !.meeting = m, !.run = n] \in Txns
  BY NoTxnType DEF NoTxn, Txns
<1>3. /\ txn'[t].pc = "lock" /\ txn'[t].meeting = m
      /\ txn'[t].at = 1 /\ txn'[t].adds = {}
  <2>1. txn'[t] = [NoTxn EXCEPT !.pc = "lock", !.meeting = m, !.run = n]
    BY <1>1, BecomesValue
  <2>2. QED BY <2>1 DEF NoTxn
<1>4. /\ SelectOK(t)' /\ CloseOK(t)'
      /\ \A k \in Runs : ~HoldsRun(t, k)'
      /\ \A k \in Runs, r \in Races : ~HoldsRaceRun(t, k, r)'
      /\ ~HoldsActiveKey(t)'
  BY <1>3 DEF SelectOK, CloseOK, Selecting, HoldsRun, HoldsRaceRun, HoldsActiveKey, Reuses
<1>5. QED
  BY <1>1, <1>2, <1>4, OneMoves DEF SelectBegin, cardVars

LEMMA SelectLockLocks ==
    ASSUME TypeOK, LockedReadsHold, NEW t \in Reqs, SelectLock(t)
    PROVE  LockedReadsHold'
<1> DEFINE n == txn[t].run
           m == txn[t].meeting
<1>1. /\ UNCHANGED <<runVars, scanVars, listed>>
      /\ txn[t] \in Txns /\ txn[t].pc = "lock"
      /\ m \in Meetings /\ txn[t].at = 1 /\ txn[t].adds = {}
  BY DEF SelectLock, TypeOK, cardVars, LockedReadsHold, SelectOK, Selecting
<1>2. CASE n \notin ActiveRuns
  <2>1. Becomes(t, [txn[t] EXCEPT !.pc = "insert", !.run = NoRun])
    BY <1>2 DEF SelectLock
  <2>2. /\ txn'[t].pc = "insert" /\ txn'[t].run = NoRun /\ txn'[t].meeting = m
        /\ txn'[t].at = 1 /\ txn'[t].adds = {}
    <3>1. txn'[t] = [txn[t] EXCEPT !.pc = "insert", !.run = NoRun]
      BY <2>1, BecomesValue
    <3>2. QED BY <1>1, <3>1 DEF Txns
  <2>3. /\ SelectOK(t)' /\ CloseOK(t)' /\ \A k \in Runs : ~HoldsRun(t, k)'
        /\ \A k \in Runs, r \in Races : ~HoldsRaceRun(t, k, r)'
        /\ ~HoldsActiveKey(t)'
    BY <1>1, <2>2, NullAssumption
       DEF SelectOK, CloseOK, Selecting, HoldsRun, HoldsRaceRun, HoldsActiveKey, Reuses
  <2>4. QED BY <1>1, <2>1, <2>3, SelectTypes, OneMoves
<1>3. CASE n \in ActiveRuns /\ runMeeting[n] = m
  <2>1. PICK q \in Listings(m) : Becomes(t, [txn[t] EXCEPT !.pc = "load", !.rows = q])
    BY <1>3 DEF SelectLock
  <2>2. /\ txn'[t].pc = "load" /\ txn'[t].run = n /\ txn'[t].meeting = m
        /\ txn'[t].rows = q /\ txn'[t].at = 1 /\ txn'[t].adds = {}
    <3>1. txn'[t] = [txn[t] EXCEPT !.pc = "load", !.rows = q]
      BY <2>1, BecomesValue
    <3>2. QED BY <1>1, <3>1 DEF Txns
  <2>3. /\ n \in Runs /\ n # NoRun /\ runState[n] = "active"
        /\ runState' = runState /\ runMeeting' = runMeeting /\ raceRun' = raceRun
        /\ listed' = listed
    BY <1>1, <1>3, NullAssumption DEF ActiveRuns, runVars
  <2>4. Reuses(t)' /\ ~HoldsActiveKey(t)'
    BY <1>3, <2>2, <2>3 DEF Reuses, HoldsActiveKey
  <2>5. /\ q \in Seq(Races)
        /\ \A i \in 1..Len(q) : q[i] \in listed /\ MeetingOf[q[i]] = m
        /\ \A r \in listed : MeetingOf[r] = m => \E i \in 1..Len(q) : q[i] = r
    BY ListingFacts DEF TypeOK
  <2>6. Len(q) \in Nat
    BY <2>5
  <2>7. \A r \in Races : raceRun[n][r] # "none" => \E i \in 1..Len(q) : q[i] = r
    BY <1>3, <2>3, <2>5 DEF LockedReadsHold, TablesOK
  <2>8. SelectOK(t)' /\ CloseOK(t)'
    BY <1>1, <2>2, <2>3, <2>4, <2>5, <2>6, <2>7 DEF SelectOK, CloseOK, Selecting
  <2>9. \A u \in Reqs \ {t}, k \in Runs : HoldsRun(t, k)' => ~HoldsRun(u, k)
    BY <2>2, <2>3 DEF SelectLock, HoldsRun, FreeFor
  <2>10. \A k \in Runs, r \in Races : ~HoldsRaceRun(t, k, r)'
    BY <2>2 DEF HoldsRaceRun
  <2>11. QED
    BY <1>1, <2>1, <2>4, <2>8, <2>9, <2>10, SelectTypes, OneMoves
<1>4. CASE n \in ActiveRuns /\ runMeeting[n] # m
  <2>1. CASE Progressed(n)
    BY <1>1, <1>4, <2>1, EndsCleanly DEF SelectLock
  <2>2. CASE ~Progressed(n)
    <3>1. Becomes(t, [txn[t] EXCEPT !.pc = "insert"])
      BY <1>4, <2>2 DEF SelectLock
    <3>2. /\ txn'[t].pc = "insert" /\ txn'[t].run = n /\ txn'[t].meeting = m
          /\ txn'[t].at = 1 /\ txn'[t].adds = {}
      BY <1>1, <3>1, BecomesValue DEF Txns
    <3>3. n \in Runs /\ n # NoRun /\ runState'[n] = "active" /\ runMeeting'[n] # m
      BY <1>1, <1>4, NullAssumption DEF ActiveRuns, runVars
    <3>4. /\ SelectOK(t)' /\ CloseOK(t)'
          /\ \A k \in Runs, r \in Races : ~HoldsRaceRun(t, k, r)'
          /\ ~HoldsActiveKey(t)'
      BY <1>1, <3>2, <3>3 DEF SelectOK, CloseOK, Selecting, HoldsRaceRun, HoldsActiveKey, Reuses
    <3>5. \A u \in Reqs \ {t}, k \in Runs : HoldsRun(t, k)' => ~HoldsRun(u, k)
      BY <3>2, <3>3 DEF SelectLock, HoldsRun, FreeFor
    <3>6. QED BY <1>1, <3>1, <3>4, <3>5, SelectTypes, OneMoves
  <2>3. QED BY <2>1, <2>2
<1>5. QED BY <1>2, <1>3, <1>4

LEMMA SelectInsertLocks ==
    ASSUME TypeOK, LockedReadsHold, NEW t \in Reqs, SelectInsert(t)
    PROVE  LockedReadsHold'
<1> DEFINE n == txn[t].run
           m == txn[t].meeting
<1>1. /\ UNCHANGED <<runVars, scanVars, listed>>
      /\ txn[t] \in Txns /\ txn[t].pc = "insert"
      /\ m \in Meetings /\ txn[t].at = 1 /\ txn[t].adds = {}
      /\ n # NoRun => runState[n] = "active" /\ runMeeting[n] # m
  BY DEF SelectInsert, TypeOK, cardVars, LockedReadsHold, SelectOK, Selecting
<1>2. CASE ActiveRuns \ {n} # {} \/ Card(m) = {}
  BY <1>1, <1>2, EndsCleanly DEF SelectInsert
<1>3. CASE ActiveRuns \ {n} = {} /\ Card(m) # {}
  <2>1. PICK q \in Listings(m) : Becomes(t, [txn[t] EXCEPT !.pc = "load", !.rows = q])
    BY <1>3 DEF SelectInsert
  <2>2. /\ txn'[t].pc = "load" /\ txn'[t].run = n /\ txn'[t].meeting = m
        /\ txn'[t].rows = q /\ txn'[t].at = 1 /\ txn'[t].adds = {}
    <3>1. txn'[t] = [txn[t] EXCEPT !.pc = "load", !.rows = q]
      BY <2>1, BecomesValue
    <3>2. QED BY <1>1, <3>1 DEF Txns
  <2>3. runState' = runState /\ runMeeting' = runMeeting /\ listed' = listed
    BY <1>1 DEF runVars
  <2>4. ~Reuses(t)'
    BY <1>1, <2>2, <2>3 DEF Reuses
  <2>5. /\ q \in Seq(Races) /\ Len(q) > 0
        /\ \A i \in 1..Len(q) : q[i] \in listed /\ MeetingOf[q[i]] = m
    BY <1>3, ListingFacts DEF TypeOK
  <2>6. \A k \in Runs : runState[k] = "active" => k = n
    BY <1>3 DEF ActiveRuns
  <2>7. SelectOK(t)' /\ CloseOK(t)'
    BY <1>1, <2>2, <2>3, <2>4, <2>5, <2>6 DEF SelectOK, CloseOK, Selecting
  <2>8. \A u \in Reqs \ {t}, k \in Runs : HoldsRun(t, k)' => ~HoldsRun(u, k)
    BY <1>1, <2>2 DEF HoldsRun, LockedReadsHold, LocksOK
  <2>9. \A k \in Runs, r \in Races : ~HoldsRaceRun(t, k, r)'
    BY <2>2, <2>4 DEF HoldsRaceRun
  <2>10. \A u \in Reqs \ {t} : ~HoldsActiveKey(u)
    BY DEF SelectInsert
  <2>11. QED
    BY <1>1, <2>1, <2>7, <2>8, <2>9, <2>10, SelectTypes, OneMoves
<1>4. QED BY <1>2, <1>3

LEMMA SelectRaceLocks ==
    ASSUME TypeOK, LockedReadsHold, NEW t \in Reqs, SelectRace(t)
    PROVE  LockedReadsHold'
<1> DEFINE at == txn[t].at
           r == txn[t].rows[at]
           adds == txn[t].adds \cup {e \in declared : RaceOf[e] = r}
<1>1. /\ UNCHANGED <<runVars, scanVars, listed>>
      /\ txn[t] \in Txns /\ txn[t].pc = "load"
      /\ at \in 1..Len(txn[t].rows) /\ Len(txn[t].rows) \in Nat
      /\ SelectOK(t)
  BY DEF SelectRace, TypeOK, cardVars, LockedReadsHold, SelectOK, Txns
<1>2. Becomes(t, [txn[t] EXCEPT !.at = @ + 1, !.adds = @ \cup {e \in declared : RaceOf[e] = r}])
  BY DEF SelectRace
<1>3. /\ txn'[t].pc = "load" /\ txn'[t].run = txn[t].run /\ txn'[t].meeting = txn[t].meeting
      /\ txn'[t].rows = txn[t].rows /\ txn'[t].at = at + 1 /\ txn'[t].adds = adds
  <2>1. txn'[t] = [txn[t] EXCEPT !.at = @ + 1, !.adds = @ \cup {e \in declared : RaceOf[e] = r}]
    BY <1>2, BecomesValue
  <2>2. QED BY <1>1, <2>1 DEF Txns
<1>4. runState' = runState /\ runMeeting' = runMeeting /\ raceRun' = raceRun /\ listed' = listed
  BY <1>1 DEF runVars
<1>5. (Reuses(t)' <=> Reuses(t)) /\ (HoldsActiveKey(t)' <=> HoldsActiveKey(t))
  BY <1>1, <1>3, <1>4 DEF Reuses, HoldsActiveKey
<1>6. \A e \in adds : \E i \in 1..((at + 1) - 1) : txn[t].rows[i] = RaceOf[e]
  <2>1. (at + 1) - 1 = at /\ at \in 1..at
    BY <1>1
  <2>2. ASSUME NEW e \in txn[t].adds PROVE \E i \in 1..at : txn[t].rows[i] = RaceOf[e]
    <3>1. PICK i \in 1..(at - 1) : txn[t].rows[i] = RaceOf[e]
      BY <1>1 DEF SelectOK
    <3>2. i \in 1..at
      BY <1>1
    <3>3. QED BY <3>1, <3>2
  <2>3. QED BY <2>1, <2>2
<1>7. SelectOK(t)' /\ CloseOK(t)'
  <2>1. CloseOK(t)'
    BY <1>3 DEF CloseOK
  <2>2. at + 1 \in 1..(Len(txn[t].rows) + 1)
    BY <1>1
  <2>3. QED BY <1>1, <1>3, <1>4, <1>5, <1>6, <2>1, <2>2 DEF SelectOK, Selecting
<1>8. ASSUME NEW u \in Reqs \ {t}, NEW k \in Runs, HoldsRun(t, k)' PROVE ~HoldsRun(u, k)
  BY <1>1, <1>3, <1>8 DEF HoldsRun, LockedReadsHold, LocksOK
<1>9. ASSUME NEW u \in Reqs \ {t}, NEW k \in Runs, NEW s \in Races, HoldsRaceRun(t, k, s)'
      PROVE  ~HoldsRaceRun(u, k, s)
  <2>1. k = txn[t].run /\ Reuses(t) /\ \E i \in 1..((at + 1) - 1) : txn[t].rows[i] = s
    BY <1>3, <1>5, <1>9 DEF HoldsRaceRun
  <2>2. PICK i \in 1..at : txn[t].rows[i] = s
    BY <1>1, <2>1
  <2>3. CASE i = at
    BY <2>1, <2>2, <2>3 DEF SelectRace, RaceRunFreeFor
  <2>4. CASE i # at
    <3>1. i \in 1..(at - 1)
      BY <1>1, <2>4
    <3>2. HoldsRaceRun(t, k, s)
      BY <2>1, <2>2, <3>1 DEF HoldsRaceRun
    <3>3. QED BY <3>2 DEF LockedReadsHold, LocksOK
  <2>5. QED BY <2>3, <2>4
<1>10. \A u \in Reqs \ {t} : HoldsActiveKey(t)' => ~HoldsActiveKey(u)
  BY <1>5 DEF LockedReadsHold, LocksOK
<1>11. QED
  BY <1>1, <1>2, <1>7, <1>8, <1>9, <1>10, SelectTypes, OneMoves

(***************************************************************************)
(* close_race takes its first lock.                                        *)
(***************************************************************************)
LEMMA CloseBeginLocks ==
    ASSUME TypeOK, LockedReadsHold, NEW t \in Reqs, NEW n \in Runs, NEW r \in Races,
           CloseBegin(t, n, r)
    PROVE  LockedReadsHold'
<1>1. PICK next \in (IF RacesIn(n, "locked") = {} THEN {NoRace} ELSE FirstLocked(n)) :
         Becomes(t, [NoTxn EXCEPT !.pc = "close", !.run = n, !.race = r, !.next = next])
  BY DEF CloseBegin
<1>2. IF next = NoRace THEN RacesIn(n, "locked") = {}
                       ELSE next \in Races /\ raceRun[n][next] = "locked"
  BY NullAssumption DEF FirstLocked, RacesIn
<1>3. [NoTxn EXCEPT !.pc = "close", !.run = n, !.race = r, !.next = next] \in Txns
  BY <1>2, NoTxnType DEF NoTxn, Txns
<1>4. /\ txn'[t].pc = "close" /\ txn'[t].run = n /\ txn'[t].race = r /\ txn'[t].next = next
  <2>1. txn'[t] = [NoTxn EXCEPT !.pc = "close", !.run = n, !.race = r, !.next = next]
    BY <1>1, BecomesValue
  <2>2. QED BY <2>1 DEF NoTxn
<1>5. UNCHANGED <<runVars, scanVars, listed>> /\ raceRun' = raceRun /\ session' = session
  BY DEF CloseBegin, cardVars, runVars, scanVars
<1>6. CloseOK(t)'
  <2>1. raceRun[n][r] = "open" /\ \A e \in SessionsOf(n, r) : session[n][e] \in Settled
    BY DEF CloseBegin
  <2>2. QED BY <1>2, <1>4, <1>5, <2>1 DEF CloseOK, SessionsOf, RacesIn
<1>7. /\ SelectOK(t)' /\ ~HoldsActiveKey(t)'
      /\ \A k \in Runs : ~HoldsRun(t, k)'
      /\ \A k \in Runs, s \in Races : HoldsRaceRun(t, k, s)' => k = n /\ s = r
  BY <1>4 DEF SelectOK, Selecting, HoldsRun, HoldsRaceRun, HoldsActiveKey, Reuses
<1>8. \A u \in Reqs : ~HoldsRaceRun(u, n, r)
  BY DEF CloseBegin, RaceRunFree
<1>9. QED
  BY <1>1, <1>3, <1>5, <1>6, <1>7, <1>8, OneMoves

(***************************************************************************)
(* A restart of the API rolls everything back.                             *)
(***************************************************************************)
LEMMA ApiRestartLocks ==
    ASSUME TypeOK, LockedReadsHold, ApiRestart
    PROVE  LockedReadsHold'
<1>1. \A t \in Reqs : txn'[t] = NoTxn
  BY DEF ApiRestart
<1>2. \A t \in Reqs :
         /\ SelectOK(t)' /\ CloseOK(t)' /\ ~HoldsActiveKey(t)'
         /\ \A n \in Runs : ~HoldsRun(t, n)'
         /\ \A n \in Runs, r \in Races : ~HoldsRaceRun(t, n, r)'
  BY <1>1 DEF NoTxn, SelectOK, CloseOK, Selecting, HoldsRun, HoldsRaceRun, HoldsActiveKey, Reuses
<1>3. TablesOK'
  BY DEF ApiRestart, LockedReadsHold, TablesOK, runVars, cardVars
<1>4. QED
  BY <1>2, <1>3 DEF LockedReadsHold, LocksOK

(***************************************************************************)
(* The card moves on: no race of it disappears.                            *)
(***************************************************************************)
LEMMA CardLocks ==
    ASSUME TypeOK, LockedReadsHold, UNCHANGED <<runVars, scanVars, txn>>,
           listed \subseteq listed'
    PROVE  LockedReadsHold'
<1>1. /\ runState' = runState /\ runMeeting' = runMeeting /\ raceRun' = raceRun
      /\ session' = session /\ txn' = txn
  BY DEF runVars, scanVars
<1>2. TablesOK'
  BY <1>1 DEF LockedReadsHold, TablesOK
<1>3. ASSUME NEW t \in Reqs PROVE SelectOK(t)' /\ CloseOK(t)'
  <2>1. SelectOK(t) /\ CloseOK(t)
    BY DEF LockedReadsHold
  <2>2. CloseOK(t)'
    BY <1>1, <2>1 DEF CloseOK, SessionsOf, RacesIn
  <2>3. SelectOK(t)'
    BY <1>1, <2>1 DEF SelectOK, Selecting, Reuses, HoldsActiveKey
  <2>4. QED BY <2>2, <2>3
<1>4. LocksOK'
  BY <1>1 DEF LockedReadsHold, LocksOK, HoldsRun, HoldsRaceRun, HoldsActiveKey, Reuses
<1>5. QED BY <1>2, <1>3, <1>4 DEF LockedReadsHold

(***************************************************************************)
(* A scan step writes at most one session, whose race no close holds.      *)
(***************************************************************************)
LEMMA ScanLocks ==
    ASSUME TypeOK, LockedReadsHold, NEW n \in Runs, NEW e \in Entries, Scan(n, e)
    PROVE  LockedReadsHold'
<1>1. UNCHANGED <<runVars, cardVars, txn>>
  BY DEF Scan, StartScan, FinishScan, Skip, Capture
<1>2. /\ runState' = runState /\ runMeeting' = runMeeting /\ raceRun' = raceRun
      /\ txn' = txn /\ listed' = listed
  BY <1>1 DEF runVars, cardVars
<1> DEFINE OneSession ==
             /\ RaceRunFree(n, RaceOf[e])
             /\ session[n][e] # "none"
             /\ \A k \in Runs, f \in Entries : k # n \/ f # e => session'[k][f] = session[k][f]
<1>3. session' = session \/ OneSession
  <2>1. ASSUME NEW p \in ScanPhases, StartScan(n, e, p) PROVE OneSession
    BY <2>1 DEF StartScan, Awaiting, TypeOK, ScanPhases
  <2>2. ASSUME NEW p \in ScanPhases, FinishScan(n, e, p) PROVE OneSession
    BY <2>2 DEF FinishScan, Scanning, TypeOK, ScanPhases
  <2>3. CASE Skip(n, e)
    BY <2>3 DEF Skip, TypeOK
  <2>4. CASE Capture(n, e)
    BY <2>4 DEF Capture
  <2>5. QED BY <2>1, <2>2, <2>3, <2>4 DEF Scan
<1>4. TablesOK'
  BY <1>2 DEF LockedReadsHold, TablesOK
<1>5. ASSUME NEW t \in Reqs PROVE SelectOK(t)' /\ CloseOK(t)'
  <2>1. SelectOK(t) /\ CloseOK(t)
    BY DEF LockedReadsHold
  <2>2. SelectOK(t)'
    BY <1>2, <2>1 DEF SelectOK, Selecting, Reuses, HoldsActiveKey
  <2>3. CloseOK(t)'
    <3> SUFFICES ASSUME txn[t].pc = "close" PROVE CloseOK(t)'
      BY <1>2 DEF CloseOK
    <3>1. CASE session' = session
      BY <1>2, <2>1, <3>1 DEF CloseOK, SessionsOf, RacesIn
    <3>2. CASE OneSession
      <4>1. ~(txn[t].run = n /\ txn[t].race = RaceOf[e])
        BY <3>2 DEF RaceRunFree, HoldsRaceRun
      <4>2. \A f \in Entries : RaceOf[f] = txn[t].race =>
               session'[txn[t].run][f] = session[txn[t].run][f]
        BY <2>1, <3>2, <4>1 DEF CloseOK
      <4>3. QED BY <1>2, <2>1, <4>2 DEF CloseOK, SessionsOf, RacesIn
    <3>3. QED BY <1>3, <3>1, <3>2
  <2>4. QED BY <2>2, <2>3
<1>6. LocksOK'
  BY <1>2 DEF LockedReadsHold, LocksOK, HoldsRun, HoldsRaceRun, HoldsActiveKey, Reuses
<1>7. QED BY <1>4, <1>5, <1>6 DEF LockedReadsHold

(***************************************************************************)
(* The commits.  What the other transactions hold follows from their       *)
(* records, and the committing one holds nothing any more.                 *)
(***************************************************************************)
LEMMA OneCommits ==
    ASSUME TypeOK, LockedReadsHold, NEW t \in Reqs, Becomes(t, NoTxn), TablesOK',
           \A u \in Reqs \ {t} : SelectOK(u)' /\ CloseOK(u)' /\ (Reuses(u)' <=> Reuses(u))
    PROVE  LockedReadsHold'
<1>1. txn'[t] = NoTxn /\ \A u \in Reqs : u # t => txn'[u] = txn[u]
  BY BecomesValue
<1>2. /\ SelectOK(t)' /\ CloseOK(t)' /\ ~HoldsActiveKey(t)'
      /\ \A n \in Runs : ~HoldsRun(t, n)'
      /\ \A n \in Runs, r \in Races : ~HoldsRaceRun(t, n, r)'
  BY <1>1 DEF NoTxn, SelectOK, CloseOK, Selecting, HoldsRun, HoldsRaceRun, HoldsActiveKey, Reuses
<1>3. ASSUME NEW u \in Reqs \ {t}
      PROVE  /\ HoldsActiveKey(u)' <=> HoldsActiveKey(u)
             /\ \A n \in Runs : HoldsRun(u, n)' <=> HoldsRun(u, n)
             /\ \A n \in Runs, r \in Races : HoldsRaceRun(u, n, r)' <=> HoldsRaceRun(u, n, r)
  BY <1>1 DEF HoldsRun, HoldsRaceRun, HoldsActiveKey
<1>4. LocksOK'
  <2> SUFFICES ASSUME NEW u \in Reqs, NEW v \in Reqs, u # v
               PROVE  /\ \A n \in Runs : ~(HoldsRun(u, n) /\ HoldsRun(v, n))'
                      /\ \A n \in Runs, r \in Races : ~(HoldsRaceRun(u, n, r) /\ HoldsRaceRun(v, n, r))'
                      /\ ~(HoldsActiveKey(u) /\ HoldsActiveKey(v))'
    BY DEF LocksOK
  <2>1. CASE u # t /\ v # t
    BY <1>3, <2>1 DEF LockedReadsHold, LocksOK
  <2>2. CASE u = t \/ v = t
    BY <1>2, <2>2
  <2>3. QED BY <2>1, <2>2
<1>5. QED BY <1>2, <1>4 DEF LockedReadsHold

(***************************************************************************)
(* close_race commits.  Its race is the only open one of the run, so no    *)
(* other close of the run is in flight.                                    *)
(***************************************************************************)
LEMMA OnlyClose ==
    ASSUME LockedReadsHold, OneOpenRace, NEW t \in Reqs, NEW u \in Reqs, t # u,
           txn[t].pc = "close", txn[u].pc = "close"
    PROVE  txn[t].run # txn[u].run
<1> SUFFICES ASSUME txn[t].run = txn[u].run PROVE FALSE
  OBVIOUS
<1>1. /\ txn[t].run \in Runs /\ txn[t].race \in Races /\ txn[u].race \in Races
      /\ raceRun[txn[t].run][txn[t].race] = "open" /\ raceRun[txn[u].run][txn[u].race] = "open"
  BY DEF LockedReadsHold, CloseOK
<1>2. txn[t].race = txn[u].race
  BY <1>1 DEF OneOpenRace, RacesIn
<1>3. HoldsRaceRun(t, txn[t].run, txn[t].race) /\ HoldsRaceRun(u, txn[t].run, txn[t].race)
  BY <1>2 DEF HoldsRaceRun
<1>4. QED BY <1>1, <1>3 DEF LockedReadsHold, LocksOK

LEMMA ClosingIsQuiet ==
    ASSUME Inv, NEW t \in Reqs, txn[t].pc = "close",
           NEW e \in Entries, RaceOf[e] = txn[t].race
    PROVE  activePhase[txn[t].run][e] = "none"
<1> DEFINE n == txn[t].run
<1> SUFFICES ASSUME activePhase[n][e] # "none" PROVE FALSE
  OBVIOUS
<1>1. n \in Runs /\ \A f \in SessionsOf(n, txn[t].race) : session[n][f] \in Settled
  BY DEF Inv, LockedReadsHold, CloseOK
<1>2. activePhase[n][e] \in ScanPhases
  BY <1>1 DEF Inv, TypeOK
<1>3. session[n][e] = Scanning(activePhase[n][e])
  BY <1>1, <1>2 DEF Inv, ActiveScanCanFinish
<1>4. session[n][e] \in Settled
  BY <1>1, <1>3 DEF SessionsOf, Scanning
<1>5. QED BY <1>3, <1>4 DEF Settled, Scanning

LEMMA OpenNextSafe ==
    ASSUME Inv, NEW t \in Reqs, OpenNext(t)
    PROVE  LockedReadsHold' /\ OneOpenRace' /\ ActiveScanCanFinish' /\ PastPhaseHasFrames'
<1> DEFINE n == txn[t].run
           r == txn[t].race
           next == txn[t].next
<1>1. /\ n \in Runs /\ r \in Races /\ next \in Races
      /\ txn[t].pc = "close"
      /\ raceRun[n][r] = "open" /\ raceRun[n][next] = "locked"
      /\ \A e \in SessionsOf(n, r) : session[n][e] \in Settled
  BY DEF Inv, OpenNext, LockedReadsHold, CloseOK, TypeOK, Txns
<1>2. /\ runState' = runState /\ runMeeting' = runMeeting /\ listed' = listed
      /\ session' = session /\ activePhase' = activePhase /\ frames' = frames
      /\ Becomes(t, NoTxn)
  BY DEF OpenNext, scanVars, cardVars
<1>3. /\ raceRun'[n][r] = "archived" /\ raceRun'[n][next] = "open"
      /\ \A k \in Runs, s \in Races : k # n \/ s \notin {r, next} => raceRun'[k][s] = raceRun[k][s]
  BY <1>1 DEF Inv, TypeOK, OpenNext
<1>4. \A k \in Runs, s \in Races : raceRun'[k][s] # "none" <=> raceRun[k][s] # "none"
  <2>1. ASSUME NEW k \in Runs, NEW s \in Races
        PROVE  raceRun'[k][s] # "none" <=> raceRun[k][s] # "none"
    BY <1>1, <1>3
  <2>2. QED BY <2>1
<1>5. \A u \in Reqs \ {t} : txn'[u] = txn[u]
  BY <1>2, BecomesValue DEF Inv
<1>6. LockedReadsHold'
  <2>1. TablesOK'
    BY <1>2, <1>4 DEF Inv, LockedReadsHold, TablesOK
  <2>2. ASSUME NEW u \in Reqs \ {t}
        PROVE  SelectOK(u)' /\ CloseOK(u)' /\ (Reuses(u)' <=> Reuses(u))
    <3>1. SelectOK(u) /\ CloseOK(u) /\ txn[u] \in Txns
      BY DEF Inv, LockedReadsHold, TypeOK
    <3>2. Reuses(u)' <=> Reuses(u)
      BY <1>2, <1>5 DEF Reuses
    <3>3. Reuses(u) => txn[u].run \in Runs
      BY <3>1 DEF Reuses, Txns
    <3>4. SelectOK(u)'
      <4>1. txn'[u] = txn[u]
        BY <1>5
      <4>2. ASSUME Reuses(u), NEW s \in Races, raceRun'[txn[u].run][s] # "none"
            PROVE  \E i \in 1..Len(txn[u].rows) : txn[u].rows[i] = s
        BY <1>4, <3>1, <3>3, <4>2 DEF SelectOK
      <4>3. QED BY <1>2, <3>1, <3>2, <4>1, <4>2 DEF SelectOK, Selecting, HoldsActiveKey
    <3>5. CloseOK(u)'
      <4> SUFFICES ASSUME txn[u].pc = "close" PROVE CloseOK(u)'
        BY <1>5 DEF CloseOK
      <4>1. txn[u].run # n /\ txn[u].run \in Runs
        BY <1>1, <3>1, OnlyClose DEF Inv, CloseOK
      <4>2. \A s \in Races : raceRun'[txn[u].run][s] = raceRun[txn[u].run][s]
        BY <1>3, <4>1
      <4>3. txn[u].next \in Races \cup {NoRace}
        BY <3>1 DEF Txns
      <4>4. QED BY <1>2, <1>5, <3>1, <4>2, <4>3 DEF CloseOK, SessionsOf, RacesIn
    <3>6. QED BY <3>2, <3>4, <3>5
  <2>3. QED BY <1>2, <2>1, <2>2, OneCommits DEF Inv
<1>7. OneOpenRace'
  <2>1. \A s \in Races : raceRun[n][s] = "open" => s = r
    BY <1>1 DEF Inv, OneOpenRace, RacesIn
  <2>2. ASSUME NEW k \in Runs
        PROVE  /\ \A s, v \in RacesIn(k, "open")' : s = v
               /\ runState'[k] = "active" => RacesIn(k, "open")' # {}
               /\ runState'[k] = "completed" => \A s \in Races : raceRun'[k][s] \in {"none", "archived"}
    <3>1. CASE k = n
      BY <1>1, <1>2, <1>3, <2>1, <3>1 DEF Inv, OneOpenRace, RacesIn
    <3>2. CASE k # n
      BY <1>2, <1>3, <3>2 DEF Inv, OneOpenRace, RacesIn
    <3>3. QED BY <3>1, <3>2
  <2>3. QED BY <2>2 DEF OneOpenRace
<1>8. ActiveScanCanFinish'
  <2>1. \A e \in Entries : RaceOf[e] = r => activePhase[n][e] = "none"
    BY <1>1, ClosingIsQuiet DEF Inv
  <2>2. \A k \in Runs, e \in Entries : activePhase[k][e] # "none" => raceRun'[k][RaceOf[e]] = "open"
    BY <1>1, <1>3, <2>1, CardAssumption DEF Inv, ActiveScanCanFinish
  <2>3. QED BY <1>2, <2>2 DEF Inv, ActiveScanCanFinish
<1>9. PastPhaseHasFrames'
  BY <1>2 DEF Inv, PastPhaseHasFrames
<1>10. QED BY <1>6, <1>7, <1>8, <1>9

LEMMA CloseLastSafe ==
    ASSUME Inv, NEW t \in Reqs, CloseLast(t)
    PROVE  LockedReadsHold' /\ OneOpenRace' /\ ActiveScanCanFinish' /\ PastPhaseHasFrames'
<1> DEFINE n == txn[t].run
           r == txn[t].race
<1>1. /\ n \in Runs /\ r \in Races /\ txn[t].pc = "close"
      /\ raceRun[n][r] = "open" /\ RacesIn(n, "locked") = {}
  BY DEF Inv, CloseLast, LockedReadsHold, CloseOK
<1>2. \A s \in Races : s # r => raceRun[n][s] \in {"none", "archived"}
  <2>1. \A s \in Races : s # r => raceRun[n][s] # "open"
    BY <1>1 DEF Inv, OneOpenRace, RacesIn
  <2>2. \A s \in Races : raceRun[n][s] \in RaceRunStates
    BY <1>1 DEF Inv, TypeOK
  <2>3. QED BY <1>1, <2>1, <2>2 DEF RacesIn, RaceRunStates
<1>3. Left(n, r) = {}
  BY <1>2 DEF Left
<1>4. /\ runState'[n] = "completed"
      /\ \A k \in Runs : k # n => runState'[k] = runState[k]
      /\ raceRun'[n][r] = "archived"
      /\ \A k \in Runs, s \in Races : k # n \/ s # r => raceRun'[k][s] = raceRun[k][s]
      /\ FreeFor(t, n)
  BY <1>1, <1>3 DEF Inv, TypeOK, CloseLast
<1>5. /\ runMeeting' = runMeeting /\ listed' = listed
      /\ session' = session /\ activePhase' = activePhase /\ frames' = frames
      /\ Becomes(t, NoTxn)
  BY DEF CloseLast, scanVars, cardVars
<1>6. \A u \in Reqs \ {t} : txn'[u] = txn[u]
  BY <1>5, BecomesValue DEF Inv
<1>7. LockedReadsHold'
  <2>1. TablesOK'
    <3>1. \A k \in Runs, s \in Races : raceRun'[k][s] # "none" <=> raceRun[k][s] # "none"
      BY <1>1, <1>4
    <3>2. \A k \in Runs : runState'[k] = "active" => runState[k] = "active"
      BY <1>1, <1>4
    <3>3. \A k \in Runs : runState'[k] = "none" => runState[k] = "none"
      BY <1>1, <1>4
    <3>4. QED BY <1>5, <3>1, <3>2, <3>3 DEF Inv, LockedReadsHold, TablesOK
  <2>2. ASSUME NEW u \in Reqs \ {t}
        PROVE  SelectOK(u)' /\ CloseOK(u)' /\ (Reuses(u)' <=> Reuses(u))
    <3>1. SelectOK(u) /\ CloseOK(u) /\ txn[u] \in Txns /\ txn'[u] = txn[u]
      BY <1>6 DEF Inv, LockedReadsHold, TypeOK
    <3>2. Reuses(u)' <=> Reuses(u)
      BY <1>5, <3>1 DEF Reuses
    <3>3. txn[u].run \in Runs \cup {NoRun}
      BY <3>1 DEF Txns
    <3>4. txn[u].pc \in {"insert", "load"} => txn[u].run # n
      BY <1>4 DEF FreeFor, HoldsRun
    <3>5. SelectOK(u)'
      <4>1. ASSUME Reuses(u), NEW s \in Races, raceRun'[txn[u].run][s] # "none"
            PROVE  \E i \in 1..Len(txn[u].rows) : txn[u].rows[i] = s
        BY <1>4, <3>1, <3>3, <3>4, <4>1 DEF SelectOK, Reuses
      <4>2. txn[u].pc \in {"insert", "load"} /\ txn[u].run # NoRun => runState'[txn[u].run] = "active"
        BY <1>4, <3>1, <3>3, <3>4 DEF SelectOK
      <4>3. HoldsActiveKey(u) => \A k \in Runs : runState'[k] = "active" => k = txn[u].run
        BY <1>1, <1>4, <3>1 DEF SelectOK
      <4>4. QED BY <1>5, <3>1, <3>2, <4>1, <4>2, <4>3 DEF SelectOK, Selecting, HoldsActiveKey
    <3>6. CloseOK(u)'
      <4> SUFFICES ASSUME txn[u].pc = "close" PROVE CloseOK(u)'
        BY <3>1 DEF CloseOK
      <4>1. txn[u].run # n /\ txn[u].run \in Runs
        BY <1>1, <3>1, OnlyClose DEF Inv, CloseOK
      <4>2. \A s \in Races : raceRun'[txn[u].run][s] = raceRun[txn[u].run][s]
        BY <1>4, <4>1
      <4>3. txn[u].next \in Races \cup {NoRace}
        BY <3>1 DEF Txns
      <4>4. QED BY <1>5, <3>1, <4>2, <4>3 DEF CloseOK, SessionsOf, RacesIn
    <3>7. QED BY <3>2, <3>5, <3>6
  <2>3. QED BY <1>5, <2>1, <2>2, OneCommits DEF Inv
<1>8. OneOpenRace'
  <2>1. ASSUME NEW k \in Runs
        PROVE  /\ \A s, v \in RacesIn(k, "open")' : s = v
               /\ runState'[k] = "active" => RacesIn(k, "open")' # {}
               /\ runState'[k] = "completed" => \A s \in Races : raceRun'[k][s] \in {"none", "archived"}
    <3>1. CASE k = n
      BY <1>1, <1>2, <1>4, <3>1 DEF RacesIn
    <3>2. CASE k # n
      BY <1>4, <3>2 DEF Inv, OneOpenRace, RacesIn
    <3>3. QED BY <3>1, <3>2
  <2>2. QED BY <2>1 DEF OneOpenRace
<1>9. ActiveScanCanFinish'
  <2>1. \A e \in Entries : RaceOf[e] = r => activePhase[n][e] = "none"
    BY <1>1, ClosingIsQuiet DEF Inv
  <2>2. \A k \in Runs, e \in Entries : activePhase[k][e] # "none" => raceRun'[k][RaceOf[e]] = "open"
    BY <1>1, <1>4, <2>1, CardAssumption DEF Inv, ActiveScanCanFinish
  <2>3. QED BY <1>5, <2>2 DEF Inv, ActiveScanCanFinish
<1>10. PastPhaseHasFrames'
  BY <1>5 DEF Inv, PastPhaseHasFrames
<1>11. QED BY <1>7, <1>8, <1>9, <1>10

(***************************************************************************)
(* What the commit of select_meeting does to run n: it goes on with the    *)
(* active run it locked, or inserts one and cancels the one it locked,     *)
(* which is then the only active one.  What exists keeps its state.        *)
(***************************************************************************)
Goes(t, n) == /\ Reuses(t) /\ n = txn[t].run
              /\ runState[n] = "active" /\ runMeeting[n] = txn[t].meeting

Inserts(t, n) == /\ HoldsActiveKey(t) /\ runState[n] = "none" /\ n # txn[t].run
                 /\ \A k \in Runs : runState[k] = "active" => k = txn[t].run
                 /\ txn[t].run # NoRun => runState[txn[t].run] = "active"

CommitEffect(t, n) ==
    /\ Goes(t, n) \/ Inserts(t, n)
    /\ runState'[n] = "active"
    /\ \A k \in Runs : k # n =>
          /\ runState'[k] = IF k = txn[t].run THEN "cancelled" ELSE runState[k]
          /\ runMeeting'[k] = runMeeting[k]
          /\ raceRun'[k] = raceRun[k]
          /\ session'[k] = session[k]
    /\ runMeeting'[n] = txn[t].meeting
    /\ raceRun'[n] = LoadedRaceRuns(t, n)
    /\ \A r \in Races : raceRun[n][r] # "none" => raceRun'[n][r] = raceRun[n][r]
    /\ \A r \in Races : raceRun'[n][r] # raceRun[n][r] => r \in listed /\ MeetingOf[r] = txn[t].meeting
    /\ \A e \in Entries : \/ session'[n][e] = session[n][e]
                          \/ session[n][e] = "none" /\ session'[n][e] = "awaiting-pre"

LEMMA SelectCommitEffect ==
    ASSUME Inv, NEW t \in Reqs, SelectCommit(t)
    PROVE  \E n \in Runs : CommitEffect(t, n)
<1> DEFINE old == txn[t].run
           m == txn[t].meeting
           rows == txn[t].rows
<1>1. PICK n \in Runs : SelectCommit(t)!3!(n)
  BY DEF SelectCommit
<1>2. /\ txn[t].pc = "load" /\ txn[t].at > Len(rows) /\ txn[t] \in Txns /\ SelectOK(t)
      /\ Becomes(t, NoTxn) /\ m \in Meetings
      /\ activePhase' = activePhase /\ frames' = frames /\ listed' = listed
  BY DEF SelectCommit, Inv, TypeOK, LockedReadsHold, cardVars, SelectOK, Selecting
<1>4. /\ runState'[n] = "active"
      /\ \A k \in Runs : k # n => runState'[k] = IF k = old THEN "cancelled" ELSE runState[k]
  BY <1>1
<1>5. /\ runMeeting'[n] = m
      /\ raceRun'[n] = LoadedRaceRuns(t, n)
      /\ session'[n] = LoadedSessions(t, n)
      /\ \A k \in Runs : k # n => /\ runMeeting'[k] = runMeeting[k]
                                  /\ raceRun'[k] = raceRun[k]
                                  /\ session'[k] = session[k]
  BY <1>1 DEF Inv, TypeOK
<1>6. \A r \in Races : raceRun[n][r] # "none" => raceRun'[n][r] = raceRun[n][r]
  BY <1>5 DEF LoadedRaceRuns
<1>7. \A r \in Races : raceRun'[n][r] # raceRun[n][r] => r \in listed /\ MeetingOf[r] = m
  <2>1. \A r \in Races : raceRun'[n][r] # raceRun[n][r] => r \in RowsLoaded(t)
    BY <1>5 DEF LoadedRaceRuns
  <2>2. \A i \in 1..Len(rows) : rows[i] \in listed /\ MeetingOf[rows[i]] = m
    BY <1>2 DEF SelectOK
  <2>3. QED BY <2>1, <2>2 DEF RowsLoaded
<1>8. \A e \in Entries : \/ session'[n][e] = session[n][e]
                         \/ session[n][e] = "none" /\ session'[n][e] = "awaiting-pre"
  <2> TAKE e \in Entries
  <2>1. session'[n][e] = IF session[n][e] = "none" /\ e \in txn[t].adds
                         THEN "awaiting-pre" ELSE session[n][e]
    BY <1>5 DEF LoadedSessions
  <2>2. QED BY <2>1
<1>9. \/ Reuses(t) /\ n = old /\ runState[n] = "active" /\ runMeeting[n] = m
      \/ /\ HoldsActiveKey(t) /\ runState[n] = "none" /\ n # old
         /\ \A k \in Runs : runState[k] = "active" => k = old
         /\ old # NoRun => runState[old] = "active"
  <2>1. CASE Reuses(t)
    <3>1. n = old
      BY <1>1, <2>1
    <3>2. QED BY <1>2, <2>1, <3>1 DEF Reuses, SelectOK
  <2>2. CASE ~Reuses(t)
    <3>1. HoldsActiveKey(t) /\ runState[n] = "none"
      BY <1>1, <1>2, <2>2 DEF HoldsActiveKey
    <3>2. \A k \in Runs : runState[k] = "active" => k = old
      BY <1>2, <3>1 DEF SelectOK
    <3>3. old # NoRun => runState[old] = "active"
      BY <1>2 DEF SelectOK
    <3>4. QED BY <3>1, <3>2, <3>3, NullAssumption
  <2>3. QED BY <2>1, <2>2
<1>10. Goes(t, n) \/ Inserts(t, n)
  BY <1>9 DEF Goes, Inserts
<1>11. CommitEffect(t, n)
  <2>1. \A k \in Runs : k # n =>
           /\ runState'[k] = IF k = txn[t].run THEN "cancelled" ELSE runState[k]
           /\ runMeeting'[k] = runMeeting[k]
           /\ raceRun'[k] = raceRun[k]
           /\ session'[k] = session[k]
    BY <1>4, <1>5
  <2>2. runState'[n] = "active" /\ runMeeting'[n] = m /\ raceRun'[n] = LoadedRaceRuns(t, n)
    BY <1>4, <1>5
  <2>3. QED BY <1>6, <1>7, <1>8, <1>10, <2>1, <2>2 DEF CommitEffect
<1>12. QED BY <1>11

(***************************************************************************)
(* select_meeting commits.  A run it goes on with was locked from its      *)
(* first read, with all its races; a run it inserts was not there: either  *)
(* way no other transaction relies on what it writes.                      *)
(***************************************************************************)
LEMMA SelectCommitSafe ==
    ASSUME Inv, NEW t \in Reqs, SelectCommit(t)
    PROVE  LockedReadsHold' /\ OneOpenRace' /\ ActiveScanCanFinish' /\ PastPhaseHasFrames'
<1> DEFINE old == txn[t].run
           m == txn[t].meeting
           rows == txn[t].rows
<1>1. PICK n \in Runs : CommitEffect(t, n)
  BY SelectCommitEffect
<1>2. /\ txn[t].pc = "load" /\ txn[t].at > Len(rows) /\ txn[t] \in Txns /\ SelectOK(t)
      /\ Becomes(t, NoTxn) /\ m \in Meetings
      /\ activePhase' = activePhase /\ frames' = frames /\ listed' = listed
  BY DEF SelectCommit, Inv, TypeOK, LockedReadsHold, cardVars, SelectOK, Selecting
<1>3. rows \in Seq(Races) /\ Len(rows) \in Nat /\ txn[t].at - 1 = Len(rows)
  <2>1. rows \in Seq(Races) /\ Len(rows) \in Nat
    BY <1>2 DEF Txns
  <2>2. txn[t].at \in 1..(Len(rows) + 1)
    BY <1>2 DEF SelectOK
  <2>3. QED BY <1>2, <2>1, <2>2
<1>4. /\ runState'[n] = "active"
      /\ \A k \in Runs : k # n => runState'[k] = IF k = old THEN "cancelled" ELSE runState[k]
  BY <1>1 DEF CommitEffect
<1>5. /\ runMeeting'[n] = m
      /\ raceRun'[n] = LoadedRaceRuns(t, n)
      /\ \A k \in Runs : k # n => /\ runMeeting'[k] = runMeeting[k]
                                  /\ raceRun'[k] = raceRun[k]
                                  /\ session'[k] = session[k]
  BY <1>1 DEF CommitEffect
<1>6. \A r \in Races : raceRun[n][r] # "none" => raceRun'[n][r] = raceRun[n][r]
  BY <1>1 DEF CommitEffect
<1>7. \A r \in Races : raceRun'[n][r] # raceRun[n][r] => r \in listed /\ MeetingOf[r] = m
  BY <1>1 DEF CommitEffect
<1>8. \A e \in Entries : \/ session'[n][e] = session[n][e]
                         \/ session[n][e] = "none" /\ session'[n][e] = "awaiting-pre"
  BY <1>1 DEF CommitEffect
<1>9. \/ Reuses(t) /\ n = old /\ runState[n] = "active" /\ runMeeting[n] = m
      \/ /\ HoldsActiveKey(t) /\ runState[n] = "none" /\ n # old
         /\ \A k \in Runs : runState[k] = "active" => k = old
  BY <1>1 DEF CommitEffect, Goes, Inserts
<1>10. \A u \in Reqs \ {t} : txn'[u] = txn[u] /\ SelectOK(u) /\ CloseOK(u) /\ txn[u] \in Txns
  BY <1>2, BecomesValue DEF Inv, LockedReadsHold, TypeOK
<1>11. ASSUME NEW u \in Reqs \ {t}, txn[u].pc \in {"insert", "load"}, txn[u].run # NoRun
       PROVE  txn[u].run \in Runs \ {n, old}
  <2>1. txn[u].run \in Runs /\ runState[txn[u].run] = "active"
    BY <1>10, <1>11 DEF SelectOK, Txns
  <2>2. txn[u].run # old
    BY <1>2, <1>11, <2>1 DEF HoldsRun, Inv, LockedReadsHold, LocksOK
  <2>3. QED BY <1>9, <2>1, <2>2
<1>12. ASSUME NEW u \in Reqs \ {t}, txn[u].pc = "close"
       PROVE  txn[u].run \in Runs \ {n}
  <2>1. /\ txn[u].run \in Runs /\ txn[u].race \in Races
        /\ raceRun[txn[u].run][txn[u].race] = "open"
    BY <1>10, <1>12 DEF CloseOK
  <2>2. CASE runState[n] = "none"
    BY <2>1, <2>2 DEF Inv, LockedReadsHold, TablesOK
  <2>3. CASE Reuses(t) /\ n = old
    <3> SUFFICES ASSUME txn[u].run = n PROVE FALSE
      BY <2>1
    <3>1. \E i \in 1..(txn[t].at - 1) : rows[i] = txn[u].race
      BY <1>2, <1>3, <2>1, <2>3 DEF SelectOK
    <3>2. HoldsRaceRun(t, n, txn[u].race) /\ HoldsRaceRun(u, n, txn[u].race)
      BY <1>12, <2>3, <3>1 DEF HoldsRaceRun
    <3>3. QED BY <2>1, <3>2 DEF Inv, LockedReadsHold, LocksOK
  <2>4. QED BY <1>9, <2>2, <2>3
<1>13. LockedReadsHold'
  <2>1. TablesOK'
    <3>1. ASSUME NEW k \in Runs, runState'[k] = "none" PROVE \A r \in Races : raceRun'[k][r] = "none"
      BY <1>4, <1>5, <3>1 DEF Inv, LockedReadsHold, TablesOK
    <3>2. ASSUME NEW k \in Runs, NEW r \in Races, raceRun'[k][r] # "none"
          PROVE  r \in listed /\ MeetingOf[r] = runMeeting'[k]
      <4>1. CASE k # n
        BY <1>5, <3>2, <4>1 DEF Inv, LockedReadsHold, TablesOK
      <4>2. CASE k = n /\ raceRun[n][r] = "none"
        BY <1>5, <1>7, <3>2, <4>2
      <4>3. CASE k = n /\ raceRun[n][r] # "none"
        BY <1>5, <1>9, <4>3 DEF Inv, LockedReadsHold, TablesOK
      <4>4. QED BY <4>1, <4>2, <4>3
    <3>3. ASSUME NEW k \in Runs, runState'[k] = "active" PROVE k = n
      BY <1>4, <1>9, <3>3 DEF Inv, LockedReadsHold, TablesOK
    <3>4. QED BY <1>2, <3>1, <3>2, <3>3 DEF TablesOK
  <2>2. ASSUME NEW u \in Reqs \ {t}
        PROVE  SelectOK(u)' /\ CloseOK(u)' /\ (Reuses(u)' <=> Reuses(u))
    <3>1. SelectOK(u) /\ CloseOK(u) /\ txn'[u] = txn[u] /\ txn[u].run \in Runs \cup {NoRun}
      BY <1>10 DEF Txns
    <3>2. txn[u].pc \in {"insert", "load"} /\ txn[u].run # NoRun =>
             /\ runState'[txn[u].run] = runState[txn[u].run]
             /\ runMeeting'[txn[u].run] = runMeeting[txn[u].run]
             /\ raceRun'[txn[u].run] = raceRun[txn[u].run]
      BY <1>4, <1>5, <1>11
    <3>3. Reuses(u)' <=> Reuses(u)
      BY <3>1, <3>2 DEF Reuses
    <3>4. HoldsActiveKey(u) => \A k \in Runs : runState'[k] = "active" => k = txn[u].run
      <4>1. CASE Reuses(t) /\ n = old /\ runState[n] = "active"
        BY <1>4, <3>1, <4>1 DEF SelectOK
      <4>2. CASE HoldsActiveKey(t)
        BY <4>2 DEF Inv, LockedReadsHold, LocksOK
      <4>3. QED BY <1>9, <4>1, <4>2
    <3>5. SelectOK(u)'
      <4>1. ASSUME Reuses(u), NEW s \in Races, raceRun'[txn[u].run][s] # "none"
            PROVE  \E i \in 1..Len(txn[u].rows) : txn[u].rows[i] = s
        BY <3>1, <3>2, <4>1 DEF SelectOK, Reuses
      <4>2. QED
        BY <1>2, <3>1, <3>2, <3>3, <3>4, <4>1 DEF SelectOK, Selecting, HoldsActiveKey
    <3>6. CloseOK(u)'
      <4> SUFFICES ASSUME txn[u].pc = "close" PROVE CloseOK(u)'
        BY <3>1 DEF CloseOK
      <4>1. txn[u].run \in Runs \ {n}
        BY <1>12
      <4>2. raceRun'[txn[u].run] = raceRun[txn[u].run] /\ session'[txn[u].run] = session[txn[u].run]
        BY <1>5, <4>1
      <4>3. QED BY <3>1, <4>2 DEF CloseOK, SessionsOf, RacesIn
    <3>7. QED BY <3>3, <3>5, <3>6
  <2>3. QED BY <1>2, <2>1, <2>2, OneCommits DEF Inv
<1>14. OneOpenRace'
  <2>1. ASSUME NEW k \in Runs
        PROVE  /\ \A s, v \in RacesIn(k, "open")' : s = v
               /\ runState'[k] = "active" => RacesIn(k, "open")' # {}
               /\ runState'[k] = "completed" => \A s \in Races : raceRun'[k][s] \in {"none", "archived"}
    <3>1. CASE k # n
      BY <1>4, <1>5, <3>1 DEF Inv, OneOpenRace, RacesIn
    <3>2. CASE k = n /\ runState[n] = "active"
      <4>1. PICK o \in Races : raceRun[n][o] = "open"
        BY <3>2 DEF Inv, OneOpenRace, RacesIn
      <4>2. RacesIn(n, "none") # Races
        BY <4>1 DEF RacesIn
      <4>3. \A r \in Races : raceRun'[n][r] = "open" <=> raceRun[n][r] = "open"
        BY <1>5, <4>2 DEF LoadedRaceRuns
      <4>4. QED BY <1>4, <3>2, <4>1, <4>3 DEF Inv, OneOpenRace, RacesIn
    <3>3. CASE k = n /\ HoldsActiveKey(t) /\ runState[n] = "none"
      <4>1. \A r \in Races : raceRun[n][r] = "none"
        BY <3>3 DEF Inv, LockedReadsHold, TablesOK
      <4>2. RacesIn(n, "none") = Races
        BY <4>1 DEF RacesIn
      <4>3. Len(rows) > 0
        BY <1>2, <3>3 DEF SelectOK
      <4>4. rows[1] \in Races /\ rows[1] \in RowsLoaded(t)
        BY <1>3, <4>3 DEF RowsLoaded
      <4>5. \A r \in Races : raceRun'[n][r] = "open" <=> r = rows[1]
        BY <1>5, <4>1, <4>2, <4>4 DEF LoadedRaceRuns
      <4>6. QED BY <1>4, <3>3, <4>4, <4>5 DEF RacesIn
    <3>4. QED BY <1>9, <3>1, <3>2, <3>3
  <2>2. QED BY <2>1 DEF OneOpenRace
<1>15. ActiveScanCanFinish'
  <2>1. \A k \in Runs, e \in Entries, p \in ScanPhases :
           session'[k][e] = Scanning(p) <=> session[k][e] = Scanning(p)
    <3> SUFFICES ASSUME NEW k \in Runs, NEW e \in Entries, NEW p \in ScanPhases
                 PROVE  session'[k][e] = Scanning(p) <=> session[k][e] = Scanning(p)
      OBVIOUS
    <3>1. Scanning(p) \notin {"none", "awaiting-pre"}
      BY DEF Scanning
    <3>2. QED BY <1>5, <1>8, <3>1
  <2>2. \A k \in Runs, e \in Entries : activePhase[k][e] # "none" => raceRun'[k][RaceOf[e]] = "open"
    <3> SUFFICES ASSUME NEW k \in Runs, NEW e \in Entries, activePhase[k][e] # "none"
                 PROVE  raceRun'[k][RaceOf[e]] = "open"
      OBVIOUS
    <3>1. raceRun[k][RaceOf[e]] = "open" /\ RaceOf[e] \in Races
      BY CardAssumption DEF Inv, ActiveScanCanFinish
    <3>2. QED BY <1>5, <1>6, <3>1
  <2>3. QED BY <1>2, <2>1, <2>2 DEF Inv, ActiveScanCanFinish
<1>16. PastPhaseHasFrames'
  <2>1. \A k \in Runs, e \in Entries :
           session'[k][e] \in {"awaiting-post", "scanning-post", "complete"} =>
              session'[k][e] = session[k][e]
    BY <1>5, <1>8
  <2>2. QED BY <1>2, <2>1 DEF Inv, PastPhaseHasFrames
<1>17. QED BY <1>13, <1>14, <1>15, <1>16

(***************************************************************************)
(* The scan steps.                                                         *)
(***************************************************************************)
LEMMA ScanSafe ==
    ASSUME Inv, NEW n \in Runs, NEW e \in Entries, Scan(n, e)
    PROVE  OneOpenRace' /\ ActiveScanCanFinish' /\ PastPhaseHasFrames'
<1>1. runState' = runState /\ raceRun' = raceRun
  BY DEF Scan, StartScan, FinishScan, Skip, Capture, runVars
<1>2. OneOpenRace'
  BY <1>1 DEF Inv, OneOpenRace, RacesIn
<1>3. ASSUME NEW p \in ScanPhases, StartScan(n, e, p)
      PROVE  ActiveScanCanFinish' /\ PastPhaseHasFrames'
  <2>1. /\ session'[n][e] = Scanning(p) /\ activePhase'[n][e] = p
        /\ \A k \in Runs, f \in Entries : k # n \/ f # e =>
              session'[k][f] = session[k][f] /\ activePhase'[k][f] = activePhase[k][f]
        /\ frames' = frames /\ session[n][e] = Awaiting(p) /\ raceRun[n][RaceOf[e]] = "open"
        /\ \A k \in Runs, f \in Entries : activePhase[k][f] = "none"
    BY <1>3 DEF StartScan, Inv, TypeOK
  <2>2. p \in {"pre", "post"}
    BY DEF ScanPhases
  <2>3. \A q \in ScanPhases : p = q <=> Scanning(p) = Scanning(q)
    BY DEF ScanPhases, Scanning
  <2>4. ActiveScanCanFinish'
    BY <1>1, <2>1, <2>2, <2>3 DEF Inv, ActiveScanCanFinish, ScanPhases
  <2>5. PastPhaseHasFrames'
    BY <2>1, <2>2 DEF Inv, PastPhaseHasFrames, Awaiting, Scanning
  <2>6. QED BY <2>4, <2>5
<1>4. ASSUME NEW p \in ScanPhases, FinishScan(n, e, p)
      PROVE  ActiveScanCanFinish' /\ PastPhaseHasFrames'
  <2>1. /\ session'[n][e] = (IF p = "pre" THEN "awaiting-post" ELSE "complete")
        /\ activePhase'[n][e] = "none"
        /\ \A k \in Runs, f \in Entries : k # n \/ f # e =>
              session'[k][f] = session[k][f] /\ activePhase'[k][f] = activePhase[k][f]
        /\ frames' = frames /\ session[n][e] = Scanning(p) /\ p \in frames[n][e]
    BY <1>4 DEF FinishScan, Inv, TypeOK
  <2>2. \A q \in ScanPhases : q # "none" /\ session'[n][e] # Scanning(q)
    BY <2>1 DEF ScanPhases, Scanning
  <2>3. ActiveScanCanFinish'
    BY <1>1, <2>1, <2>2 DEF Inv, ActiveScanCanFinish
  <2>4. PastPhaseHasFrames'
    BY <2>1 DEF Inv, PastPhaseHasFrames, Scanning, ScanPhases
  <2>5. QED BY <2>3, <2>4
<1>5. CASE Skip(n, e)
  <2>1. /\ session'[n][e] = "cancelled" /\ activePhase' = activePhase /\ frames' = frames
        /\ activePhase[n][e] = "none"
        /\ \A k \in Runs, f \in Entries : k # n \/ f # e => session'[k][f] = session[k][f]
    BY <1>5 DEF Skip, Inv, TypeOK
  <2>2. \A q \in ScanPhases : q # "none" /\ session'[n][e] # Scanning(q)
    BY <2>1 DEF ScanPhases, Scanning
  <2>3. ActiveScanCanFinish'
    BY <1>1, <2>1, <2>2 DEF Inv, ActiveScanCanFinish
  <2>4. PastPhaseHasFrames'
    BY <2>1 DEF Inv, PastPhaseHasFrames
  <2>5. QED BY <1>2, <2>3, <2>4
<1>6. CASE Capture(n, e)
  <2>1. /\ session' = session /\ activePhase' = activePhase
        /\ \A k \in Runs, f \in Entries : frames[k][f] \subseteq frames'[k][f]
    BY <1>6 DEF Capture, Inv, TypeOK
  <2>2. ActiveScanCanFinish'
    BY <1>1, <2>1 DEF Inv, ActiveScanCanFinish
  <2>3. PastPhaseHasFrames'
    BY <2>1 DEF Inv, PastPhaseHasFrames
  <2>4. QED BY <1>2, <2>2, <2>3
<1>7. QED BY <1>2, <1>3, <1>4, <1>5, <1>6 DEF Scan

(***************************************************************************)
(* Steps that write no table of Race Day keep what the tables alone say.   *)
(***************************************************************************)
LEMMA QuietSafe ==
    ASSUME Inv, UNCHANGED <<runVars, scanVars>>
    PROVE  OneOpenRace' /\ ActiveScanCanFinish' /\ PastPhaseHasFrames'
<1>1. /\ runState' = runState /\ raceRun' = raceRun
      /\ session' = session /\ activePhase' = activePhase /\ frames' = frames
  BY DEF runVars, scanVars
<1>2. QED
  BY <1>1 DEF Inv, OneOpenRace, ActiveScanCanFinish, PastPhaseHasFrames, RacesIn

LEMMA InvStep == Inv /\ [Next]_vars => Inv'
<1> SUFFICES ASSUME Inv, [Next]_vars
             PROVE  LockedReadsHold' /\ OneOpenRace' /\ ActiveScanCanFinish' /\ PastPhaseHasFrames'
  BY TypeStep DEF Inv
<1> DEFINE Kept == LockedReadsHold' /\ OneOpenRace' /\ ActiveScanCanFinish' /\ PastPhaseHasFrames'
<1>1. ASSUME NEW t \in Reqs, Select(t) PROVE Kept
  <2>1. ASSUME NEW m \in Meetings, SelectBegin(t, m) PROVE Kept
    <3>1. UNCHANGED <<runVars, scanVars>>
      BY <2>1 DEF SelectBegin
    <3>2. QED BY <2>1, <3>1, SelectBeginLocks, QuietSafe DEF Inv
  <2>2. CASE SelectLock(t)
    <3>1. UNCHANGED <<runVars, scanVars>>
      BY <2>2 DEF SelectLock
    <3>2. QED BY <2>2, <3>1, SelectLockLocks, QuietSafe DEF Inv
  <2>3. CASE SelectInsert(t)
    <3>1. UNCHANGED <<runVars, scanVars>>
      BY <2>3 DEF SelectInsert
    <3>2. QED BY <2>3, <3>1, SelectInsertLocks, QuietSafe DEF Inv
  <2>4. CASE SelectRace(t)
    <3>1. UNCHANGED <<runVars, scanVars>>
      BY <2>4 DEF SelectRace
    <3>2. QED BY <2>4, <3>1, SelectRaceLocks, QuietSafe DEF Inv
  <2>5. CASE SelectCommit(t)
    BY <2>5, SelectCommitSafe
  <2>6. QED BY <1>1, <2>1, <2>2, <2>3, <2>4, <2>5 DEF Select
<1>2. ASSUME NEW t \in Reqs, Close(t) PROVE Kept
  <2>1. ASSUME NEW n \in Runs, NEW r \in Races, CloseBegin(t, n, r) PROVE Kept
    <3>1. UNCHANGED <<runVars, scanVars>>
      BY <2>1 DEF CloseBegin
    <3>2. QED BY <2>1, <3>1, CloseBeginLocks, QuietSafe DEF Inv
  <2>2. QED BY <1>2, <2>1, OpenNextSafe, CloseLastSafe DEF Close
<1>3. ASSUME NEW t \in Reqs, DeadlockVictim(t) PROVE Kept
  <2>1. UNCHANGED <<runVars, scanVars, listed>> /\ Becomes(t, NoTxn)
    BY <1>3 DEF DeadlockVictim, cardVars
  <2>2. QED BY <2>1, EndsCleanly, QuietSafe DEF Inv
<1>4. ASSUME NEW n \in Runs, NEW e \in Entries, Scan(n, e) PROVE Kept
  BY <1>4, ScanLocks, ScanSafe DEF Inv
<1>5. CASE ApiRestart
  <2>1. UNCHANGED <<runVars, scanVars>>
    BY <1>5 DEF ApiRestart
  <2>2. QED BY <1>5, <2>1, ApiRestartLocks, QuietSafe DEF Inv
<1>6. CASE Sync \/ Tick \/ UNCHANGED vars
  <2>1. UNCHANGED <<runVars, scanVars, txn>> /\ listed \subseteq listed'
    BY <1>6 DEF Sync, SyncRace, Jump, Reschedule, SyncEntry, Tick, vars, cardVars
  <2>2. QED BY <2>1, CardLocks, QuietSafe DEF Inv
<1>7. QED BY <1>1, <1>2, <1>3, <1>4, <1>5, <1>6 DEF Next

LEMMA InvAlways == Spec => []Inv
BY InvInit, InvStep, PTL DEF Spec

(***************************************************************************)
(* The results.  What a request read under a lock is still so when it      *)
(* commits, no row is held twice.                                          *)
(***************************************************************************)
THEOREM LocksCorrect == Spec => []LockedReadsHold
<1>1. Inv => LockedReadsHold
  BY DEF Inv
<1>2. QED BY <1>1, InvAlways, PTL

(***************************************************************************)
(* A meeting in progress has exactly one open race, a completed one none   *)
(* to work.                                                                *)
(***************************************************************************)
THEOREM OneRaceAtATime == Spec => []OneOpenRace
<1>1. Inv => OneOpenRace
  BY DEF Inv
<1>2. QED BY <1>1, InvAlways, PTL

(***************************************************************************)
(* The one horse being scanned is in an open race until its scan ends.     *)
(***************************************************************************)
THEOREM ScansCanFinish == Spec => []ActiveScanCanFinish
<1>1. Inv => ActiveScanCanFinish
  BY DEF Inv
<1>2. QED BY <1>1, InvAlways, PTL

(***************************************************************************)
(* A runner that is past a phase has frames of it.                         *)
(***************************************************************************)
THEOREM ScansHaveFrames == Spec => []PastPhaseHasFrames
<1>1. Inv => PastPhaseHasFrames
  BY DEF Inv
<1>2. QED BY <1>1, InvAlways, PTL

(***************************************************************************)
(* No step touches an archived race or reopens a completed meeting.        *)
(***************************************************************************)
LEMMA ArchiveStep == Inv /\ [Next]_vars => [\A n \in Runs : KeepsArchive(n)]_vars
<1> SUFFICES ASSUME Inv, Next, NEW k \in Runs PROVE KeepsArchive(k)
  OBVIOUS
<1>1. ASSUME NEW t \in Reqs, SelectCommit(t) PROVE KeepsArchive(k)
  <2>1. PICK n \in Runs : CommitEffect(t, n)
    BY <1>1, SelectCommitEffect
  <2>2. runState[k] = "completed" => k # n /\ k # txn[t].run
    BY <2>1, NullAssumption DEF CommitEffect, Goes, Inserts
  <2>3. \A r \in Races : raceRun[k][r] = "archived" => raceRun'[k][r] = "archived"
    BY <2>1 DEF CommitEffect
  <2>4. runState[k] = "completed" => /\ runState'[k] = "completed" /\ raceRun'[k] = raceRun[k]
                                     /\ session'[k] = session[k]
    BY <2>1, <2>2 DEF CommitEffect
  <2>5. QED BY <2>3, <2>4 DEF KeepsArchive
<1>2. ASSUME NEW t \in Reqs, txn[t].pc = "close"
      PROVE  /\ txn[t].run \in Runs /\ txn[t].race \in Races
             /\ raceRun[txn[t].run][txn[t].race] = "open"
             /\ txn[t].next # NoRace => raceRun[txn[t].run][txn[t].next] = "locked"
             /\ runState[txn[t].run] # "completed"
  <2>1. /\ txn[t].run \in Runs /\ txn[t].race \in Races
        /\ raceRun[txn[t].run][txn[t].race] = "open"
        /\ txn[t].next # NoRace => raceRun[txn[t].run][txn[t].next] = "locked"
    BY <1>2 DEF Inv, LockedReadsHold, CloseOK
  <2>2. QED BY <2>1 DEF Inv, OneOpenRace
<1>3. ASSUME NEW t \in Reqs, OpenNext(t) PROVE KeepsArchive(k)
  <2>1. txn[t].pc = "close" /\ txn[t].next # NoRace
    BY <1>3 DEF OpenNext
  <2>2. /\ runState' = runState /\ session' = session
        /\ raceRun' = [raceRun EXCEPT ![txn[t].run][txn[t].race] = "archived",
                                      ![txn[t].run][txn[t].next] = "open"]
    BY <1>3 DEF OpenNext, scanVars
  <2>3. /\ k # txn[t].run => raceRun'[k] = raceRun[k]
        /\ \A r \in Races : raceRun[k][r] = "archived" => raceRun'[k][r] = "archived"
    BY <1>2, <2>1, <2>2 DEF Inv, TypeOK
  <2>4. QED BY <1>2, <2>1, <2>2, <2>3 DEF KeepsArchive
<1>4. ASSUME NEW t \in Reqs, CloseLast(t) PROVE KeepsArchive(k)
  <2>1. txn[t].pc = "close"
    BY <1>4 DEF CloseLast
  <2>2. /\ session' = session
        /\ raceRun' = [raceRun EXCEPT ![txn[t].run][txn[t].race] = "archived"]
        /\ k # txn[t].run => runState'[k] = runState[k]
    BY <1>4 DEF CloseLast, scanVars, Inv, TypeOK
  <2>3. /\ k # txn[t].run => raceRun'[k] = raceRun[k]
        /\ \A r \in Races : raceRun[k][r] = "archived" => raceRun'[k][r] = "archived"
    BY <1>2, <2>1, <2>2 DEF Inv, TypeOK
  <2>4. QED BY <1>2, <2>1, <2>2, <2>3 DEF KeepsArchive
<1>5. ASSUME NEW n \in Runs, NEW e \in Entries, Scan(n, e) PROVE KeepsArchive(k)
  <2>1. runState' = runState /\ raceRun' = raceRun
    BY <1>5 DEF Scan, StartScan, FinishScan, Skip, Capture, runVars
  <2> DEFINE NoneAdded == \A f \in Entries : session[k][f] = "none" => session'[k][f] = "none"
  <2>2. NoneAdded
    <3>1. ASSUME NEW p \in ScanPhases, StartScan(n, e, p) PROVE NoneAdded
      BY <3>1 DEF StartScan, Awaiting, Inv, TypeOK
    <3>2. ASSUME NEW p \in ScanPhases, FinishScan(n, e, p) PROVE NoneAdded
      BY <3>2 DEF FinishScan, Scanning, Inv, TypeOK
    <3>3. CASE Skip(n, e)
      BY <3>3 DEF Skip, Inv, TypeOK
    <3>4. CASE Capture(n, e)
      BY <3>4 DEF Capture
    <3>5. QED BY <1>5, <3>1, <3>2, <3>3, <3>4 DEF Scan
  <2>3. QED BY <2>1, <2>2 DEF KeepsArchive
<1>6. ASSUME UNCHANGED <<runVars, scanVars>> PROVE KeepsArchive(k)
  BY <1>6 DEF KeepsArchive, runVars, scanVars
<1>7. QED
  BY <1>1, <1>3, <1>4, <1>5, <1>6
     DEF Next, Select, SelectBegin, SelectLock, SelectInsert, SelectRace, Close, CloseBegin,
         DeadlockVictim, ApiRestart, Sync, SyncRace, Jump, Reschedule, SyncEntry, Tick

THEOREM ArchiveKept == Spec => ArchiveIsFinal
BY InvAlways, ArchiveStep, PTL DEF Spec, ArchiveIsFinal

-----------------------------------------------------------------------------
(***************************************************************************)
(* Every step of Race Day is a step of the abstract meeting queue or       *)
(* leaves the queue alone.                                                 *)
(***************************************************************************)
LEMMA CommitRefines ==
    ASSUME Inv, NEW t \in Reqs, SelectCommit(t)
    PROVE  Queue!Next
<1> DEFINE rows == txn[t].rows
           listing == RowsLoaded(t)
<1>1. PICK n \in Runs : CommitEffect(t, n)
  BY SelectCommitEffect
<1>2. listing \in SUBSET Races
  BY DEF RowsLoaded
<1>3. runState' \in [Runs -> RunStates] /\ raceRun' = [raceRun EXCEPT ![n] = LoadedRaceRuns(t, n)]
  <2>1. runState' \in [Runs -> RunStates] /\ raceRun' \in [Runs -> [Races -> RaceRunStates]]
    <3>1. TypeOK'
      BY TypeStep DEF Inv, Next, Select
    <3>2. QED BY <3>1 DEF TypeOK
  <2>2. \A k \in Runs : raceRun'[k] = IF k = n THEN LoadedRaceRuns(t, n) ELSE raceRun[k]
    BY <1>1 DEF CommitEffect
  <2>3. QED BY <2>1, <2>2 DEF Inv, TypeOK
<1>4. CASE Goes(t, n)
  <2>1. runState' = runState
    BY <1>1, <1>3, <1>4 DEF CommitEffect, Goes, Inv, TypeOK
  <2>2. PICK o \in Races : raceRun[n][o] = "open"
    BY <1>4 DEF Goes, Inv, OneOpenRace, RacesIn
  <2>3. RacesIn(n, "none") # Races
    BY <2>2 DEF RacesIn
  <2>4. LoadedRaceRuns(t, n) = [r \in Races |-> IF r \in listing /\ raceRun[n][r] = "none"
                                                THEN "locked" ELSE raceRun[n][r]]
    BY <2>3 DEF LoadedRaceRuns
  <2>5. Queue!Extend(n, listing)
    BY <1>3, <1>4, <2>1, <2>4 DEF Queue!Extend, Goes
  <2>6. QED BY <1>2, <2>5 DEF Queue!Next
<1>5. CASE Inserts(t, n)
  <2>1. SelectOK(t) /\ txn[t] \in Txns /\ txn[t].pc = "load"
    BY <1>5 DEF Inserts, HoldsActiveKey, Inv, LockedReadsHold, TypeOK
  <2>2. Len(rows) > 0 /\ rows \in Seq(Races)
    BY <1>5, <2>1 DEF Inserts, SelectOK, Txns
  <2>3. rows[1] \in Races /\ rows[1] \in listing
    BY <2>2 DEF RowsLoaded
  <2>4. \A r \in Races : raceRun[n][r] = "none"
    BY <1>5 DEF Inserts, Inv, LockedReadsHold, TablesOK
  <2>5. RacesIn(n, "none") = Races
    BY <2>4 DEF RacesIn
  <2>6. LoadedRaceRuns(t, n) = [r \in Races |-> IF r = rows[1] THEN "open"
                                                ELSE IF r \in listing THEN "locked"
                                                ELSE "none"]
    BY <2>3, <2>4, <2>5 DEF LoadedRaceRuns
  <2>7. \A k \in Runs : runState'[k] = IF k = n THEN "active"
                                       ELSE IF runState[k] = "active" THEN "cancelled"
                                       ELSE runState[k]
    <3> TAKE k \in Runs
    <3>1. CASE k = n
      BY <1>1, <3>1 DEF CommitEffect
    <3>2. CASE k # n
      <4>1. runState[k] = "active" <=> k = txn[t].run
        BY <1>5, NullAssumption DEF Inserts
      <4>2. QED BY <1>1, <3>2, <4>1 DEF CommitEffect
    <3>3. QED BY <3>1, <3>2
  <2>8. runState' = [k \in Runs |-> IF k = n THEN "active"
                                    ELSE IF runState[k] = "active" THEN "cancelled"
                                    ELSE runState[k]]
    BY <1>3, <2>7
  <2>9. Queue!Start(n, rows[1], listing)
    BY <1>3, <1>5, <2>3, <2>6, <2>8 DEF Queue!Start, Inserts
  <2>10. QED BY <1>2, <2>3, <2>9 DEF Queue!Next
<1>6. QED BY <1>1, <1>4, <1>5 DEF CommitEffect

LEMMA CloseRefines ==
    ASSUME Inv, NEW t \in Reqs, OpenNext(t) \/ CloseLast(t)
    PROVE  Queue!Next
<1> DEFINE n == txn[t].run
           r == txn[t].race
           next == txn[t].next
<1>1. txn[t].pc = "close" /\ txn[t] \in Txns
  BY DEF OpenNext, CloseLast, Inv, TypeOK
<1>2. /\ n \in Runs /\ r \in Races /\ raceRun[n][r] = "open"
      /\ IF next = NoRace THEN RacesIn(n, "locked") = {} ELSE raceRun[n][next] = "locked"
  BY <1>1 DEF Inv, LockedReadsHold, CloseOK
<1>3. CASE OpenNext(t)
  <2>1. next \in Races /\ next # NoRace
    BY <1>1, <1>3 DEF OpenNext, Txns
  <2>2. Queue!Advance(n, r, next)
    BY <1>2, <1>3, <2>1 DEF OpenNext, Queue!Advance
  <2>3. QED BY <1>2, <2>1, <2>2 DEF Queue!Next
<1>4. CASE CloseLast(t)
  <2>1. RacesIn(n, "locked") = {}
    BY <1>2, <1>4 DEF CloseLast
  <2>2. \A s \in Races : s # r => raceRun[n][s] \in {"none", "archived"}
    <3>1. \A s \in Races : raceRun[n][s] \in RaceRunStates /\ raceRun[n][s] # "locked"
      BY <1>2, <2>1 DEF Inv, TypeOK, RacesIn
    <3>2. \A s \in Races : raceRun[n][s] = "open" => s = r
      BY <1>2 DEF Inv, OneOpenRace, RacesIn
    <3>3. QED BY <3>1, <3>2 DEF RaceRunStates
  <2>3. Left(n, r) = {}
    BY <2>2 DEF Left
  <2>4. Queue!RacesIn(n, "open") = {r} /\ Queue!RacesIn(n, "locked") = {}
    BY <1>2, <2>1, <2>2 DEF Queue!RacesIn, RacesIn
  <2>5. Queue!Complete(n, r)
    BY <1>4, <2>3, <2>4 DEF CloseLast, Queue!Complete
  <2>6. QED BY <1>2, <2>5 DEF Queue!Next
<1>5. QED BY <1>3, <1>4

THEOREM QueueImplemented == Spec => QueueSpec
<1>1. Init => Queue!Init
  BY DEF Init, Queue!Init
<1>2. Inv /\ [Next]_vars => [Queue!Next]_(Queue!queueVars)
  <2> SUFFICES ASSUME Inv, [Next]_vars, ~(UNCHANGED Queue!queueVars) PROVE Queue!Next
    OBVIOUS
  <2>1. ~(UNCHANGED <<runState, raceRun>>)
    BY DEF Queue!queueVars
  <2>2. \E t \in Reqs : SelectCommit(t) \/ OpenNext(t) \/ CloseLast(t)
    BY <2>1 DEF Next, Select, SelectBegin, SelectLock, SelectInsert, SelectRace, Close, CloseBegin,
                DeadlockVictim, Scan, StartScan, FinishScan, Skip, Capture, ApiRestart,
                Sync, SyncRace, Jump, Reschedule, SyncEntry, Tick, vars, runVars
  <2>3. QED BY <2>2, CommitRefines, CloseRefines
<1>3. QED BY <1>1, <1>2, InvAlways, PTL DEF Spec, QueueSpec, Queue!Spec

=============================================================================
